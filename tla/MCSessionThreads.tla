------------------------- MODULE MCSessionThreads -------------------------
(***************************************************************************)
(* SessionThreads for TLC: a host whose tab has both connections and one   *)
(* whose tab has the shell's only.  Every pair of workers that can meet at *)
(* the mutex is there: the two of a tab, and those of two tabs.            *)
(***************************************************************************)
EXTENDS SessionThreads, TLC

CONSTANTS both, plain

MCTabs == {both, plain}

MCBrowsing == {both}

MCMaxOpens == both :> 2 @@ plain :> 1

MCOneTab == {both}

MCOneOpen == both :> 1

=============================================================================
