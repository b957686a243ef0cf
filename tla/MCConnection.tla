---------------------------- MODULE MCConnection ----------------------------
(***************************************************************************)
(* Connection for TLC: two connections that go to the same host or to two, *)
(* at port 22 or, of the first host, at another, meet the same key or two, *)
(* and have either of two profiles.  In the beginning known_hosts has up   *)
(* to two lines: the plain one of h1 and another.                          *)
(***************************************************************************)
EXTENDS Connection, FiniteSets, TLC

CONSTANTS h1, h2

Profile(preferred, useAgent, privateKey, strict, password, passphrase) ==
  [preferred |-> preferred, useAgent |-> useAgent, privateKey |-> privateKey,
   strict |-> strict, password |-> password, passphrase |-> passphrase]

MCProfiles ==
  {Profile("agent", FALSE, FALSE, FALSE, "none", "none"),
   Profile("publickey", TRUE, TRUE, TRUE, "wrong", "none")}

MCOffers == {{}, {"publickey", "keyboard"}}

MCServers ==
  {[hostname |-> e[1], port |-> e[2], key |-> k] :
     e \in {<<h1, 22>>, <<h1, 2222>>, <<h2, 22>>}, k \in Keys}

MCLines ==
  [hostname : {h1}, port : {Plain, 22, 2222}, key : Keys]
    \cup [hostname : {h2}, port : {Plain}, key : Keys]

MCFiles ==
  {file \in SUBSET MCLines :
     /\ Cardinality(file) <= 2
     /\ \A l, m \in file : l.hostname = m.hostname /\ l.port = m.port => l = m
     /\ Cardinality(file) = 2 => \E line \in file : line.hostname = h1 /\ line.port = Plain
     /\ (\E line \in file : line.port = 22) => Cardinality(file) = 1}

MCSymmetry == Permutations(Connections) \cup Permutations(Keys)

=============================================================================
