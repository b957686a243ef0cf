----------------------------- MODULE MCSftpTree -----------------------------
(***************************************************************************)
(* SftpTree for TLC: a directory with a file in a directory of its own and *)
(* a linked directory; one that holds a link to itself; one with a linked  *)
(* file and a link that leads nowhere; and a directory asked for by a link.*)
(***************************************************************************)
EXTENDS SftpTree

CONSTANTS tree, inner, other, ring, broken, long, empty, far,
          toFile, toOther, toRing, toNothing, alias

MCFiles == {long, empty, far}

MCDirs == {tree, inner, other, ring, broken}

MCLinks == {toFile, toOther, toRing, toNothing, alias}

MCEntries ==
  (tree   :> <<inner, toOther>>) @@
  (inner    :> <<long>>) @@
  (other  :> <<far>>) @@
  (ring   :> <<empty, toRing>>) @@
  (broken :> <<toFile, toNothing>>)

MCTarget ==
  (toFile :> far) @@ (toOther :> other) @@ (toRing :> ring) @@
  (toNothing :> Nowhere) @@ (alias :> other)

MCSize == [node \in MCFiles \cup MCDirs \cup MCLinks |->
             IF node = empty THEN 0 ELSE IF node = long THEN 2 ELSE 1]

MCWishes ==
  (Kinds \X {tree}) \cup ({"download", "upload"} \X {ring, broken})
  \cup {<<"remove", alias>>}

=============================================================================
