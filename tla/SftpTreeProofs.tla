--------------------------- MODULE SftpTreeProofs ---------------------------
(***************************************************************************)
(* Proofs about SftpTree for any tree: of any size and depth, with links   *)
(* to anywhere in it, served from any side by either backend.              *)
(***************************************************************************)
EXTENDS SftpTree, Integers, FiniteSetTheorems, WellFoundedInduction, TLAPS

-----------------------------------------------------------------------------
(***************************************************************************)
(* Induction and recursion.                                                *)
(***************************************************************************)
(* Every set of natural numbers but the empty one has a least element. *)
LEMMA LeastOf ==
  ASSUME NEW T, T \subseteq Nat, T # {}
  PROVE  \E x \in T : \A y \in T : ~(y < x)
  <1>1. PICK x \in T : \A y \in T : ~(<<y, x>> \in OpToRel(<, Nat))
    BY NatLessThanWellFounded, WFMin
  <1>2. \A y \in T : ~(y < x)
    <2>1. ASSUME NEW y \in T, y < x PROVE <<y, x>> \in OpToRel(<, Nat)
      BY <2>1 DEF OpToRel
    <2>2. QED
      BY <1>1, <2>1
  <1>3. QED
    BY <1>2

(* Induction, over a set. *)
LEMMA Induct ==
  ASSUME NEW S, 0 \in S, \A n \in Nat : n \in S => n + 1 \in S
  PROVE  Nat \subseteq S
  <1> SUFFICES ASSUME Nat \ S # {} PROVE FALSE
    OBVIOUS
  <1>1. PICK x \in Nat \ S : \A y \in Nat \ S : ~(y < x)
    BY LeastOf
  <1>2. x - 1 \in Nat /\ x - 1 < x /\ x = (x - 1) + 1
    BY <1>1
  <1>3. QED
    BY <1>1, <1>2
(* A table filled row by row, each row from the one before. *)
IsTable(T, base, step, n, f) ==
  /\ f \in [0..n -> T]
  /\ f[0] = base
  /\ \A i \in 1..n : f[i] = step[i][f[i - 1]]

LEMMA Recursion ==
  ASSUME NEW T, NEW base \in T, NEW step \in [Nat -> [T -> T]], NEW n \in Nat
  PROVE  \E f : IsTable(T, base, step, n, f)
  <1> DEFINE S == {m \in Nat : \E f : IsTable(T, base, step, m, f)}
  <1>1. 0 \in S
    <2>1. IsTable(T, base, step, 0, [i \in 0..0 |-> base])
      BY DEF IsTable
    <2>2. QED
      BY <2>1
  <1>2. ASSUME NEW m \in Nat, m \in S
        PROVE  m + 1 \in S
    <2>1. PICK f : IsTable(T, base, step, m, f)
      BY <1>2
    <2> DEFINE g == [i \in 0..(m + 1) |-> IF i = m + 1 THEN step[m + 1][f[m]] ELSE f[i]]
    <2>2. g \in [0..(m + 1) -> T] /\ g[0] = base
      BY <2>1 DEF IsTable
    <2>3. \A i \in 1..(m + 1) : g[i] = step[i][g[i - 1]]
      BY <2>1 DEF IsTable
    <2>4. IsTable(T, base, step, m + 1, g)
      <3> HIDE DEF g
      <3>1. QED
        BY <2>2, <2>3 DEF IsTable
    <2>5. QED
      BY <2>4
  <1>3. Nat \subseteq S
    <2> HIDE DEF S
    <2>1. QED
      BY <1>1, <1>2, Induct
  <1>4. QED
    BY <1>3

-----------------------------------------------------------------------------
(***************************************************************************)
(* Sequences.                                                              *)
(***************************************************************************)
LEMMA ToSetOfAppend ==
  ASSUME NEW P, NEW s \in Seq(P), NEW x
  PROVE  ToSet(Append(s, x)) = ToSet(s) \cup {x}
  <1>1. \A i \in 1..Len(s) : Append(s, x)[i] = s[i]
    OBVIOUS
  <1>2. Append(s, x)[Len(s) + 1] = x /\ Len(s) + 1 \in DOMAIN Append(s, x)
    OBVIOUS
  <1>3. DOMAIN s = 1..Len(s) /\ DOMAIN Append(s, x) = 1..(Len(s) + 1) /\ Len(s) \in Nat
    OBVIOUS
  <1>4. \A i \in 1..(Len(s) + 1) : i \in 1..Len(s) \/ i = Len(s) + 1
    BY <1>3
  <1>5. \A i \in 1..Len(s) : i \in 1..(Len(s) + 1)
    BY <1>3
  <1>6. QED
    BY <1>1, <1>2, <1>3, <1>4, <1>5, Zenon DEF ToSet

LEMMA ToSetOfConcat ==
  ASSUME NEW P, NEW s \in Seq(P), NEW t \in Seq(P)
  PROVE  ToSet(s \o t) = ToSet(s) \cup ToSet(t)
  <1>1. Len(s) \in Nat /\ Len(t) \in Nat /\ Len(s \o t) = Len(s) + Len(t) /\ s \o t \in Seq(P)
    OBVIOUS
  <1>2. \A i \in 1..Len(s) : (s \o t)[i] = s[i] /\ i \in DOMAIN (s \o t)
    BY <1>1
  <1>3. \A i \in 1..Len(t) : (s \o t)[Len(s) + i] = t[i] /\ Len(s) + i \in DOMAIN (s \o t)
    BY <1>1
  <1>4. ASSUME NEW i \in DOMAIN (s \o t)
        PROVE  \/ i \in 1..Len(s)
               \/ \E j \in 1..Len(t) : i = Len(s) + j
    <2>1. i \in 1..(Len(s) + Len(t))
      BY <1>1
    <2>2. CASE i > Len(s)
      <3>1. i - Len(s) \in 1..Len(t) /\ i = Len(s) + (i - Len(s))
        BY <1>1, <2>1, <2>2
      <3>2. QED
        BY <3>1
    <2>3. QED
      BY <1>1, <2>1, <2>2
  <1>5. DOMAIN s = 1..Len(s) /\ DOMAIN t = 1..Len(t)
    OBVIOUS
  <1>6. ASSUME NEW x \in ToSet(s \o t)
        PROVE  x \in ToSet(s) \cup ToSet(t)
    <2>1. PICK i \in DOMAIN (s \o t) : x = (s \o t)[i]
      BY DEF ToSet
    <2>2. CASE i \in 1..Len(s)
      BY <1>2, <1>5, <2>1, <2>2 DEF ToSet
    <2>3. CASE \E j \in 1..Len(t) : i = Len(s) + j
      BY <1>3, <1>5, <2>1, <2>3 DEF ToSet
    <2>4. QED
      BY <1>4, <2>2, <2>3
  <1>7. ToSet(s) \subseteq ToSet(s \o t)
    <2>1. SUFFICES ASSUME NEW i \in DOMAIN s PROVE s[i] \in ToSet(s \o t)
      BY DEF ToSet
    <2>2. (s \o t)[i] = s[i] /\ i \in DOMAIN (s \o t)
      BY <1>2, <1>5
    <2>3. QED
      BY <2>2 DEF ToSet
  <1>8. ToSet(t) \subseteq ToSet(s \o t)
    <2>1. SUFFICES ASSUME NEW i \in DOMAIN t PROVE t[i] \in ToSet(s \o t)
      BY DEF ToSet
    <2>2. (s \o t)[Len(s) + i] = t[i] /\ Len(s) + i \in DOMAIN (s \o t)
      BY <1>3, <1>5
    <2>3. QED
      BY <2>2 DEF ToSet
  <1>9. QED
    BY <1>6, <1>7, <1>8

LEMMA ToSetOfThree ==
  ASSUME NEW P, NEW s \in Seq(P), NEW t \in Seq(P), NEW u \in Seq(P)
  PROVE  /\ s \o t \o u \in Seq(P)
         /\ ToSet(s \o t \o u) = ToSet(s) \cup ToSet(t) \cup ToSet(u)
  <1> DEFINE front == s \o t
  <1>1. front \in Seq(P) /\ ToSet(front) = ToSet(s) \cup ToSet(t)
    BY ToSetOfConcat
  <1> HIDE DEF front
  <1>2. front \o u \in Seq(P) /\ ToSet(front \o u) = ToSet(front) \cup ToSet(u)
    BY <1>1, ToSetOfConcat
  <1>3. QED
    BY <1>1, <1>2 DEF front

LEMMA ToSetOfTail ==
  ASSUME NEW P, NEW s \in Seq(P), s # <<>>
  PROVE  /\ Head(s) \in P /\ Tail(s) \in Seq(P)
         /\ ToSet(s) = {Head(s)} \cup ToSet(Tail(s))
  <1>1. /\ Head(s) \in P /\ Tail(s) \in Seq(P) /\ Head(s) = s[1]
        /\ Len(s) \in Nat \ {0} /\ Len(Tail(s)) = Len(s) - 1
        /\ DOMAIN s = 1..Len(s) /\ DOMAIN Tail(s) = 1..(Len(s) - 1)
    OBVIOUS
  <1>2. \A i \in 1..(Len(s) - 1) : Tail(s)[i] = s[i + 1]
    OBVIOUS
  <1>3. ASSUME NEW i \in 1..Len(s)
        PROVE  s[i] \in {Head(s)} \cup ToSet(Tail(s))
    <2>1. CASE i = 1
      BY <1>1, <2>1
    <2>2. CASE i # 1
      <3>1. i - 1 \in 1..(Len(s) - 1) /\ (i - 1) + 1 = i
        BY <1>1, <2>2
      <3>2. Tail(s)[i - 1] = s[i]
        BY <1>2, <3>1
      <3>3. QED
        BY <1>1, <3>1, <3>2 DEF ToSet
    <2>3. QED
      BY <2>1, <2>2
  <1>4. ASSUME NEW i \in 1..(Len(s) - 1)
        PROVE  Tail(s)[i] \in ToSet(s)
    <2>1. i + 1 \in 1..Len(s)
      BY <1>1
    <2>2. QED
      BY <1>1, <1>2, <2>1 DEF ToSet
  <1>5. Head(s) \in ToSet(s)
    <2>1. 1 \in 1..Len(s)
      BY <1>1
    <2>2. QED
      BY <1>1, <2>1 DEF ToSet
  <1>6. ToSet(s) \subseteq {Head(s)} \cup ToSet(Tail(s))
    BY <1>1, <1>3 DEF ToSet
  <1>7. ToSet(Tail(s)) \subseteq ToSet(s)
    BY <1>1, <1>4 DEF ToSet
  <1>8. QED
    BY <1>1, <1>5, <1>6, <1>7

(* The table that Among is read from. *)
AmongRows(s, set, kept) ==
  /\ kept[0] = <<>>
  /\ \A i \in 1..Len(s) :
       kept[i] = IF s[i] \in set THEN Append(kept[i - 1], s[i]) ELSE kept[i - 1]

LEMMA AmongTable ==
  ASSUME NEW P, NEW s \in Seq(P), NEW set
  PROVE  \E kept \in [0..Len(s) -> Seq(P)] :
           AmongRows(s, set, kept) /\ Among(s, set) = kept[Len(s)]
  <1> DEFINE T == Seq(P)
             base == <<>>
             step == [i \in Nat |-> [v \in T |->
                IF i \in 1..Len(s) /\ s[i] \in set THEN Append(v, s[i]) ELSE v]]
             Row(kept, i) == IF i = 0 THEN <<>>
                           ELSE IF s[i] \in set THEN Append(kept[i - 1], s[i]) ELSE kept[i - 1]
             Table(kept) == kept = [i \in 0..Len(s) |-> Row(kept, i)]
  <1>0. Len(s) \in Nat
    OBVIOUS
  <1>1. base \in T /\ step \in [Nat -> [T -> T]]
    OBVIOUS
  <1>2. PICK f : IsTable(T, base, step, Len(s), f)
    <2> HIDE DEF step, T, base
    <2>1. QED
      BY <1>0, <1>1, Recursion
  <1>3. f \in [0..Len(s) -> Seq(P)] /\ f[0] = <<>>
    BY <1>2 DEF IsTable
  <1>4. ASSUME NEW i \in 1..Len(s)
        PROVE  f[i] = Row(f, i)
    <2>1. f[i - 1] \in Seq(P) /\ i \in Nat /\ i # 0
      BY <1>0, <1>3, SMTT(30)
    <2>2. step[i][f[i - 1]] = Row(f, i)
      BY <2>1
    <2>3. QED
      BY <1>2, <2>2 DEF IsTable
  <1>5. Table(f)
    <2>1. f = [i \in 0..Len(s) |-> f[i]]
      BY <1>3
    <2>2. \A i \in 0..Len(s) : i = 0 \/ i \in 1..Len(s)
      BY <1>0
    <2>3. f[0] = Row(f, 0)
      BY <1>3
    <2>4. \A i \in 0..Len(s) : f[i] = Row(f, i)
      <3> HIDE DEF Row
      <3>1. QED
        BY <1>4, <2>2, <2>3
    <2> HIDE DEF Row
    <2>5. QED
      BY <2>1, <2>4
  <1> DEFINE kept == CHOOSE g : Table(g)
  <1>6. Table(kept)
    <2> HIDE DEF Table
    <2>1. QED
      BY <1>5
  <1>7. Among(s, set) = kept[Len(s)]
    BY DEF Among
  <1> HIDE DEF kept
  <1>8. \A i \in 0..Len(s) : kept[i] = Row(kept, i)
    BY <1>6
  <1>9. AmongRows(s, set, kept)
    <2>1. kept[0] = <<>>
      BY <1>0, <1>8
    <2>2. ASSUME NEW i \in 1..Len(s)
          PROVE  kept[i] = Row(kept, i) /\ i # 0
      BY <1>0, <1>8
    <2>3. QED
      BY <2>1, <2>2 DEF AmongRows
  <1>10. kept \in [0..Len(s) -> Seq(P)]
    <2> DEFINE S == {n \in Nat : n <= Len(s) => kept[n] \in Seq(P)}
    <2>1. 0 \in S
      <3>1. kept[0] = <<>> /\ <<>> \in Seq(P)
        BY <1>9 DEF AmongRows
      <3> HIDE DEF kept
      <3>2. QED
        BY <3>1
    <2>2. ASSUME NEW n \in Nat, n \in S
          PROVE  n + 1 \in S
      <3>1. ASSUME n + 1 <= Len(s)
            PROVE  kept[n + 1] \in Seq(P)
        <4>1. n + 1 \in 1..Len(s) /\ kept[n] \in Seq(P) /\ s[n + 1] \in P
          BY <1>0, <2>2, <3>1
        <4>2. kept[n + 1] = IF s[n + 1] \in set THEN Append(kept[n], s[n + 1]) ELSE kept[n]
          BY <1>9, <4>1 DEF AmongRows
        <4>3. QED
          BY <4>1, <4>2
      <3>2. QED
        BY <3>1
    <2>3. Nat \subseteq S
      <3> HIDE DEF S
      <3>1. QED
        BY <2>1, <2>2, Induct
    <2>4. \A i \in 0..Len(s) : kept[i] \in Seq(P)
      BY <1>0, <2>3
    <2>5. kept = [i \in 0..Len(s) |-> kept[i]]
      <3> HIDE DEF Row
      <3>1. QED
        BY <1>6
    <2>6. QED
      BY <2>4, <2>5
  <1>11. QED
    BY <1>7, <1>9, <1>10

(* What is kept of a sequence are its members that are in the set. *)
LEMMA AmongIs ==
  ASSUME NEW P, NEW s \in Seq(P), NEW set
  PROVE  /\ Among(s, set) \in Seq(P)
         /\ ToSet(Among(s, set)) = ToSet(s) \cap set
  <1>0. Len(s) \in Nat /\ DOMAIN s = 1..Len(s)
    OBVIOUS
  <1>1. PICK kept \in [0..Len(s) -> Seq(P)] :
          AmongRows(s, set, kept) /\ Among(s, set) = kept[Len(s)]
    BY AmongTable
  <1> DEFINE First(n) == {s[i] : i \in 1..n} \cap set
             S == {n \in Nat : n <= Len(s) => ToSet(kept[n]) = First(n)}
  <1>2. 0 \in S
    <2>1. kept[0] = <<>>
      BY <1>1 DEF AmongRows
    <2>2. ToSet(<<>>) = {} /\ First(0) = {}
      BY DEF ToSet
    <2>3. QED
      BY <2>1, <2>2
  <1>3. ASSUME NEW n \in Nat, n \in S
        PROVE  n + 1 \in S
    <2> SUFFICES ASSUME n + 1 <= Len(s)
                 PROVE  ToSet(kept[n + 1]) = First(n + 1)
      OBVIOUS
    <2>0. n + 1 \in 1..Len(s) /\ n \in 0..Len(s) /\ n <= Len(s)
      BY <1>0
    <2>1. n + 1 \in 1..Len(s) /\ kept[n] \in Seq(P) /\ ToSet(kept[n]) = First(n)
      <3> HIDE DEF First
      <3>1. QED
        BY <1>3, <2>0
    <2>2. kept[n + 1] = IF s[n + 1] \in set THEN Append(kept[n], s[n + 1]) ELSE kept[n]
      BY <1>1, <2>1 DEF AmongRows
    <2>3. \A i : i \in 1..(n + 1) <=> i \in 1..n \/ i = n + 1
      OBVIOUS
    <2>4. First(n + 1) = First(n) \cup ({s[n + 1]} \cap set)
      BY <2>3, Zenon
    <2>5. ToSet(Append(kept[n], s[n + 1])) = ToSet(kept[n]) \cup {s[n + 1]}
      BY <2>1, ToSetOfAppend
    <2> HIDE DEF First
    <2>6. QED
      BY <2>1, <2>2, <2>4, <2>5
  <1>4. Len(s) \in S
    <2> HIDE DEF S
    <2>1. QED
      BY <1>0, <1>2, <1>3, Induct
  <1>5. First(Len(s)) = ToSet(s) \cap set
    BY <1>0 DEF ToSet
  <1>6. QED
    BY <1>0, <1>1, <1>4, <1>5
-----------------------------------------------------------------------------
(***************************************************************************)
(* Paths.                                                                  *)
(***************************************************************************)
(* A name leads to a directory that holds the next. *)
IsStep(name, next) ==
  Resolved(name) \in Dirs /\ next \in ToSet(Entries[Resolved(name)])

IsPath(p) ==
  /\ p \in Seq(Nodes) /\ p # <<>>
  /\ \A i \in 1..(Len(p) - 1) : IsStep(p[i], p[i + 1])

(* The entry a path leads to lies beyond, or is, the one q leads to. *)
Begins(q, p) == Len(q) <= Len(p) /\ \A i \in 1..Len(q) : q[i] = p[i]

(* What is removed has been emptied. *)
GoneClosed == \A d \in gone \cap Dirs : ToSet(Entries[d]) \subseteq gone

LEMMA ResolvedIs ==
  ASSUME NEW name \in Nodes
  PROVE  /\ Resolved(name) \in Files \cup Dirs \cup {Nowhere}
         /\ name \in Links <=> name \notin Files /\ name \notin Dirs
         /\ name \notin Links => Resolved(name) = name
  BY TreeAssumption DEF Resolved, Nodes

LEMMA StatIs ==
  ASSUME NEW side, NEW p
  PROVE  Stat(side, p) = Nowhere \/ Stat(side, p) = Resolved(Last(p))
  BY DEF Stat

LEMMA StatSame ==
  ASSUME gone' = gone
  PROVE  \A side, p : Stat(side, p)' = Stat(side, p)
  BY DEF Stat

LEMMA EntriesAre ==
  ASSUME NEW d \in Dirs
  PROVE  /\ Entries[d] \in Seq(Nodes)
         /\ ToSet(Entries[d]) \subseteq Nodes
  <1>1. Entries[d] \in Seq(Nodes)
    BY TreeAssumption
  <1>2. \A i \in DOMAIN Entries[d] : Entries[d][i] \in Nodes
    BY <1>1
  <1>3. QED
    BY <1>1, <1>2 DEF ToSet

LEMMA AppendIs ==
  ASSUME NEW P, NEW q \in Seq(P), NEW e \in P
  PROVE  /\ Append(q, e) \in Seq(P) /\ Append(q, e) # <<>>
         /\ Len(Append(q, e)) = Len(q) + 1
         /\ Last(Append(q, e)) = e
         /\ q # <<>> => Head(Append(q, e)) = Head(q)
         /\ \A i \in 1..Len(q) : Append(q, e)[i] = q[i]
  <1>1. /\ Append(q, e) \in Seq(P) /\ Append(q, e) # <<>>
        /\ Len(Append(q, e)) = Len(q) + 1 /\ Append(q, e)[Len(q) + 1] = e
        /\ \A i \in 1..Len(q) : Append(q, e)[i] = q[i]
    OBVIOUS
  <1>2. Last(Append(q, e)) = e
    BY <1>1 DEF Last
  <1>3. ASSUME q # <<>> PROVE Head(Append(q, e)) = Head(q)
    <2>1. Head(q) = q[1] /\ 1 \in 1..Len(q)
      BY <1>3
    <2>2. Head(Append(q, e)) = Append(q, e)[1]
      BY <1>1
    <2>3. QED
      BY <1>1, <2>1, <2>2
  <1>4. QED
    BY <1>1, <1>2, <1>3

LEMMA LastIs ==
  ASSUME NEW P, NEW q \in Seq(P), q # <<>>
  PROVE  Last(q) \in P /\ Last(q) = q[Len(q)] /\ Head(q) = q[1] /\ Len(q) \in Nat \ {0}
  BY DEF Last

LEMMA PathGrows ==
  ASSUME NEW p, IsPath(p), NEW e, IsStep(Last(p), e)
  PROVE  /\ IsPath(Append(p, e))
         /\ Last(Append(p, e)) = e
         /\ Head(Append(p, e)) = Head(p)
         /\ e \in Nodes
  <1>1. p \in Seq(Nodes) /\ p # <<>>
    BY DEF IsPath
  <1>2. e \in Nodes
    BY EntriesAre DEF IsStep
  <1> DEFINE q == Append(p, e)
  <1>3. /\ q \in Seq(Nodes) /\ q # <<>> /\ Len(q) = Len(p) + 1 /\ Last(q) = e
        /\ Head(q) = Head(p)
        /\ \A i \in 1..Len(p) : q[i] = p[i]
    BY <1>1, <1>2, AppendIs
  <1>4. Last(p) = p[Len(p)] /\ Len(p) \in Nat \ {0}
    BY <1>1, LastIs
  <1>5. q[Len(p) + 1] = e
    BY <1>1
  <1>6. ASSUME NEW i \in 1..(Len(q) - 1)
        PROVE  IsStep(q[i], q[i + 1])
    <2> HIDE DEF q
    <2>1. i \in 1..Len(p)
      BY <1>3, <1>4
    <2>2. CASE i = Len(p)
      BY <1>3, <1>4, <1>5, <2>1, <2>2
    <2>3. CASE i # Len(p)
      <3>1. i \in 1..(Len(p) - 1) /\ i + 1 \in 1..Len(p)
        BY <1>4, <2>1, <2>3
      <3>2. QED
        BY <1>3, <2>1, <3>1 DEF IsPath
    <2>4. QED
      BY <2>2, <2>3
  <1>7. QED
    <2> HIDE DEF q
    <2>1. IsPath(q)
      BY <1>3, <1>6 DEF IsPath
    <2>2. QED
      BY <1>2, <1>3, <2>1 DEF q

(* A path that is not at its end goes on with an entry. *)
LEMMA PathGoesOn ==
  ASSUME NEW p, IsPath(p), NEW q, IsPath(q), Begins(q, p), q # p
  PROVE  /\ Len(q) < Len(p)
         /\ IsStep(Last(q), p[Len(q) + 1])
         /\ Begins(Append(q, p[Len(q) + 1]), p)
  <1>1. /\ p \in Seq(Nodes) /\ q \in Seq(Nodes) /\ q # <<>>
        /\ Len(p) \in Nat /\ Len(q) \in Nat \ {0} /\ Len(q) <= Len(p)
        /\ \A i \in 1..Len(q) : q[i] = p[i]
    BY DEF IsPath, Begins
  <1>2. Len(q) # Len(p)
    <2>1. ASSUME Len(q) = Len(p) PROVE q = p
      BY <1>1, <2>1
    <2>2. QED
      BY <2>1
  <1>3. Len(q) < Len(p) /\ Len(q) \in 1..(Len(p) - 1)
    BY <1>1, <1>2
  <1>4. Last(q) = p[Len(q)]
    <2>1. Last(q) = q[Len(q)] /\ Len(q) \in 1..Len(q)
      BY <1>1, LastIs
    <2>2. QED
      BY <1>1, <2>1
  <1>5. IsStep(Last(q), p[Len(q) + 1])
    BY <1>3, <1>4 DEF IsPath
  <1> DEFINE e == p[Len(q) + 1]
  <1>6. Begins(Append(q, e), p)
    <2>1. e \in Nodes
      BY <1>1, <1>3
    <2>2. /\ Len(Append(q, e)) = Len(q) + 1
          /\ \A i \in 1..Len(q) : Append(q, e)[i] = q[i]
          /\ Append(q, e)[Len(q) + 1] = e
      BY <1>1, <2>1
    <2>3. ASSUME NEW i \in 1..(Len(q) + 1)
          PROVE  Append(q, e)[i] = p[i]
      <3>1. i \in 1..Len(q) \/ i = Len(q) + 1
        BY <1>1
      <3>2. QED
        BY <1>1, <2>2, <3>1
    <2>4. QED
      BY <1>1, <1>3, <2>2, <2>3 DEF Begins
  <1>7. QED
    BY <1>3, <1>5, <1>6

(* Who is there, is there by all of the way. *)
LEMMA WayIsThere ==
  ASSUME GoneClosed, NEW side, NEW p, IsPath(p), Stat(side, p) # Nowhere,
         NEW q, IsPath(q), Begins(q, p)
  PROVE  Stat(side, q) # Nowhere
  <1> SUFFICES ASSUME q # p PROVE Stat(side, q) # Nowhere
    OBVIOUS
  <1>1. /\ Len(q) < Len(p)
        /\ Resolved(Last(q)) \in Dirs
        /\ p[Len(q) + 1] \in ToSet(Entries[Resolved(Last(q))])
    BY PathGoesOn DEF IsStep
  <1>2. /\ p \in Seq(Nodes) /\ q \in Seq(Nodes) /\ q # <<>>
        /\ Len(p) \in Nat /\ Len(q) \in Nat \ {0}
        /\ DOMAIN p = 1..Len(p) /\ DOMAIN q = 1..Len(q)
        /\ \A i \in 1..Len(q) : q[i] = p[i]
    BY DEF IsPath, Begins
  <1>3. 1..Len(q) \subseteq 1..Len(p) /\ Len(q) + 1 \in 1..Len(p)
    BY <1>1, <1>2
  <1>4. Resolved(Last(q)) # Nowhere
    BY <1>1, TreeAssumption DEF Nodes
  <1> DEFINE links(path) == {i \in DOMAIN path : path[i] \in Links}
  <1>5. ~(Cardinality(links(q)) > MaxLinks)
    <2>1. links(q) \subseteq links(p)
      BY <1>2, <1>3
    <2>2. IsFiniteSet(links(p))
      <3>1. IsFiniteSet(1..Len(p))
        BY <1>2, FS_Interval
      <3>2. links(p) \subseteq 1..Len(p)
        BY <1>2
      <3> HIDE DEF links
      <3>3. QED
        BY <3>1, <3>2, FS_Subset
    <2>3. Cardinality(links(q)) <= Cardinality(links(p)) /\ Cardinality(links(p)) \in Nat
          /\ Cardinality(links(q)) \in Nat
      <3> HIDE DEF links
      <3>1. QED
        BY <2>1, <2>2, FS_Subset, FS_CardinalityType
    <2>4. ~(Cardinality(links(p)) > MaxLinks)
      BY DEF Stat
    <2>5. MaxLinks \in Nat
      BY TreeAssumption
    <2> HIDE DEF links
    <2>6. QED
      BY <2>3, <2>4, <2>5
  <1>6. side = "remote" => (ToSet(q) \cup {Resolved(Last(q))}) \cap gone = {}
    <2> SUFFICES ASSUME side = "remote"
                 PROVE  (ToSet(q) \cup {Resolved(Last(q))}) \cap gone = {}
      OBVIOUS
    <2>1. ToSet(p) \cap gone = {}
      BY DEF Stat
    <2>2. ToSet(q) \subseteq ToSet(p)
      BY <1>2, <1>3 DEF ToSet
    <2>3. p[Len(q) + 1] \in ToSet(p)
      BY <1>2, <1>3 DEF ToSet
    <2>4. Resolved(Last(q)) \notin gone
      BY <1>1, <2>1, <2>3 DEF GoneClosed
    <2>5. QED
      BY <2>1, <2>2, <2>4
  <1>7. QED
    BY <1>4, <1>5, <1>6 DEF Stat
-----------------------------------------------------------------------------
(***************************************************************************)
(* Listings, and what lies inside.                                         *)
(***************************************************************************)
(* A remote listing has links that lead nowhere, a local one has not. *)
IsListed(side, q, e) ==
  IF side = "remote" THEN e \notin gone ELSE Stat(side, Append(q, e)) # Nowhere

LEMMA ListingIs ==
  ASSUME NEW side \in {"local", "remote"}, NEW q \in Seq(Nodes),
         NEW d \in Dirs, Stat(side, q) = d
  PROVE  /\ Listing(side, q) \in Seq(Seq(Nodes))
         /\ \A r : r \in ToSet(Listing(side, q)) <=>
              \E e \in ToSet(Entries[d]) : r = Append(q, e) /\ IsListed(side, q, e)
  <1> DEFINE paths == [i \in DOMAIN Entries[d] |-> Append(q, Entries[d][i])]
             here  == {p \in ToSet(paths) : Last(p) \notin gone}
             dirs  == {p \in here : Stat(side, p) \in Dirs}
             found == {p \in ToSet(paths) : Stat("local", p) # Nowhere}
  <1>1. Entries[d] \in Seq(Nodes) /\ ToSet(Entries[d]) \subseteq Nodes
    BY EntriesAre
  <1>2. paths \in Seq(Seq(Nodes))
    <2>1. \A i \in 1..Len(Entries[d]) : Append(q, Entries[d][i]) \in Seq(Nodes)
      BY <1>1
    <2>2. PICK n \in Nat : DOMAIN Entries[d] = 1..n /\ n = Len(Entries[d])
      BY <1>1
    <2>3. paths \in [1..n -> Seq(Nodes)]
      BY <2>1, <2>2
    <2> HIDE DEF paths
    <2>4. QED
      BY <2>3
  <1>3. \A r : r \in ToSet(paths) <=> \E e \in ToSet(Entries[d]) : r = Append(q, e)
    BY DEF ToSet
  <1>4. \A e \in ToSet(Entries[d]) : Last(Append(q, e)) = e
    BY <1>1, AppendIs
  <1>5. Listing(side, q) = IF side = "local" THEN Among(paths, found)
                           ELSE Among(paths, dirs) \o Among(paths, here \ dirs)
    BY DEF Listing
  <1> HIDE DEF paths
  <1>6. CASE side = "local"
    <2>1. /\ Among(paths, found) \in Seq(Seq(Nodes))
          /\ ToSet(Among(paths, found)) = ToSet(paths) \cap found
      <3> HIDE DEF found
      <3>1. QED
        BY <1>2, AmongIs
    <2>2. ToSet(paths) \cap found = found
      OBVIOUS
    <2>3. \A r : r \in found <=>
            \E e \in ToSet(Entries[d]) : r = Append(q, e) /\ IsListed(side, q, e)
      <3>1. \A r : r \in found <=> r \in ToSet(paths) /\ Stat("local", r) # Nowhere
        OBVIOUS
      <3>2. \A e : IsListed(side, q, e) <=> Stat("local", Append(q, e)) # Nowhere
        BY <1>6 DEF IsListed
      <3> HIDE DEF found
      <3>3. ASSUME NEW r \in found
            PROVE  \E e \in ToSet(Entries[d]) : r = Append(q, e) /\ IsListed(side, q, e)
        <4>1. r \in ToSet(paths) /\ Stat("local", r) # Nowhere
          BY <3>1
        <4>2. PICK e \in ToSet(Entries[d]) : r = Append(q, e)
          BY <1>3, <4>1
        <4>3. QED
          BY <3>2, <4>1, <4>2
      <3>4. ASSUME NEW e \in ToSet(Entries[d]), IsListed(side, q, e)
            PROVE  Append(q, e) \in found
        <4>1. Append(q, e) \in ToSet(paths)
          BY <1>3
        <4>2. QED
          BY <3>1, <3>2, <3>4, <4>1
      <3>5. QED
        BY <3>3, <3>4
    <2> HIDE DEF found
    <2>4. QED
      BY <1>5, <1>6, <2>1, <2>2, <2>3
  <1>7. CASE side = "remote"
    <2> DEFINE rest == here \ dirs
    <2>1. /\ Among(paths, dirs) \in Seq(Seq(Nodes)) /\ Among(paths, rest) \in Seq(Seq(Nodes))
          /\ ToSet(Among(paths, dirs)) = ToSet(paths) \cap dirs
          /\ ToSet(Among(paths, rest)) = ToSet(paths) \cap rest
      <3> HIDE DEF dirs, rest
      <3>1. QED
        BY <1>2, AmongIs
    <2>2. (ToSet(paths) \cap dirs) \cup (ToSet(paths) \cap rest) = here
      OBVIOUS
    <2>3. \A r : r \in here <=>
            \E e \in ToSet(Entries[d]) : r = Append(q, e) /\ IsListed(side, q, e)
      <3>1. \A e : IsListed(side, q, e) <=> e \notin gone
        BY <1>7 DEF IsListed
      <3>2. \A r : r \in here <=> r \in ToSet(paths) /\ Last(r) \notin gone
        OBVIOUS
      <3> HIDE DEF here
      <3>3. ASSUME NEW r \in here
            PROVE  \E e \in ToSet(Entries[d]) : r = Append(q, e) /\ IsListed(side, q, e)
        <4>1. r \in ToSet(paths) /\ Last(r) \notin gone
          BY <3>2, <3>3
        <4>2. PICK e \in ToSet(Entries[d]) : r = Append(q, e)
          BY <1>3, <4>1
        <4>3. Last(r) = e
          BY <1>4, <4>2
        <4>4. QED
          BY <3>1, <4>1, <4>2, <4>3
      <3>4. ASSUME NEW e \in ToSet(Entries[d]), IsListed(side, q, e)
            PROVE  Append(q, e) \in here
        <4>1. Append(q, e) \in ToSet(paths)
          BY <1>3
        <4>2. Last(Append(q, e)) \notin gone
          BY <1>4, <3>1, <3>4
        <4>3. QED
          BY <3>2, <4>1, <4>2
      <3>5. QED
        BY <3>3, <3>4
    <2>4. Listing(side, q) = Among(paths, dirs) \o Among(paths, rest)
      BY <1>5, <1>7
    <2> HIDE DEF dirs, rest, here
    <2>5. ToSet(Listing(side, q)) = ToSet(Among(paths, dirs)) \cup ToSet(Among(paths, rest))
      BY <2>1, <2>4, ToSetOfConcat
    <2>6. ToSet(Listing(side, q)) = here
      BY <2>1, <2>2, <2>5
    <2>7. Listing(side, q) \in Seq(Seq(Nodes))
      BY <2>1, <2>4
    <2>8. QED
      BY <2>3, <2>6, <2>7
  <1>8. QED
    BY <1>6, <1>7

LEMMA InsideIs ==
  ASSUME NEW m \in Nodes
  PROVE  /\ m \in Inside[m]
         /\ Inside[m] \in Closed
         /\ \A S \in Closed : m \in S => Inside[m] \subseteq S
  <1>1. \A n : n \in Inside[m] <=> n \in Nodes /\ \A S \in Closed : m \in S => n \in S
    BY DEF Inside
  <1>2. Inside[m] \in Closed
    <2>1. Inside[m] \subseteq Nodes
      BY <1>1
    <2>2. ASSUME NEW d \in Inside[m] \cap Dirs, NEW e \in ToSet(Entries[d])
          PROVE  e \in Inside[m]
      <3>1. e \in Nodes
        BY EntriesAre
      <3>2. \A S \in Closed : m \in S => e \in S
        BY <1>1, <2>2 DEF Closed
      <3>3. QED
        BY <1>1, <3>1, <3>2
    <2>3. QED
      BY <2>1, <2>2 DEF Closed
  <1>3. QED
    BY <1>1, <1>2

LEMMA InsideParts ==
  ASSUME NEW m \in Nodes, NEW n \in Inside[m]
  PROVE  n = m \/ (m \in Dirs /\ \E e \in ToSet(Entries[m]) : n \in Inside[e])
  <1> DEFINE S == {x \in Nodes : x = m \/ (m \in Dirs /\ \E e \in ToSet(Entries[m]) : x \in Inside[e])}
  <1>1. ASSUME NEW d \in S \cap Dirs, NEW e \in ToSet(Entries[d])
        PROVE  e \in S
    <2>1. e \in Nodes /\ e \in Inside[e]
      BY EntriesAre, InsideIs
    <2>2. CASE d = m
      BY <1>1, <2>1, <2>2
    <2>3. CASE d # m
      <3>1. PICK f \in ToSet(Entries[m]) : d \in Inside[f]
        BY <1>1, <2>3
      <3>2. m \in Dirs
        BY <1>1, <2>3
      <3>3. f \in Nodes
        BY <3>2, EntriesAre
      <3>4. e \in Inside[f]
        BY <1>1, <3>1, <3>3, InsideIs DEF Closed
      <3>5. QED
        BY <2>1, <3>2, <3>4
    <2>4. QED
      BY <2>2, <2>3
  <1>2. S \in Closed
    BY <1>1 DEF Closed
  <1>3. Inside[m] \subseteq S
    BY <1>2, InsideIs
  <1>4. QED
    BY <1>3

LEMMA GoneIsClosed ==
  ASSUME gone \subseteq Nodes, GoneClosed, NEW m \in gone
  PROVE  Inside[m] \subseteq gone
  <1>1. gone \in Closed
    BY DEF GoneClosed, Closed
  <1>2. QED
    BY <1>1, InsideIs
-----------------------------------------------------------------------------
(***************************************************************************)
(* The requests and the job.                                               *)
(***************************************************************************)
Removals == JobSet({"remove"}, {"removing"}, Nodes, TaskSet)

Transfers == JobSet({"download", "upload"}, {"sizing", "copying"}, Nodes, Seq(Nodes))

LEMMA JobIs ==
  ASSUME JobTypeOK
  PROVE  /\ job.phase \in {"idle", "removing", "sizing", "copying"}
         /\ job.id \in Nat
         /\ job.phase = "idle" <=> job = NoJob
         /\ job.phase = "removing" => job \in Removals
         /\ job.phase \in {"sizing", "copying"} => job \in Transfers
         /\ job.phase # "copying" => job.file = NoFile
  <1>1. CASE job.phase = "idle"
    BY <1>1 DEF JobTypeOK, NoJob
  <1>2. CASE job.phase = "removing"
    BY <1>2 DEF JobTypeOK, NoJob, JobSet, Removals
  <1>3. CASE job.phase \notin {"idle", "removing"}
    BY <1>3 DEF JobTypeOK, NoJob, JobSet, Transfers
  <1>4. QED
    BY <1>1, <1>2, <1>3

Requests == RequestSet(Kinds, Nodes) \cup RequestSet({"shutdown"}, {Nowhere})

LEMMA HeadIs ==
  ASSUME QueueTypeOK, calls # <<>>
  PROVE  /\ Head(calls) \in Requests /\ Tail(calls) \in Seq(Requests)
         /\ Head(calls).id \in Nat /\ Head(calls).kind \in Kinds \cup {"shutdown"}
         /\ Head(calls).kind \in Kinds => Head(calls).top \in Nodes
         /\ ToSet(calls) = {Head(calls)} \cup ToSet(Tail(calls))
  <1>1. calls \in Seq(Requests)
    BY DEF QueueTypeOK, Requests
  <1>2. Head(calls) \in Requests /\ Tail(calls) \in Seq(Requests)
        /\ ToSet(calls) = {Head(calls)} \cup ToSet(Tail(calls))
    BY <1>1, ToSetOfTail
  <1>3. QED
    BY <1>2 DEF Requests, RequestSet, Kinds

LEMMA AnswerIs ==
  ASSUME NEW id \in Nat, NEW kind \in AnswerKinds
  PROVE  /\ Pipe!Answer(kind, id) \in Pipe!SignalSet
         /\ Pipe!Answer(kind, id).id = id /\ Pipe!Answer(kind, id).kind = kind
  BY DEF AnswerKinds, Pipe!Answer, Pipe!Signal, Pipe!SignalSet, Pipe!SignalKinds

LEMMA ProgressIs ==
  ASSUME NEW id \in Nat, NEW moved \in Nat, NEW total \in Nat,
         NEW kind \in {"transferStarted", "transferProgress"}
  PROVE  /\ Pipe!Signal(kind, id, moved, total) \in Pipe!SignalSet
         /\ Pipe!Signal(kind, id, moved, total).kind = kind
  BY DEF Pipe!Signal, Pipe!SignalSet, Pipe!SignalKinds

(* Every way out of a request. *)
LEMMA EndIs ==
  ASSUME QueueTypeOK, JobTypeOK, NEW answers \in Seq(Pipe!SignalSet), End(answers)
  PROVE  QueueTypeOK' /\ JobTypeOK'
  <1>1. JobTypeOK'
    BY DEF End, JobTypeOK, NoJob
  <1>2. signals' \in Seq(Pipe!SignalSet)
    BY DEF End, QueueTypeOK
  <1>3. QueueTypeOK'
    BY <1>2 DEF End, QueueTypeOK, guiVars
  <1>4. QED
    BY <1>1, <1>3

LEMMA FailIs ==
  ASSUME QueueTypeOK, JobTypeOK, Fail
  PROVE  QueueTypeOK' /\ JobTypeOK'
  <1>1. <<Pipe!Answer("operationFailed", job.id)>> \in Seq(Pipe!SignalSet)
    BY JobIs, AnswerIs DEF AnswerKinds
  <1>2. QED
    BY <1>1, EndIs DEF Fail

LEMMA BeganIs ==
  ASSUME NEW call, call.id \in Nat, call.top \in Nodes
  PROVE  /\ call.kind = "remove" =>
              \A todo \in Seq(TaskSet) : Began(call, "removing", todo) \in Removals
         /\ call.kind \in {"download", "upload"} =>
              Began(call, "sizing", <<>>) \in Transfers
         /\ \A phase, todo : /\ Began(call, phase, todo).phase = phase
                             /\ Began(call, phase, todo).id = call.id
                             /\ Began(call, phase, todo).top = call.top
                             /\ Began(call, phase, todo).kind = call.kind
                             /\ Began(call, phase, todo).todo = todo
                             /\ Began(call, phase, todo).file = NoFile
                             /\ Began(call, phase, todo).late = 0
  <1>1. NoFile \in [path : Seq(Nodes), point : {"none", "read", "check"}]
    BY DEF NoFile
  <1>2. ASSUME NEW todo \in Seq(TaskSet), call.kind = "remove"
        PROVE  Began(call, "removing", todo) \in Removals
    BY <1>1, <1>2 DEF Began, Removals, JobSet
  <1>3. ASSUME call.kind \in {"download", "upload"}
        PROVE  Began(call, "sizing", <<>>) \in Transfers
    BY <1>1, <1>3 DEF Began, Transfers, JobSet
  <1>4. QED
    BY <1>2, <1>3 DEF Began

LEMMA TakesIs ==
  ASSUME QueueTypeOK, NEW kinds, Takes(kinds), backend' = backend,
         UNCHANGED guiVars, cancelRequests' = cancelRequests, signals' = signals
  PROVE  QueueTypeOK'
  BY HeadIs DEF Takes, QueueTypeOK, guiVars, Requests
-----------------------------------------------------------------------------
(***************************************************************************)
(* Sums over sets.                                                         *)
(***************************************************************************)
Picked(s) == CHOOSE x \in s : TRUE

(* Taken apart element by element, a set gives the sum of its weights. *)
SumStep(w, g, s) == IF s = {} THEN 0 ELSE w[Picked(s)] + g[s \ {Picked(s)}]

Small(S, n) == {s \in SUBSET S : Cardinality(s) <= n}

IsSum(w, S, n, g) ==
  g \in [Small(S, n) -> Nat] /\ \A s \in Small(S, n) : g[s] = SumStep(w, g, s)

LEMMA NothingSmall ==
  ASSUME NEW S, IsFiniteSet(S), NEW s \in Small(S, 0)
  PROVE  s = {} /\ s \in SUBSET S
  <1>1. IsFiniteSet(s) /\ Cardinality(s) \in Nat /\ Cardinality(s) <= 0 /\ s \in SUBSET S
    BY FS_Subset, FS_CardinalityType DEF Small
  <1>2. QED
    BY <1>1, FS_EmptySet

LEMMA SmallWithout ==
  ASSUME NEW S, IsFiniteSet(S), NEW n \in Nat, NEW s \in Small(S, n + 1), NEW x \in s
  PROVE  s \ {x} \in Small(S, n)
  <1>1. IsFiniteSet(s) /\ Cardinality(s) \in Nat /\ Cardinality(s) <= n + 1 /\ s \subseteq S
    BY FS_Subset, FS_CardinalityType DEF Small
  <1>2. Cardinality(s \ {x}) = Cardinality(s) - 1
    BY <1>1, FS_RemoveElement
  <1>3. QED
    BY <1>1, <1>2 DEF Small

LEMMA PickedIs ==
  ASSUME NEW S, IsFiniteSet(S), NEW n \in Nat, NEW s \in Small(S, n + 1), s # {}
  PROVE  Picked(s) \in S /\ s \ {Picked(s)} \in Small(S, n)
  <1>1. Picked(s) \in s /\ s \subseteq S
    BY DEF Picked, Small
  <1>2. QED
    BY <1>1, SmallWithout

LEMMA SumGrows ==
  ASSUME NEW S, IsFiniteSet(S), NEW w \in [S -> Nat], NEW n \in Nat, NEW g, IsSum(w, S, n, g)
  PROVE  \E h : IsSum(w, S, n + 1, h)
  <1> DEFINE h == [s \in Small(S, n + 1) |-> SumStep(w, g, s)]
  <1>1. ASSUME NEW s \in Small(S, n + 1) PROVE SumStep(w, g, s) \in Nat
    BY PickedIs DEF SumStep, IsSum
  <1>2. h \in [Small(S, n + 1) -> Nat]
    BY <1>1
  <1>3. ASSUME NEW s \in Small(S, n) PROVE h[s] = g[s]
    <2>1. Cardinality(s) \in Nat
      BY FS_Subset, FS_CardinalityType DEF Small
    <2>2. s \in Small(S, n + 1)
      BY <2>1 DEF Small
    <2>3. g[s] = SumStep(w, g, s)
      BY DEF IsSum
    <2>4. QED
      BY <2>2, <2>3
  <1>4. ASSUME NEW s \in Small(S, n + 1) PROVE h[s] = SumStep(w, h, s)
    <2>1. h[s] = SumStep(w, g, s)
      OBVIOUS
    <2>2. s # {} => h[s \ {Picked(s)}] = g[s \ {Picked(s)}]
      BY <1>3, PickedIs
    <2> HIDE DEF h
    <2>3. QED
      BY <2>1, <2>2 DEF SumStep
  <1> HIDE DEF h
  <1>5. IsSum(w, S, n + 1, h)
    BY <1>2, <1>4 DEF IsSum
  <1>6. QED
    BY <1>5

LEMMA SumTable ==
  ASSUME NEW S, IsFiniteSet(S), NEW w \in [S -> Nat]
  PROVE  \E g \in [SUBSET S -> Nat] : \A s \in SUBSET S : g[s] = SumStep(w, g, s)
  <1> DEFINE T == {n \in Nat : \E g : IsSum(w, S, n, g)}
  <1>1. 0 \in T
    <2> DEFINE g == [s \in Small(S, 0) |-> 0]
    <2>1. ASSUME NEW s \in Small(S, 0) PROVE s = {}
      <3>1. IsFiniteSet(s) /\ Cardinality(s) \in Nat /\ Cardinality(s) <= 0
        BY FS_Subset, FS_CardinalityType DEF Small
      <3>2. Cardinality(s) = 0
        BY <3>1
      <3>3. QED
        BY <3>1, <3>2, FS_EmptySet
    <2>2. IsSum(w, S, 0, g)
      BY <2>1 DEF IsSum, SumStep
    <2>3. QED
      BY <2>2
  <1>2. ASSUME NEW n \in Nat, n \in T PROVE n + 1 \in T
    BY <1>2, SumGrows
  <1>3. Cardinality(S) \in T
    <2> HIDE DEF T
    <2>1. QED
      BY <1>1, <1>2, Induct, FS_CardinalityType
  <1>4. PICK g : IsSum(w, S, Cardinality(S), g)
    BY <1>3
  <1>5. Small(S, Cardinality(S)) = SUBSET S
    BY FS_Subset DEF Small
  <1>6. QED
    BY <1>4, <1>5 DEF IsSum

(* TotalOf is read from such a table. *)
IsTotals(w, S, sum) ==
  sum \in [SUBSET S -> Nat] /\ \A s \in SUBSET S : sum[s] = SumStep(w, sum, s)

LEMMA TotalTable ==
  ASSUME NEW S, IsFiniteSet(S), NEW w \in [S -> Nat]
  PROVE  \E sum : IsTotals(w, S, sum) /\ TotalOf(w) = sum[S]
  <1> DEFINE Row(g, s) == IF s = {} THEN 0
                          ELSE w[CHOOSE x \in s : TRUE] + g[s \ {CHOOSE x \in s : TRUE}]
             Table(g) == g = [s \in SUBSET S |-> Row(g, s)]
             sum == CHOOSE g : Table(g)
  <1>1. PICK g \in [SUBSET S -> Nat] : \A s \in SUBSET S : g[s] = SumStep(w, g, s)
    BY SumTable
  <1>2. \A f, s : SumStep(w, f, s) = Row(f, s)
    BY DEF SumStep, Picked
  <1>3. Table(g)
    <2>1. \A s \in SUBSET S : g[s] = Row(g, s)
      BY <1>1, <1>2
    <2>2. g = [s \in SUBSET S |-> g[s]]
      BY <1>1
    <2> HIDE DEF Row
    <2>3. QED
      BY <2>1, <2>2
  <1>4. Table(sum)
    <2> HIDE DEF Table
    <2>1. QED
      BY <1>3
  <1>5. TotalOf(w) = sum[S]
    <2>1. DOMAIN w = S
      OBVIOUS
    <2>2. QED
      BY <2>1 DEF TotalOf, MapThenSumSet, MapThenFoldSet
  <1>6. \A s \in SUBSET S : sum[s] = SumStep(w, sum, s)
    <2> HIDE DEF Row, sum
    <2>1. QED
      BY <1>2, <1>4
  <1>7. DOMAIN sum = SUBSET S /\ sum = [s \in DOMAIN sum |-> sum[s]]
    <2> HIDE DEF Row, sum
    <2>1. QED
      BY <1>4
  <1>8. \A s \in SUBSET S : sum[s] \in Nat
    <2> DEFINE T == {n \in Nat : \A s \in Small(S, n) : sum[s] \in Nat}
    <2> HIDE DEF sum
    <2>1. 0 \in T
      <3>1. ASSUME NEW s \in Small(S, 0) PROVE sum[s] \in Nat
        <4>1. s = {} /\ s \in SUBSET S
          BY NothingSmall
        <4>2. QED
          BY <1>6, <4>1 DEF SumStep
      <3>2. QED
        BY <3>1
    <2>2. ASSUME NEW n \in Nat, n \in T PROVE n + 1 \in T
      <3>1. ASSUME NEW s \in Small(S, n + 1) PROVE sum[s] \in Nat
        <4>1. s \in SUBSET S /\ (s # {} => Picked(s) \in S /\ s \ {Picked(s)} \in Small(S, n))
          BY PickedIs DEF Small
        <4>2. sum[s] = SumStep(w, sum, s)
          BY <1>6, <4>1
        <4>3. s # {} => w[Picked(s)] \in Nat /\ sum[s \ {Picked(s)}] \in Nat
          BY <2>2, <4>1
        <4>4. QED
          BY <4>2, <4>3 DEF SumStep
      <3>2. QED
        BY <3>1
    <2>3. Cardinality(S) \in T
      <3> HIDE DEF T
      <3>1. QED
        BY <2>1, <2>2, Induct, FS_CardinalityType
    <2>4. Small(S, Cardinality(S)) = SUBSET S
      BY FS_Subset DEF Small
    <2>5. QED
      BY <2>3, <2>4
  <1> HIDE DEF sum
  <1>9. sum \in [SUBSET S -> Nat]
    BY <1>7, <1>8
  <1>10. QED
    BY <1>5, <1>6, <1>9 DEF IsTotals

LEMMA TotalIs ==
  ASSUME NEW S, IsFiniteSet(S), NEW w \in [S -> Nat]
  PROVE  TotalOf(w) \in Nat /\ (S = {} => TotalOf(w) = 0)
  <1>1. PICK sum : IsTotals(w, S, sum) /\ TotalOf(w) = sum[S]
    BY TotalTable
  <1>2. QED
    BY <1>1 DEF IsTotals, SumStep

(* Any element may be taken first. *)
LEMMA SumWithout ==
  ASSUME NEW S, IsFiniteSet(S), NEW w \in [S -> Nat], NEW sum, IsTotals(w, S, sum),
         NEW r \in SUBSET S, NEW e \in r
  PROVE  sum[r] = w[e] + sum[r \ {e}]
  <1>0. /\ sum \in [SUBSET S -> Nat]
        /\ \A s \in SUBSET S : sum[s] = SumStep(w, sum, s)
    BY DEF IsTotals
  <1> DEFINE T == {n \in Nat : \A s \in Small(S, n) : \A x \in s : sum[s] = w[x] + sum[s \ {x}]}
  <1>1. 0 \in T
    BY NothingSmall
  <1>2. ASSUME NEW n \in Nat, n \in T PROVE n + 1 \in T
    <2>1. ASSUME NEW s \in Small(S, n + 1), NEW x \in s PROVE sum[s] = w[x] + sum[s \ {x}]
      <3>1. s \in SUBSET S /\ s # {}
        BY DEF Small
      <3>2. Picked(s) \in s /\ s \ {Picked(s)} \in Small(S, n)
        BY <3>1, PickedIs DEF Picked
      <3>3. sum[s] = w[Picked(s)] + sum[s \ {Picked(s)}]
        BY <1>0, <3>1 DEF SumStep
      <3>4. CASE x = Picked(s)
        BY <3>3, <3>4
      <3>5. CASE x # Picked(s)
        <4> DEFINE p    == Picked(s)
                   both == (s \ {p}) \ {x}
        <4>1. x \in s \ {p} /\ p \in s \ {x} /\ both = (s \ {x}) \ {p}
          BY <3>2, <3>5
        <4>2. sum[s \ {p}] = w[x] + sum[both]
          <5> HIDE DEF p
          <5>1. s \ {p} \in Small(S, n)
            BY <3>2 DEF p
          <5>2. QED
            BY <1>2, <4>1, <5>1
        <4>3. s \ {x} \in Small(S, n)
          BY <3>1, SmallWithout
        <4>4. sum[s \ {x}] = w[p] + sum[both]
          <5> HIDE DEF p
          <5>1. QED
            BY <1>2, <4>1, <4>3
        <4>5. w[x] \in Nat /\ w[p] \in Nat /\ sum[both] \in Nat
          BY <1>0, <3>1, <3>2
        <4> HIDE DEF p, both
        <4>6. sum[s] = w[p] + sum[s \ {p}]
          BY <3>3 DEF p
        <4>7. QED
          BY <4>2, <4>4, <4>5, <4>6
      <3>6. QED
        BY <3>4, <3>5
    <2>2. QED
      BY <2>1
  <1>3. Cardinality(S) \in T
    <2> HIDE DEF T
    <2>1. QED
      BY <1>1, <1>2, Induct, FS_CardinalityType
  <1>4. r \in Small(S, Cardinality(S))
    BY FS_Subset DEF Small
  <1>5. QED
    BY <1>3, <1>4

(* A part of a table is the table of the part. *)
LEMMA SumsAgree ==
  ASSUME NEW S, IsFiniteSet(S), NEW w \in [S -> Nat], NEW sum, IsTotals(w, S, sum),
         NEW R \in SUBSET S, NEW v \in [R -> Nat], \A x \in R : v[x] = w[x],
         NEW part, IsTotals(v, R, part)
  PROVE  part[R] = sum[R]
  <1>0. IsFiniteSet(R)
    BY FS_Subset
  <1> DEFINE T == {n \in Nat : \A s \in Small(R, n) : part[s] = sum[s]}
  <1>1. 0 \in T
    <2>1. part[{}] = 0 /\ sum[{}] = 0
      BY DEF IsTotals, SumStep
    <2>2. \A s \in Small(R, 0) : s = {}
      BY <1>0, NothingSmall
    <2>3. QED
      BY <2>1, <2>2
  <1>2. ASSUME NEW n \in Nat, n \in T PROVE n + 1 \in T
    <2>1. ASSUME NEW s \in Small(R, n + 1) PROVE part[s] = sum[s]
      <3>1. s \in SUBSET R /\ s \in SUBSET S
        BY DEF Small
      <3>2. part[s] = SumStep(v, part, s) /\ sum[s] = SumStep(w, sum, s)
        BY <3>1 DEF IsTotals
      <3>3. s # {} => Picked(s) \in R /\ s \ {Picked(s)} \in Small(R, n)
        BY <1>0, PickedIs
      <3>4. s # {} => v[Picked(s)] = w[Picked(s)] /\ part[s \ {Picked(s)}] = sum[s \ {Picked(s)}]
        BY <1>2, <3>3
      <3>5. QED
        BY <3>2, <3>4 DEF SumStep
    <2>2. QED
      BY <2>1
  <1>3. Cardinality(R) \in T
    <2> HIDE DEF T
    <2>1. QED
      BY <1>0, <1>1, <1>2, Induct, FS_CardinalityType
  <1>4. R \in Small(R, Cardinality(R))
    BY <1>0, FS_CardinalityType DEF Small
  <1>5. QED
    BY <1>3, <1>4

IsRest(w, S, e, v) ==
  /\ w \in [S -> Nat] /\ e \in S /\ v \in [S \ {e} -> Nat]
  /\ \A x \in S \ {e} : v[x] = w[x]

LEMMA TotalWithout ==
  ASSUME NEW S, IsFiniteSet(S), NEW w, NEW e, NEW v, IsRest(w, S, e, v)
  PROVE  TotalOf(w) = w[e] + TotalOf(v)
  <1> DEFINE R == S \ {e}
  <1>0. IsFiniteSet(R) /\ R \in SUBSET S
    BY FS_Subset
  <1>1. PICK sum : IsTotals(w, S, sum) /\ TotalOf(w) = sum[S]
    BY TotalTable DEF IsRest
  <1> HIDE DEF R
  <1>2. /\ w \in [S -> Nat] /\ e \in S
        /\ v \in [R -> Nat] /\ \A x \in R : v[x] = w[x]
    BY DEF R, IsRest
  <1>3. PICK part : IsTotals(v, R, part) /\ TotalOf(v) = part[R]
    BY <1>0, <1>2, TotalTable
  <1>4. part[R] = sum[R]
    BY <1>0, <1>1, <1>2, <1>3, SumsAgree
  <1>5. sum[S] = w[e] + sum[S \ {e}]
    BY <1>1, <1>2, SumWithout
  <1>6. QED
    BY <1>1, <1>3, <1>4, <1>5 DEF R

(***************************************************************************)
(* What fits, item by item, into other items makes no larger sum; it makes *)
(* the same one when nothing is wasted.                                    *)
(***************************************************************************)
OneToOne(f, S) == \A x, y \in S : f[x] = f[y] => x = y

FitsIn(w, S, v, T, into) ==
  /\ w \in [S -> Nat] /\ v \in [T -> Nat] /\ into \in [S -> T] /\ OneToOne(into, S)
  /\ \A x \in S : w[x] <= v[into[x]]

Fills(w, S, v, T, into) ==
  /\ \A x \in S : w[x] = v[into[x]]
  /\ \A y \in T : v[y] = 0 \/ \E x \in S : into[x] = y

LEMMA Compared ==
  ASSUME NEW U, IsFiniteSet(U), NEW base \in [U -> Nat],
         NEW X, IsFiniteSet(X), NEW load, NEW place, FitsIn(load, X, base, U, place)
  PROVE  /\ TotalOf(load) <= TotalOf(base)
         /\ Fills(load, X, base, U, place) => TotalOf(load) = TotalOf(base)
  <1> DEFINE Holds(w, S, v, T, into) ==
               /\ TotalOf(w) <= TotalOf(v)
               /\ Fills(w, S, v, T, into) => TotalOf(w) = TotalOf(v)
             I == {n \in Nat : \A T \in Small(U, n) : \A S \in SUBSET X : \A w, v, into :
                     FitsIn(w, S, v, T, into) => Holds(w, S, v, T, into)}
  <1>1. 0 \in I
    <2>1. ASSUME NEW T \in Small(U, 0), NEW S \in SUBSET X, NEW w, NEW v, NEW into,
                 FitsIn(w, S, v, T, into)
          PROVE  Holds(w, S, v, T, into)
      <3>1. T = {} /\ IsFiniteSet(T)
        BY NothingSmall, FS_EmptySet
      <3>2. S = {} /\ IsFiniteSet(S)
        BY <2>1, <3>1, FS_EmptySet DEF FitsIn
      <3>3. TotalOf(w) = 0 /\ TotalOf(v) = 0
        BY <2>1, <3>1, <3>2, TotalIs DEF FitsIn
      <3>4. QED
        BY <3>3
    <2> HIDE DEF Holds
    <2>2. QED
      BY <2>1
  <1>2. ASSUME NEW n \in Nat, n \in I PROVE n + 1 \in I
    <2>1. ASSUME NEW T \in Small(U, n + 1), NEW S \in SUBSET X, NEW w, NEW v, NEW into,
                 FitsIn(w, S, v, T, into), T # {}
          PROVE  Holds(w, S, v, T, into)
      <3>0. PICK y \in T : TRUE
        BY <2>1
      <3>9. w \in [S -> Nat] /\ v \in [T -> Nat]
        BY <2>1 DEF FitsIn
      <3> DEFINE T1 == T \ {y}
                 v1 == [z \in T1 |-> v[z]]
      <3>1. T1 \in Small(U, n) /\ IsFiniteSet(T) /\ IsFiniteSet(S)
        BY SmallWithout, FS_Subset DEF Small
      <3>2. v1 \in [T1 -> Nat] /\ v[y] \in Nat /\ \A z \in T1 : v1[z] = v[z]
        BY <2>1 DEF FitsIn
      <3>3. TotalOf(v) = v[y] + TotalOf(v1)
        <4>1. IsRest(v, T, y, v1)
          BY <3>2, <3>9 DEF IsRest
        <4> HIDE DEF v1, T1
        <4>2. QED
          BY <3>1, <4>1, TotalWithout
      <3>4. TotalOf(v1) \in Nat
        <4>1. IsFiniteSet(T1)
          BY <3>1, FS_Subset
        <4> HIDE DEF v1, T1
        <4>2. QED
          BY <3>2, <4>1, TotalIs
      <3>5. CASE \A x \in S : into[x] # y
        <4>1. FitsIn(w, S, v1, T1, into)
          BY <2>1, <3>2, <3>5 DEF FitsIn
        <4>2. /\ TotalOf(w) <= TotalOf(v1)
              /\ Fills(w, S, v1, T1, into) => TotalOf(w) = TotalOf(v1)
          <5> HIDE DEF T1, v1
          <5>1. QED
            BY <1>2, <3>1, <4>1
        <4>3. TotalOf(w) \in Nat
          BY <2>1, <3>1, TotalIs DEF FitsIn
        <4>4. ASSUME Fills(w, S, v, T, into)
              PROVE  v[y] = 0 /\ Fills(w, S, v1, T1, into)
          <5>1. v[y] = 0
            BY <3>5, <4>4 DEF Fills
          <5>2. \A x \in S : into[x] \in T1
            BY <4>1 DEF FitsIn
          <5>3. QED
            BY <3>2, <4>4, <5>1, <5>2 DEF Fills
        <4> HIDE DEF T1, v1
        <4>5. QED
          BY <3>2, <3>3, <3>4, <4>2, <4>3, <4>4
      <3>6. CASE \E x \in S : into[x] = y
        <4>0. PICK x \in S : into[x] = y
          BY <3>6
        <4> DEFINE S1    == S \ {x}
                   w1    == [z \in S1 |-> w[z]]
                   into1 == [z \in S1 |-> into[z]]
        <4>1. w1 \in [S1 -> Nat] /\ w[x] \in Nat /\ \A z \in S1 : w1[z] = w[z]
          BY <2>1 DEF FitsIn
        <4>2. TotalOf(w) = w[x] + TotalOf(w1)
          <5>1. IsRest(w, S, x, w1)
            BY <3>9, <4>1 DEF IsRest
          <5> HIDE DEF w1
          <5>2. QED
            BY <3>1, <5>1, TotalWithout
        <4>3. TotalOf(w1) \in Nat
          <5>1. IsFiniteSet(S1)
            BY <3>1, FS_Subset
          <5> HIDE DEF w1, S1
          <5>2. QED
            BY <4>1, <5>1, TotalIs
        <4>4. \A z \in S1 : into[z] \in T1 /\ into1[z] = into[z]
          BY <2>1, <4>0 DEF FitsIn, OneToOne
        <4>5. FitsIn(w1, S1, v1, T1, into1)
          <5>1. into1 \in [S1 -> T1]
            BY <4>4
          <5>2. OneToOne(into1, S1)
            BY <2>1, <4>4 DEF FitsIn, OneToOne
          <5>3. \A z \in S1 : w1[z] <= v1[into1[z]]
            BY <2>1, <3>2, <4>1, <4>4 DEF FitsIn
          <5> HIDE DEF w1, v1, S1, T1, into1
          <5>4. QED
            BY <3>2, <4>1, <5>1, <5>2, <5>3 DEF FitsIn
        <4>6. /\ TotalOf(w1) <= TotalOf(v1)
              /\ Fills(w1, S1, v1, T1, into1) => TotalOf(w1) = TotalOf(v1)
          <5>1. S1 \in SUBSET X
            OBVIOUS
          <5> HIDE DEF T1, v1, S1, w1, into1
          <5>2. QED
            BY <1>2, <3>1, <4>5, <5>1
        <4>7. w[x] <= v[y]
          BY <2>1, <4>0 DEF FitsIn
        <4>8. ASSUME Fills(w, S, v, T, into)
              PROVE  w[x] = v[y] /\ Fills(w1, S1, v1, T1, into1)
          <5>1. w[x] = v[y]
            BY <4>0, <4>8 DEF Fills
          <5>2. \A z \in S1 : w1[z] = v1[into1[z]]
            BY <3>2, <4>1, <4>4, <4>8 DEF Fills
          <5>3. ASSUME NEW t \in T1 PROVE v1[t] = 0 \/ \E z \in S1 : into1[z] = t
            <6>1. v[t] = 0 \/ \E z \in S : into[z] = t
              BY <4>8 DEF Fills
            <6>2. ASSUME NEW z \in S, into[z] = t PROVE z \in S1 /\ into1[z] = t
              BY <4>0, <4>4, <6>2
            <6>3. QED
              BY <3>2, <6>1, <6>2
          <5> HIDE DEF w1, v1, S1, T1, into1
          <5>4. QED
            BY <5>1, <5>2, <5>3 DEF Fills
        <4> HIDE DEF T1, v1, S1, w1, into1
        <4>9. QED
          BY <3>2, <3>3, <3>4, <4>1, <4>2, <4>3, <4>6, <4>7, <4>8
      <3>7. QED
        BY <3>5, <3>6
    <2>2. ASSUME NEW T \in Small(U, n + 1), NEW S \in SUBSET X, NEW w, NEW v, NEW into,
                 FitsIn(w, S, v, T, into), T = {}
          PROVE  Holds(w, S, v, T, into)
      <3>1. T \in Small(U, n)
        BY <2>2, FS_EmptySet DEF Small
      <3> HIDE DEF Holds
      <3>2. QED
        BY <1>2, <2>2, <3>1
    <2> HIDE DEF Holds
    <2>3. QED
      BY <2>1, <2>2
  <1>3. Cardinality(U) \in I
    <2> HIDE DEF I
    <2>1. QED
      BY <1>1, <1>2, Induct, FS_CardinalityType
  <1>4. U \in Small(U, Cardinality(U)) /\ X \in SUBSET X
    BY FS_CardinalityType DEF Small
  <1>5. Holds(load, X, base, U, place)
    <2> HIDE DEF Holds
    <2>1. QED
      BY <1>3, <1>4
  <1>6. QED
    BY <1>5

LEMMA WeightIs ==
  ASSUME NEW side, NEW name \in Nodes
  PROVE  Weight(side, name) \in Nat
  <1> DEFINE node == Stat(side, <<name>>)
  <1>1. Last(<<name>>) = name
    BY DEF Last
  <1>2. node \in Files \cup Dirs \cup {Nowhere}
    BY <1>1, StatIs, ResolvedIs
  <1>3. /\ name \in Nodes => Size[name] \in Nat
        /\ node \in Files \cup Dirs => Size[node] \in Nat
    BY TreeAssumption DEF Nodes
  <1> HIDE DEF node
  <1>4. QED
    BY <1>2, <1>3 DEF Weight, node

LEMMA TreeSizeIs ==
  ASSUME NEW side, NEW top \in Nodes, Stat(side, <<top>>) # Nowhere
  PROVE  TreeSize(side, top) \in Nat
  <1> DEFINE all    == Inside[Stat(side, <<top>>)] \ Dirs
             met    == IF side = "remote" THEN all \ gone ELSE all
             weight == [n \in met |-> Weight(side, n)]
  <1>1. Last(<<top>>) = top
    BY DEF Last
  <1>2. Stat(side, <<top>>) \in Nodes
    BY <1>1, StatIs, ResolvedIs DEF Nodes
  <1>3. met \subseteq Nodes
    BY <1>2, InsideIs DEF Closed
  <1>4. IsFiniteSet(met)
    BY <1>3, TreeAssumption, FS_Subset
  <1>5. weight \in [met -> Nat]
    BY <1>3, WeightIs
  <1>6. TotalOf(weight) \in Nat
    <2> HIDE DEF weight, met
    <2>1. QED
      BY <1>4, <1>5, TotalIs
  <1>7. QED
    BY <1>6 DEF TreeSize
-----------------------------------------------------------------------------
(***************************************************************************)
(* Every step keeps the types of the requests and of the job.              *)
(***************************************************************************)
LEMMA AtFile ==
  ASSUME JobTypeOK, AtRead \/ AtCheck
  PROVE  job.phase = "copying" /\ job \in Transfers /\ job.file # NoFile
  BY JobIs DEF AtRead, AtCheck, NoFile

LEMMA TransferTyped ==
  ASSUME job' \in Transfers, job'.phase = "copying"
  PROVE  JobTypeOK'
  BY DEF JobTypeOK, Transfers

LEMMA RemovalTyped ==
  ASSUME job' \in Removals, job'.file = NoFile
  PROVE  JobTypeOK'
  BY DEF JobTypeOK, Removals, JobSet

LEMMA GuiTyped ==
  ASSUME QueueTypeOK, JobTypeOK, GuiStep
  PROVE  QueueTypeOK' /\ job' = job /\ UNCHANGED treeVars
  <1>1. CASE Post
    <2>1. PICK wish \in Wishes :
            /\ calls' = Append(calls, [kind |-> wish[1], id |-> nextRequestId, top |-> wish[2]])
            /\ awaited' = awaited \cup {[kind |-> wish[1], id |-> nextRequestId, top |-> wish[2]]}
      BY <1>1 DEF Post
    <2>2. [kind |-> wish[1], id |-> nextRequestId, top |-> wish[2]] \in RequestSet(Kinds, Nodes)
      BY TreeAssumption DEF QueueTypeOK, RequestSet
    <2>3. calls' \in Seq(Requests) /\ awaited' \subseteq RequestSet(Kinds, Nodes)
      BY <2>1, <2>2 DEF QueueTypeOK, Requests
    <2>4. QED
      BY <1>1, <2>3 DEF Post, QueueTypeOK, Requests
  <1>2. CASE RequestCancel
    <2>1. cancelRequests' \subseteq Nat
      BY <1>2 DEF RequestCancel, QueueTypeOK, RequestSet
    <2>2. QED
      BY <1>2, <2>1 DEF RequestCancel, QueueTypeOK, guiVars
  <1>3. CASE Deliver
    <2>1. signals' \in Seq(Pipe!SignalSet) /\ awaited' \subseteq RequestSet(Kinds, Nodes)
      BY <1>3 DEF Deliver, QueueTypeOK
    <2>2. QED
      BY <1>3, <2>1 DEF Deliver, QueueTypeOK
  <1>4. CASE BeginStop
    <2>1. [kind |-> "shutdown", id |-> nextRequestId, top |-> Nowhere]
            \in RequestSet({"shutdown"}, {Nowhere})
      BY DEF QueueTypeOK, RequestSet
    <2>2. calls' \in Seq(Requests)
      BY <1>4, <2>1 DEF BeginStop, QueueTypeOK, Requests
    <2>3. QED
      BY <1>4, <2>2 DEF BeginStop, QueueTypeOK, Requests
  <1>5. QED
    BY <1>1, <1>2, <1>3, <1>4 DEF GuiStep

LEMMA RemovalStepsTyped ==
  ASSUME QueueTypeOK, JobTypeOK,
         \/ TakeRemoval \/ RefuseRemoval \/ EnterRemoved \/ RemoveOne
         \/ RemovalFails \/ RemovalDone
  PROVE  QueueTypeOK' /\ JobTypeOK'
  <1>1. CASE TakeRemoval
    <2> DEFINE call == Head(calls)
               task == Task(IF Stat("remote", <<call.top>>) \in Dirs THEN "enter" ELSE "unlink",
                            <<call.top>>)
    <2>1. call.id \in Nat /\ call.top \in Nodes /\ call.kind = "remove"
      BY <1>1, HeadIs DEF TakeRemoval, Takes, Kinds
    <2>2. task \in TaskSet
      BY <2>1 DEF Task, TaskSet
    <2>3. job' = Began(call, "removing", <<task>>)
      BY <1>1 DEF TakeRemoval
    <2> HIDE DEF task, call
    <2>4. job' \in Removals /\ job'.file = NoFile
      <3>1. <<task>> \in Seq(TaskSet)
        BY <2>2
      <3>2. Began(call, "removing", <<task>>) \in Removals
        BY <2>1, <3>1, BeganIs
      <3>3. Began(call, "removing", <<task>>).file = NoFile
        BY DEF Began
      <3>4. QED
        BY <2>3, <3>2, <3>3
    <2>5. QueueTypeOK'
      BY <1>1, TakesIs DEF TakeRemoval
    <2>6. QED
      BY <2>4, <2>5, RemovalTyped
  <1>2. CASE RefuseRemoval
    <2>1. calls' \in Seq(Requests) /\ Pipe!Answer("operationFailed", Head(calls).id) \in Pipe!SignalSet
      BY <1>2, HeadIs, AnswerIs DEF RefuseRemoval, Takes, AnswerKinds
    <2>2. QueueTypeOK'
      BY <1>2, <2>1 DEF RefuseRemoval, QueueTypeOK, guiVars, Requests, Takes
    <2>3. QED
      BY <1>2, <2>2 DEF RefuseRemoval, JobTypeOK
  <1>3. CASE EnterRemoved
    <2> DEFINE path    == Head(job.todo).path
               entries == Listing("remote", path)
               tasks   == [i \in DOMAIN entries |->
                             Task(IF Last(entries[i]) \in Dirs THEN "enter" ELSE "unlink",
                                  entries[i])]
    <2>1. job.phase = "removing" /\ job.todo # <<>> /\ job \in Removals /\ job.file = NoFile
      BY <1>3, JobIs DEF EnterRemoved, Removing
    <2>2. job.todo \in Seq(TaskSet) /\ Head(job.todo) \in TaskSet /\ Tail(job.todo) \in Seq(TaskSet)
      BY <2>1, ToSetOfTail DEF Removals, JobSet
    <2>3. path \in Seq(Nodes) /\ path # <<>>
      BY <2>2 DEF TaskSet
    <2>4. Stat("remote", path) \in Dirs
      BY <1>3 DEF EnterRemoved
    <2>5. /\ entries \in Seq(Seq(Nodes))
          /\ \A r : r \in ToSet(entries) => \E e \in ToSet(Entries[Stat("remote", path)]) : r = Append(path, e)
      <3> HIDE DEF path
      <3>1. QED
        BY <2>3, <2>4, ListingIs
    <2>6. tasks \in Seq(TaskSet)
      <3>1. ASSUME NEW i \in DOMAIN entries
            PROVE  tasks[i] \in TaskSet
        <4>1. entries[i] \in Seq(Nodes) /\ entries[i] \in ToSet(entries)
          <5> HIDE DEF entries
          <5>1. QED
            BY <2>5 DEF ToSet
        <4>2. entries[i] # <<>>
          <5> HIDE DEF entries, path
          <5>1. QED
            BY <2>3, <2>4, <2>5, <4>1, EntriesAre, AppendIs
        <4> HIDE DEF entries
        <4>3. QED
          BY <4>1, <4>2 DEF Task, TaskSet
      <3>2. PICK n \in Nat : DOMAIN entries = 1..n
        <4> HIDE DEF entries
        <4>1. QED
          BY <2>5
      <3>3. DOMAIN tasks = DOMAIN entries /\ tasks = [i \in DOMAIN entries |-> tasks[i]]
        OBVIOUS
      <3> HIDE DEF entries, tasks
      <3>4. tasks \in [1..n -> TaskSet]
        BY <3>1, <3>2, <3>3
      <3>5. QED
        BY <3>4
    <2>7. Task("rmdir", path) \in TaskSet
      BY <2>3 DEF Task, TaskSet
    <2>8. job' = [job EXCEPT !.todo = tasks \o <<Task("rmdir", path)>> \o Tail(@)]
      BY <1>3 DEF EnterRemoved
    <2> HIDE DEF tasks, path
    <2>9. tasks \o <<Task("rmdir", path)>> \o Tail(job.todo) \in Seq(TaskSet)
      BY <2>2, <2>6, <2>7
    <2>10. job' \in Removals /\ job'.file = NoFile
      BY <2>1, <2>8, <2>9 DEF Removals, JobSet
    <2>11. QueueTypeOK'
      BY <1>3 DEF EnterRemoved, QueueTypeOK, guiVars
    <2>12. QED
      BY <2>10, <2>11, RemovalTyped
  <1>4. CASE RemoveOne
    <2>1. job.phase = "removing" /\ job.todo # <<>> /\ job \in Removals /\ job.file = NoFile
      BY <1>4, JobIs DEF RemoveOne, Removing
    <2>2. Tail(job.todo) \in Seq(TaskSet)
      BY <2>1, ToSetOfTail DEF Removals, JobSet
    <2>3. job' = [job EXCEPT !.todo = Tail(@)]
      BY <1>4 DEF RemoveOne
    <2>4. job' \in Removals /\ job'.file = NoFile
      BY <2>1, <2>2, <2>3 DEF Removals, JobSet
    <2>5. QueueTypeOK'
      BY <1>4 DEF RemoveOne, QueueTypeOK, guiVars
    <2>6. QED
      BY <2>4, <2>5, RemovalTyped
  <1>5. CASE RemovalFails
    BY <1>5, FailIs DEF RemovalFails
  <1>6. CASE RemovalDone
    <2>1. <<Pipe!Answer("operationFinished", job.id)>> \in Seq(Pipe!SignalSet)
      BY JobIs, AnswerIs DEF AnswerKinds
    <2>2. QED
      BY <1>6, <2>1, EndIs DEF RemovalDone
  <1>7. QED
    BY <1>1, <1>2, <1>3, <1>4, <1>5, <1>6

LEMMA AtEntryIs ==
  ASSUME JobTypeOK, AtEntry
  PROVE  /\ job \in Transfers /\ job.phase = "copying" /\ job.file = NoFile
         /\ job.todo \in Seq(Seq(Nodes)) /\ job.todo # <<>>
         /\ Head(job.todo) \in Seq(Nodes) /\ Tail(job.todo) \in Seq(Seq(Nodes))
         /\ ToSet(job.todo) = {Head(job.todo)} \cup ToSet(Tail(job.todo))
  <1>1. job \in Transfers /\ job.phase = "copying" /\ job.file = NoFile /\ job.todo # <<>>
    BY JobIs DEF AtEntry
  <1>2. job.todo \in Seq(Seq(Nodes))
    BY <1>1 DEF Transfers, JobSet
  <1>3. QED
    BY <1>1, <1>2, ToSetOfTail

LEMMA SideIs ==
  ASSUME NEW kind
  PROVE  Side(kind) \in {"local", "remote"}
  BY DEF Side

LEMMA CopyingStepsTyped ==
  ASSUME QueueTypeOK, JobTypeOK,
         EnterDirectory \/ OpenFile \/ CheckFile \/ EndFile \/ EndFileEarly
  PROVE  QueueTypeOK' /\ JobTypeOK'
  <1>1. CASE EnterDirectory
    <2> DEFINE path == Head(job.todo)
    <2>1. AtEntry /\ Source(path) \in Dirs
          /\ job' = [job EXCEPT !.todo = Listing(Side(job.kind), path) \o Tail(@)]
      BY <1>1 DEF EnterDirectory
    <2>2. job \in Transfers /\ job.phase = "copying"
          /\ path \in Seq(Nodes) /\ Tail(job.todo) \in Seq(Seq(Nodes))
      BY <2>1, AtEntryIs
    <2>3. Listing(Side(job.kind), path) \in Seq(Seq(Nodes))
      <3> HIDE DEF path
      <3>1. QED
        BY <2>1, <2>2, SideIs, ListingIs DEF Source
    <2> HIDE DEF path
    <2>4. Listing(Side(job.kind), path) \o Tail(job.todo) \in Seq(Seq(Nodes))
      BY <2>2, <2>3
    <2>5. job' \in Transfers /\ job'.phase = "copying"
      BY <2>1, <2>2, <2>4 DEF Transfers, JobSet
    <2>6. QueueTypeOK'
      BY <1>1 DEF EnterDirectory, QueueTypeOK, guiVars
    <2>7. QED
      BY <2>5, <2>6, TransferTyped
  <1>2. CASE OpenFile
    <2> DEFINE path  == Head(job.todo)
               point == IF backend = "Sftp" THEN "check" ELSE "read"
               file  == [path |-> path, point |-> point]
    <2>1. AtEntry /\ job' = [job EXCEPT !.todo = Tail(@), !.opened = @ \cup {path}, !.file = file]
      BY <1>2 DEF OpenFile
    <2>2. job \in Transfers /\ job.phase = "copying"
          /\ path \in Seq(Nodes) /\ Tail(job.todo) \in Seq(Seq(Nodes))
      BY <2>1, AtEntryIs
    <2>3. file \in [path : Seq(Nodes), point : {"none", "read", "check"}]
      BY <2>2
    <2> HIDE DEF file
    <2>4. job' \in Transfers /\ job'.phase = "copying"
      BY <2>1, <2>2, <2>3 DEF Transfers, JobSet
    <2>5. QueueTypeOK'
      BY <1>2 DEF OpenFile, QueueTypeOK, guiVars
    <2>6. QED
      BY <2>4, <2>5, TransferTyped
  <1>3. CASE CheckFile
    <2>1. job \in Transfers /\ job.phase = "copying" /\ job' = [job EXCEPT !.file.point = "read"]
      BY <1>3, AtFile DEF CheckFile
    <2>2. job' \in Transfers /\ job'.phase = "copying"
      BY <2>1 DEF Transfers, JobSet
    <2>3. QueueTypeOK'
      BY <1>3 DEF CheckFile, QueueTypeOK, guiVars
    <2>4. QED
      BY <2>2, <2>3, TransferTyped
  <1>4. CASE EndFile \/ EndFileEarly
    <2>1. job \in Transfers /\ job.phase = "copying" /\ job' = [job EXCEPT !.file = NoFile]
      BY <1>4, AtFile DEF EndFile, EndFileEarly
    <2>2. NoFile \in [path : Seq(Nodes), point : {"none", "read", "check"}]
      BY DEF NoFile
    <2>3. job' \in Transfers /\ job'.phase = "copying"
      BY <2>1, <2>2 DEF Transfers, JobSet
    <2>4. QueueTypeOK'
      BY <1>4 DEF EndFile, EndFileEarly, QueueTypeOK, guiVars
    <2>5. QED
      BY <2>3, <2>4, TransferTyped
  <1>5. QED
    BY <1>1, <1>2, <1>3, <1>4

LEMMA ReadChunkTyped ==
  ASSUME QueueTypeOK, JobTypeOK, ReadChunk
  PROVE  QueueTypeOK' /\ JobTypeOK'
  <1> DEFINE moved == job.moved + 1
  <1>1. PICK published \in BOOLEAN :
          /\ job' = [job EXCEPT !.moved = moved, !.file.point = "check",
                                !.ticked = @ \/ published,
                                !.late = IF Cancelled THEN @ + 1 ELSE @]
          /\ signals' = IF published
                        THEN Append(signals, Pipe!Signal("transferProgress", job.id,
                                                         moved, job.total))
                        ELSE signals
    BY DEF ReadChunk
  <1>2. job \in Transfers /\ job.phase = "copying"
    BY AtFile DEF ReadChunk
  <1>3. /\ job.id \in Nat /\ job.moved \in Nat /\ moved \in Nat /\ job.total \in Nat
        /\ job.late \in Nat /\ job.ticked \in BOOLEAN
        /\ job.file \in [path : Seq(Nodes), point : {"none", "read", "check"}]
    BY <1>2 DEF Transfers, JobSet
  <1>4. (IF Cancelled THEN job.late + 1 ELSE job.late) \in Nat
    BY <1>3
  <1> DEFINE late == IF Cancelled THEN job.late + 1 ELSE job.late
             ticked == job.ticked \/ published
             file == [job.file EXCEPT !.point = "check"]
  <1>5. file \in [path : Seq(Nodes), point : {"none", "read", "check"}]
    BY <1>3
  <1>6. ticked \in BOOLEAN
    OBVIOUS
  <1>7. job' = [job EXCEPT !.moved = moved, !.file = file, !.ticked = ticked, !.late = late]
    BY <1>1, <1>2 DEF Transfers, JobSet
  <1>8. late \in Nat
    BY <1>4
  <1> HIDE DEF late, ticked, file
  <1>9. job' \in Transfers /\ job'.phase = "copying"
    BY <1>2, <1>3, <1>5, <1>6, <1>7, <1>8 DEF Transfers, JobSet
  <1>10. signals' \in Seq(Pipe!SignalSet)
    <2>1. Pipe!Signal("transferProgress", job.id, moved, job.total) \in Pipe!SignalSet
      <3> HIDE DEF moved
      <3>1. QED
        BY <1>3, ProgressIs
    <2>2. signals \in Seq(Pipe!SignalSet)
      BY DEF QueueTypeOK
    <2>3. QED
      BY <1>1, <2>1, <2>2
  <1>11. QueueTypeOK'
    BY <1>10 DEF ReadChunk, QueueTypeOK, guiVars
  <1>12. QED
    BY <1>9, <1>11, TransferTyped

LEMMA OtherStepsTyped ==
  ASSUME QueueTypeOK, JobTypeOK,
         \/ Shutdown \/ TakeTransfer \/ SizingFails \/ StartCopying \/ NoticeCancel
         \/ EntryFails \/ ReadFails \/ FlushFails \/ Finish
  PROVE  QueueTypeOK' /\ JobTypeOK'
  <1>1. CASE Shutdown
    <2>1. calls' \in Seq(Requests)
      BY <1>1, HeadIs DEF Shutdown, Takes
    <2>2. QED
      BY <1>1, <2>1 DEF Shutdown, QueueTypeOK, JobTypeOK, Requests
  <1>2. CASE TakeTransfer
    <2> DEFINE call == Head(calls)
    <2>1. call.id \in Nat /\ call.top \in Nodes /\ call.kind \in {"download", "upload"}
      BY <1>2, HeadIs DEF TakeTransfer, Takes, Kinds
    <2>2. job' = Began(call, "sizing", <<>>)
      BY <1>2 DEF TakeTransfer
    <2> HIDE DEF call
    <2>3. job' \in Transfers /\ job'.phase = "sizing" /\ job'.file = NoFile
      BY <2>1, <2>2, BeganIs
    <2>4. QueueTypeOK'
      BY <1>2, TakesIs DEF TakeTransfer
    <2>5. QED
      BY <2>3, <2>4 DEF JobTypeOK, Transfers
  <1>3. CASE SizingFails \/ EntryFails \/ ReadFails \/ FlushFails
    BY <1>3, FailIs DEF SizingFails, EntryFails, ReadFails, FlushFails
  <1>4. CASE StartCopying
    <2> DEFINE total == TreeSize(Side(job.kind), job.top)
    <2>1. job.phase = "sizing" /\ job \in Transfers /\ job.top \in Nodes /\ job.id \in Nat
      BY <1>4, JobIs DEF StartCopying, Transfers, JobSet
    <2>2. total \in Nat
      BY <1>4, <2>1, TreeSizeIs DEF StartCopying, Top
    <2>3. /\ job' = [job EXCEPT !.phase = "copying", !.todo = <<Top>>, !.total = total]
          /\ signals' = Append(signals, Pipe!Signal("transferStarted", job.id, 0, total))
      BY <1>4 DEF StartCopying
    <2>4. <<Top>> \in Seq(Seq(Nodes))
      BY <2>1 DEF Top
    <2> HIDE DEF total
    <2>5. job' \in Transfers /\ job'.phase = "copying"
      BY <2>1, <2>2, <2>3, <2>4 DEF Transfers, JobSet
    <2>6. signals' \in Seq(Pipe!SignalSet)
      <3>1. Pipe!Signal("transferStarted", job.id, 0, total) \in Pipe!SignalSet
        BY <2>1, <2>2, ProgressIs
      <3>2. QED
        BY <2>3, <3>1 DEF QueueTypeOK
    <2>7. QueueTypeOK'
      BY <1>4, <2>6 DEF StartCopying, QueueTypeOK, guiVars
    <2>8. QED
      BY <2>5, <2>7, TransferTyped
  <1>5. CASE NoticeCancel
    <2>1. <<Pipe!Answer("operationCancelled", job.id)>> \in Seq(Pipe!SignalSet)
      BY JobIs, AnswerIs DEF AnswerKinds
    <2>2. QED
      BY <1>5, <2>1, EndIs DEF NoticeCancel
  <1>6. CASE Finish
    <2>1. job.total \in Nat
      BY <1>6, JobIs DEF Finish, NothingLeft, Transfers, JobSet
    <2>2. <<Pipe!Signal("transferProgress", job.id, job.total, job.total),
            Pipe!Answer("transferFinished", job.id)>> \in Seq(Pipe!SignalSet)
      BY <2>1, JobIs, AnswerIs, ProgressIs DEF AnswerKinds
    <2>3. QED
      BY <1>6, <2>2, EndIs DEF Finish
  <1>7. QED
    BY <1>1, <1>2, <1>3, <1>4, <1>5, <1>6

LEMMA RequestsTyped ==
  ASSUME QueueTypeOK, JobTypeOK, [Next]_vars
  PROVE  QueueTypeOK' /\ JobTypeOK'
  <1>1. CASE GuiStep
    BY <1>1, GuiTyped DEF JobTypeOK
  <1>2. CASE WorkerStep
    BY <1>2, RemovalStepsTyped, CopyingStepsTyped, ReadChunkTyped, OtherStepsTyped DEF WorkerStep
  <1>3. CASE UNCHANGED vars
    BY <1>3 DEF vars, QueueTypeOK, JobTypeOK
  <1>4. QED
    BY <1>1, <1>2, <1>3 DEF Next
-----------------------------------------------------------------------------
(***************************************************************************)
(* Every request is answered, and a cancellation is noticed.               *)
(***************************************************************************)
(* The worker ends its job with an answer, begins one, or goes on with it. *)
Answers(answers) ==
  /\ answers \in Seq(Pipe!SignalSet)
  /\ \E a \in ToSet(answers) : a.id = job.id /\ a.kind \in AnswerKinds

Ends == job.phase # "idle" /\ \E answers : Answers(answers) /\ End(answers)

Starts ==
  /\ job = NoJob /\ calls # <<>> /\ Head(calls).kind \in Kinds
  /\ calls' = Tail(calls)
  /\ \E phase, todo : job' = Began(Head(calls), phase, todo) /\ phase # "idle"
  /\ UNCHANGED <<guiVars, cancelRequests, signals>>

GoesOn ==
  /\ job.phase # "idle" /\ job'.phase # "idle" /\ job'.id = job.id
  /\ \/ job'.late = job.late /\ (AtCheck => ~Cancelled)
     \/ AtRead /\ AtCheck' /\ job'.late = IF Cancelled THEN job.late + 1 ELSE job.late
  /\ signals' = signals \/ \E s \in Pipe!SignalSet : signals' = Append(signals, s)
  /\ UNCHANGED <<guiVars, calls, cancelRequests>>

LEMMA OneAnswers ==
  ASSUME JobTypeOK, NEW kind \in AnswerKinds
  PROVE  Answers(<<Pipe!Answer(kind, job.id)>>)
  <1>1. Pipe!Answer(kind, job.id) \in Pipe!SignalSet
        /\ Pipe!Answer(kind, job.id).id = job.id /\ Pipe!Answer(kind, job.id).kind = kind
    BY JobIs, AnswerIs
  <1>2. Pipe!Answer(kind, job.id) \in ToSet(<<Pipe!Answer(kind, job.id)>>)
    BY DEF ToSet
  <1>3. QED
    BY <1>1, <1>2 DEF Answers

LEMMA FailEnds ==
  ASSUME JobTypeOK, job.phase # "idle", Fail
  PROVE  Ends
  BY OneAnswers DEF Fail, Ends, AnswerKinds

LEMMA StepIs ==
  ASSUME QueueTypeOK, JobTypeOK, WorkerStep
  PROVE  Ends \/ Starts \/ RefuseRemoval \/ Shutdown \/ GoesOn
  <1>1. CASE TakeRemoval
    <2>1. Head(calls).kind \in Kinds
      BY <1>1 DEF TakeRemoval, Takes, Kinds
    <2>2. \E phase, todo : job' = Began(Head(calls), phase, todo) /\ phase # "idle"
      <3>1. \E todo : job' = Began(Head(calls), "removing", todo)
        BY <1>1 DEF TakeRemoval
      <3>2. QED
        BY <3>1
    <2>3. QED
      BY <1>1, <2>1, <2>2 DEF TakeRemoval, Takes, Starts
  <1>2. CASE TakeTransfer
    <2>1. Head(calls).kind \in Kinds
      BY <1>2 DEF TakeTransfer, Takes, Kinds
    <2>2. \E phase, todo : job' = Began(Head(calls), phase, todo) /\ phase # "idle"
      <3>1. \E todo : job' = Began(Head(calls), "sizing", todo)
        BY <1>2 DEF TakeTransfer
      <3>2. QED
        BY <3>1
    <2>3. QED
      BY <1>2, <2>1, <2>2 DEF TakeTransfer, Takes, Starts
  <1>3. CASE EnterRemoved \/ RemoveOne
    <2>1. job.phase = "removing" /\ job \in Removals /\ job.file = NoFile
      BY <1>3, JobIs DEF EnterRemoved, RemoveOne, Removing
    <2>2. PICK todo : job' = [job EXCEPT !.todo = todo]
      BY <1>3 DEF EnterRemoved, RemoveOne
    <2>3. job'.phase = "removing" /\ job'.id = job.id /\ job'.late = job.late
      BY <2>1, <2>2 DEF Removals, JobSet
    <2>4. ~AtCheck
      BY <2>1 DEF AtCheck, NoFile
    <2>5. QED
      BY <1>3, <2>1, <2>3, <2>4 DEF EnterRemoved, RemoveOne, GoesOn
  <1>4. CASE StartCopying
    <2>1. job.phase = "sizing" /\ job \in Transfers /\ job.file = NoFile /\ job.top \in Nodes
      BY <1>4, JobIs DEF StartCopying, Transfers, JobSet
    <2> DEFINE total == TreeSize(Side(job.kind), job.top)
    <2>2. /\ job' = [job EXCEPT !.phase = "copying", !.todo = <<Top>>, !.total = total]
          /\ signals' = Append(signals, Pipe!Signal("transferStarted", job.id, 0, total))
      BY <1>4 DEF StartCopying
    <2>3. Pipe!Signal("transferStarted", job.id, 0, total) \in Pipe!SignalSet
      <3>1. total \in Nat
        BY <1>4, <2>1, TreeSizeIs DEF StartCopying, Top
      <3> HIDE DEF total
      <3>2. QED
        BY <3>1, JobIs, ProgressIs
    <2> HIDE DEF total
    <2>4. job'.phase = "copying" /\ job'.id = job.id /\ job'.late = job.late
      BY <2>1, <2>2 DEF Transfers, JobSet
    <2>5. ~AtCheck
      BY <2>1 DEF AtCheck, NoFile
    <2>6. QED
      BY <1>4, <2>1, <2>2, <2>3, <2>4, <2>5 DEF StartCopying, GoesOn
  <1>5. CASE EnterDirectory \/ OpenFile
    <2>1. job.phase = "copying" /\ job \in Transfers /\ job.file = NoFile
      BY <1>5, AtEntryIs DEF EnterDirectory, OpenFile
    <2>2. job'.phase = "copying" /\ job'.id = job.id /\ job'.late = job.late
      BY <1>5, <2>1 DEF EnterDirectory, OpenFile, Transfers, JobSet
    <2>3. ~AtCheck
      BY <2>1 DEF AtCheck, NoFile
    <2>4. QED
      BY <1>5, <2>1, <2>2, <2>3 DEF EnterDirectory, OpenFile, GoesOn
  <1>6. CASE CheckFile \/ EndFile \/ EndFileEarly
    <2>1. job.phase = "copying" /\ job \in Transfers
      BY <1>6, AtFile DEF CheckFile, EndFile, EndFileEarly
    <2>2. job'.phase = "copying" /\ job'.id = job.id /\ job'.late = job.late
      BY <1>6, <2>1 DEF CheckFile, EndFile, EndFileEarly, Transfers, JobSet
    <2>3. AtCheck => ~Cancelled
      BY <1>6 DEF CheckFile, EndFile, EndFileEarly, AtCheck, AtRead
    <2>4. QED
      BY <1>6, <2>1, <2>2, <2>3 DEF CheckFile, EndFile, EndFileEarly, GoesOn
  <1>7. CASE ReadChunk
    <2>1. job.phase = "copying" /\ job \in Transfers /\ AtRead
      BY <1>7, AtFile DEF ReadChunk
    <2>2. PICK moved, ticked :
            job' = [job EXCEPT !.moved = moved, !.file.point = "check", !.ticked = ticked,
                               !.late = IF Cancelled THEN @ + 1 ELSE @]
      BY <1>7 DEF ReadChunk
    <2>3. /\ job'.phase = "copying" /\ job'.id = job.id /\ job'.file.point = "check"
          /\ job'.late = IF Cancelled THEN job.late + 1 ELSE job.late
      BY <2>1, <2>2 DEF Transfers, JobSet
    <2>4. Pipe!Signal("transferProgress", job.id, job.moved + 1, job.total) \in Pipe!SignalSet
      <3>1. job.moved + 1 \in Nat /\ job.total \in Nat
        BY <2>1 DEF Transfers, JobSet
      <3>2. QED
        BY <3>1, JobIs, ProgressIs
    <2>5. signals' = signals
          \/ signals' = Append(signals, Pipe!Signal("transferProgress", job.id, job.moved + 1, job.total))
      BY <1>7 DEF ReadChunk
    <2>6. AtCheck'
      BY <2>3 DEF AtCheck
    <2>7. UNCHANGED <<guiVars, calls, cancelRequests>>
      BY <1>7 DEF ReadChunk
    <2>8. QED
      BY <2>1, <2>3, <2>4, <2>5, <2>6, <2>7 DEF GoesOn
  <1>8. CASE RemovalFails \/ SizingFails \/ EntryFails \/ ReadFails \/ FlushFails
    <2>1. job.phase # "idle" /\ Fail
      BY <1>8, AtFile DEF RemovalFails, SizingFails, EntryFails, ReadFails, FlushFails, AtEntry
    <2>2. QED
      BY <2>1, FailEnds
  <1>9. CASE RemovalDone
    BY <1>9, OneAnswers DEF RemovalDone, Ends, AnswerKinds
  <1>10. CASE NoticeCancel
    <2>1. job.phase # "idle"
      BY <1>10, AtFile DEF NoticeCancel, AtEntry
    <2>2. QED
      BY <1>10, <2>1, OneAnswers DEF NoticeCancel, Ends, AnswerKinds
  <1>11. CASE Finish
    <2> DEFINE progress == Pipe!Signal("transferProgress", job.id, job.total, job.total)
               answer == Pipe!Answer("transferFinished", job.id)
    <2>1. job.phase = "copying" /\ End(<<progress, answer>>)
      BY <1>11 DEF Finish, NothingLeft
    <2>2. job.total \in Nat /\ job.id \in Nat
      BY <2>1, JobIs DEF Transfers, JobSet
    <2>3. progress \in Pipe!SignalSet
      BY <2>2, ProgressIs
    <2>4. answer \in Pipe!SignalSet /\ answer.id = job.id /\ answer.kind \in AnswerKinds
      BY <2>2, AnswerIs DEF AnswerKinds
    <2> HIDE DEF progress, answer
    <2>5. answer \in ToSet(<<progress, answer>>)
      BY DEF ToSet
    <2>6. Answers(<<progress, answer>>)
      BY <2>3, <2>4, <2>5 DEF Answers
    <2>7. QED
      BY <2>1, <2>6 DEF Ends
  <1>12. QED
    BY <1>1, <1>2, <1>3, <1>4, <1>5, <1>6, <1>7, <1>8, <1>9, <1>10, <1>11 DEF WorkerStep

(* Where a request that is not yet answered for the GUI thread is. *)
Expected(call) ==
  \/ call \in ToSet(calls)
  \/ job.phase # "idle" /\ job.id = call.id
  \/ \E s \in ToSet(signals) : s.id = call.id /\ s.kind \in AnswerKinds

AllExpected == \A call \in awaited : Expected(call)

(* The shutdown is the last call, and nothing comes after it. *)
ShutdownIsLast ==
  /\ \A i \in DOMAIN calls : calls[i].kind = "shutdown" => i = Len(calls) /\ closing = "stopping"
  /\ closing = "stopped" => calls = <<>> /\ job = NoJob

(* A chunk after the cancellation is the last: the check comes next. *)
NoticesNext ==
  \/ job.late = 0
  \/ job.late = 1 /\ Cancelled /\ AtCheck

AnswerInv == AllExpected /\ ShutdownIsLast /\ NoticesNext

LEMMA AnswerInvShows ==
  ASSUME QueueTypeOK, JobTypeOK, AnswerInv
  PROVE  EndedIsAnswered /\ CancelNoticed
  <1>1. CancelNoticed
    BY DEF AnswerInv, NoticesNext, CancelNoticed
  <1>2. ASSUME closing = "stopped", NEW call \in awaited
        PROVE  \E i \in DOMAIN signals : signals[i].id = call.id /\ signals[i].kind \in AnswerKinds
    <2>1. calls = <<>> /\ job.phase = "idle" /\ Expected(call)
      BY <1>2, JobIs DEF AnswerInv, ShutdownIsLast, AllExpected
    <2>2. ~(call \in ToSet(calls))
      BY <2>1 DEF ToSet
    <2>3. PICK s \in ToSet(signals) : s.id = call.id /\ s.kind \in AnswerKinds
      BY <2>1, <2>2 DEF Expected
    <2>4. QED
      BY <2>3 DEF ToSet
  <1>3. QED
    BY <1>1, <1>2 DEF EndedIsAnswered, AnswerInv, ShutdownIsLast

LEMMA GuiAnswers ==
  ASSUME QueueTypeOK, JobTypeOK, AnswerInv, GuiStep
  PROVE  AnswerInv'
  <1>0. job' = job /\ calls \in Seq(Requests) /\ signals \in Seq(Pipe!SignalSet)
    BY GuiTyped DEF QueueTypeOK, Requests
  <1>1. NoticesNext'
    <2>1. cancelRequests \subseteq cancelRequests'
      BY DEF GuiStep, Post, RequestCancel, Deliver, BeginStop
    <2>2. QED
      BY <1>0, <2>1 DEF AnswerInv, NoticesNext, Cancelled, AtCheck
  <1>2. CASE Post \/ BeginStop
    <2>1. PICK call : /\ calls' = Append(calls, call)
                      /\ awaited' = awaited \/ awaited' = awaited \cup {call}
                      /\ call.kind = "shutdown" => closing' = "stopping"
      <3>1. CASE Post
        <4>1. PICK wish \in Wishes :
                /\ calls' = Append(calls, [kind |-> wish[1], id |-> nextRequestId, top |-> wish[2]])
                /\ awaited' = awaited \cup {[kind |-> wish[1], id |-> nextRequestId, top |-> wish[2]]}
          BY <3>1 DEF Post
        <4>2. wish[1] # "shutdown"
          BY TreeAssumption DEF Kinds
        <4>3. QED
          BY <4>1, <4>2
      <3>2. CASE BeginStop
        BY <3>2 DEF BeginStop
      <3>3. QED
        BY <1>2, <3>1, <3>2
    <2>2. closing = "open" /\ closing' # "stopped" /\ signals' = signals
      BY <1>2 DEF Post, BeginStop
    <2>3. ToSet(calls') = ToSet(calls) \cup {call}
      BY <1>0, <2>1, ToSetOfAppend
    <2>4. AllExpected'
      BY <1>0, <2>1, <2>2, <2>3 DEF AnswerInv, AllExpected, Expected
    <2>5. ShutdownIsLast'
      <3>1. ASSUME NEW i \in DOMAIN calls', calls'[i].kind = "shutdown"
            PROVE  i = Len(calls') /\ closing' = "stopping"
        <4>1. CASE i \in DOMAIN calls
          <5>1. calls'[i] = calls[i]
            BY <1>0, <2>1, <4>1
          <5>2. closing = "stopping"
            BY <3>1, <4>1, <5>1 DEF AnswerInv, ShutdownIsLast
          <5>3. QED
            BY <2>2, <5>2
        <4>2. CASE i \notin DOMAIN calls
          <5>1. i = Len(calls) + 1 /\ Len(calls') = Len(calls) + 1 /\ calls'[i] = call
            BY <1>0, <2>1, <3>1, <4>2
          <5>2. QED
            BY <2>1, <3>1, <5>1
        <4>3. QED
          BY <4>1, <4>2
      <3>2. QED
        BY <2>2, <3>1 DEF ShutdownIsLast
    <2>6. QED
      BY <1>1, <2>4, <2>5 DEF AnswerInv
  <1>3. CASE RequestCancel
    <2>1. UNCHANGED <<calls, awaited, closing, signals, job>>
      BY <1>3 DEF RequestCancel, guiVars
    <2>2. AllExpected' /\ ShutdownIsLast'
      BY <2>1 DEF AnswerInv, AllExpected, Expected, ShutdownIsLast
    <2>3. QED
      BY <1>1, <2>2 DEF AnswerInv
  <1>4. CASE Deliver
    <2>1. signals # <<>> /\ signals' = Tail(signals) /\ UNCHANGED <<calls, closing, job>>
      BY <1>4 DEF Deliver
    <2>2. ToSet(signals) = {Head(signals)} \cup ToSet(signals')
      BY <1>0, <2>1, ToSetOfTail
    <2>3. ASSUME NEW call \in awaited'
          PROVE  Expected(call)'
      <3>1. call \in awaited /\ (Head(signals).kind \in AnswerKinds => call.id # Head(signals).id)
        BY <1>4, <2>3 DEF Deliver
      <3>2. Expected(call)
        BY <3>1 DEF AnswerInv, AllExpected
      <3>3. QED
        BY <2>1, <2>2, <3>1, <3>2 DEF Expected
    <2>4. ShutdownIsLast'
      BY <2>1 DEF AnswerInv, ShutdownIsLast
    <2>5. QED
      BY <1>1, <2>3, <2>4 DEF AnswerInv, AllExpected
  <1>5. QED
    BY <1>2, <1>3, <1>4 DEF GuiStep

(* A call that is taken leaves the others where they were. *)
LEMMA TakenIsFirst ==
  ASSUME QueueTypeOK, ShutdownIsLast, calls # <<>>, calls' = Tail(calls), closing' = closing
  PROVE  \A i \in DOMAIN calls' :
           calls'[i].kind = "shutdown" => i = Len(calls') /\ closing' = "stopping"
  <1>1. calls \in Seq(Requests)
    BY DEF QueueTypeOK, Requests
  <1>2. ASSUME NEW i \in DOMAIN calls', calls'[i].kind = "shutdown"
        PROVE  i = Len(calls') /\ closing' = "stopping"
    <2>1. /\ i + 1 \in DOMAIN calls /\ calls'[i] = calls[i + 1] /\ Len(calls') = Len(calls) - 1
          /\ i \in Nat /\ Len(calls) \in Nat
      BY <1>1, <1>2
    <2>2. i + 1 = Len(calls) /\ closing = "stopping"
      BY <1>2, <2>1 DEF ShutdownIsLast
    <2>3. QED
      BY <2>1, <2>2
  <1>3. QED
    BY <1>2

LEMMA WorkerAnswers ==
  ASSUME QueueTypeOK, JobTypeOK, AnswerInv, WorkerStep
  PROVE  AnswerInv'
  <1>0. calls \in Seq(Requests) /\ signals \in Seq(Pipe!SignalSet)
    BY DEF QueueTypeOK, Requests
  <1>1. CASE Ends
    <2>1. PICK answers : Answers(answers) /\ End(answers)
      BY <1>1 DEF Ends
    <2>2. job' = NoJob /\ signals' = signals \o answers /\ UNCHANGED <<calls, awaited, closing>>
      BY <2>1 DEF End, guiVars
    <2>3. ToSet(signals') = ToSet(signals) \cup ToSet(answers)
      BY <1>0, <2>1, <2>2, ToSetOfConcat DEF Answers
    <2>4. \E s \in ToSet(signals') : s.id = job.id /\ s.kind \in AnswerKinds
      BY <2>1, <2>3 DEF Answers
    <2>5. AllExpected'
      BY <2>2, <2>3, <2>4 DEF AnswerInv, AllExpected, Expected
    <2>6. ShutdownIsLast' /\ NoticesNext'
      BY <2>2 DEF AnswerInv, ShutdownIsLast, NoticesNext, NoJob
    <2>7. QED
      BY <2>5, <2>6 DEF AnswerInv
  <1>2. CASE Starts
    <2> DEFINE call == Head(calls)
    <2>1. PICK phase, todo : job' = Began(call, phase, todo) /\ phase # "idle"
      BY <1>2 DEF Starts
    <2>2. job'.phase # "idle" /\ job'.id = call.id /\ job'.late = 0
      BY <2>1 DEF Began
    <2>3. calls # <<>> /\ calls' = Tail(calls) /\ UNCHANGED <<awaited, closing, signals>> /\ job = NoJob
      BY <1>2 DEF Starts, guiVars
    <2>4. ToSet(calls) = {call} \cup ToSet(calls')
      BY <2>3, HeadIs
    <2>5. job.phase = "idle"
      BY <2>3 DEF NoJob
    <2> HIDE DEF call
    <2>6. AllExpected'
      BY <2>2, <2>3, <2>4, <2>5 DEF AnswerInv, AllExpected, Expected
    <2>7. ShutdownIsLast'
      BY <2>3, TakenIsFirst DEF AnswerInv, ShutdownIsLast
    <2>8. NoticesNext'
      BY <2>2 DEF NoticesNext
    <2>9. QED
      BY <2>6, <2>7, <2>8 DEF AnswerInv
  <1>3. CASE RefuseRemoval
    <2> DEFINE call == Head(calls)
               answer == Pipe!Answer("operationFailed", call.id)
    <2>1. /\ calls # <<>> /\ calls' = Tail(calls) /\ signals' = Append(signals, answer)
          /\ UNCHANGED <<awaited, closing, job, cancelRequests>> /\ job = NoJob
      BY <1>3 DEF RefuseRemoval, Takes, guiVars
    <2>2. ToSet(calls) = {call} \cup ToSet(calls') /\ call.id \in Nat
      BY <2>1, HeadIs
    <2>3. answer.id = call.id /\ answer.kind \in AnswerKinds
      BY <2>2, AnswerIs DEF AnswerKinds
    <2>4. ToSet(signals') = ToSet(signals) \cup {answer}
      BY <1>0, <2>1, ToSetOfAppend
    <2> HIDE DEF call, answer
    <2>5. AllExpected'
      BY <2>1, <2>2, <2>3, <2>4 DEF AnswerInv, AllExpected, Expected
    <2>6. ShutdownIsLast'
      BY <2>1, TakenIsFirst DEF AnswerInv, ShutdownIsLast
    <2>7. NoticesNext'
      BY <2>1 DEF AnswerInv, NoticesNext, Cancelled, AtCheck
    <2>8. QED
      BY <2>5, <2>6, <2>7 DEF AnswerInv
  <1>4. CASE Shutdown
    <2>1. /\ calls # <<>> /\ calls' = Tail(calls) /\ Head(calls).kind = "shutdown"
          /\ UNCHANGED <<awaited, job, signals, cancelRequests>> /\ job = NoJob
      BY <1>4 DEF Shutdown, Takes
    <2>2. ToSet(calls) = {Head(calls)} \cup ToSet(calls')
      BY <2>1, HeadIs
    <2>3. calls' = <<>>
      <3>1. 1 \in DOMAIN calls /\ calls[1].kind = "shutdown"
        BY <1>0, <2>1
      <3>2. Len(calls) = 1
        BY <3>1 DEF AnswerInv, ShutdownIsLast
      <3>3. QED
        BY <1>0, <2>1, <3>2
    <2>4. \A call \in awaited : call.kind # "shutdown"
      BY DEF QueueTypeOK, RequestSet, Kinds
    <2>5. AllExpected'
      BY <2>1, <2>2, <2>4 DEF AnswerInv, AllExpected, Expected
    <2>6. ShutdownIsLast'
      BY <2>1, <2>3 DEF ShutdownIsLast
    <2>7. NoticesNext'
      BY <2>1 DEF AnswerInv, NoticesNext, Cancelled, AtCheck
    <2>8. QED
      BY <2>5, <2>6, <2>7 DEF AnswerInv
  <1>5. CASE GoesOn
    <2>1. /\ job.phase # "idle" /\ job'.phase # "idle" /\ job'.id = job.id
          /\ UNCHANGED <<calls, awaited, closing, cancelRequests>>
      BY <1>5 DEF GoesOn, guiVars
    <2>2. ToSet(signals) \subseteq ToSet(signals')
      <3>1. CASE signals' = signals
        BY <3>1
      <3>2. CASE signals' # signals
        <4>1. PICK s \in Pipe!SignalSet : signals' = Append(signals, s)
          BY <1>5, <3>2 DEF GoesOn
        <4>2. ToSet(Append(signals, s)) = ToSet(signals) \cup {s}
          BY <1>0, ToSetOfAppend
        <4>3. QED
          BY <4>1, <4>2
      <3>3. QED
        BY <3>1, <3>2
    <2>3. AllExpected'
      BY <2>1, <2>2 DEF AnswerInv, AllExpected, Expected
    <2>4. ShutdownIsLast'
      <3>1. job # NoJob
        BY <2>1 DEF NoJob
      <3>2. QED
        BY <2>1, <3>1 DEF AnswerInv, ShutdownIsLast
    <2>5. NoticesNext'
      <3>1. CASE AtCheck
        <4>1. job.late = 0 /\ job'.late = job.late
          BY <1>5, <3>1 DEF GoesOn, AnswerInv, NoticesNext, AtCheck, AtRead
        <4>2. QED
          BY <4>1 DEF NoticesNext
      <3>2. CASE ~AtCheck
        <4>1. job.late = 0
          BY <3>2 DEF AnswerInv, NoticesNext
        <4>2. QED
          BY <1>5, <2>1, <4>1 DEF GoesOn, NoticesNext, Cancelled
      <3>3. QED
        BY <3>1, <3>2
    <2>6. QED
      BY <2>3, <2>4, <2>5 DEF AnswerInv
  <1>6. QED
    BY <1>1, <1>2, <1>3, <1>4, <1>5, StepIs
-----------------------------------------------------------------------------
(***************************************************************************)
(* Removals.  What is removed was empty, so no directory is gone before    *)
(* what it holds.  Each task is for something that may be removed, and for *)
(* all that must go there is a task, or it is gone.                        *)
(***************************************************************************)
GoneOK == gone \subseteq Nodes /\ GoneClosed

LinkTop == job.top \in Links /\ Target[job.top] \in Dirs

(* A link that was asked for is taken for its directory, until rmdir refuses it. *)
TasksOK ==
  job.phase = "removing" =>
    \A task \in ToSet(job.todo) :
      LET name == Last(task.path)
      IN  \/ name = job.top /\ LinkTop /\ task.op \in {"enter", "rmdir"}
          \/ name \in Doomed(job.top) /\ (name \in Dirs <=> task.op # "unlink")

Covers(task, node) ==
  \/ task.op = "enter" /\ node \in Inside[Last(task.path)]
  \/ Last(task.path) = node

AllCovered ==
  job.phase = "removing" =>
    \A node \in Inside[job.top] :
      node \in gone \/ \E task \in ToSet(job.todo) : Covers(task, node)

RemovalInv == GoneOK /\ TasksOK /\ AllCovered

LEMMA DoomedIs ==
  ASSUME NEW top \in Nodes
  PROVE  /\ Doomed(top) \in Closed /\ Doomed(top) \subseteq Nodes
         /\ top \in Doomed(top) \/ (top \in Links /\ Target[top] \in Dirs)
  <1>1. CASE top \in Links /\ Target[top] \in Dirs
    <2>1. Target[top] \in Nodes
      BY <1>1 DEF Nodes
    <2>2. QED
      BY <1>1, <2>1, InsideIs DEF Doomed, Closed
  <1>2. CASE ~(top \in Links /\ Target[top] \in Dirs)
    BY <1>2, InsideIs DEF Doomed, Closed
  <1>3. QED
    BY <1>1, <1>2

(* The task at the head, and the ones behind it. *)
LEMMA TaskIs ==
  ASSUME JobTypeOK, job.phase = "removing", job.todo # <<>>
  PROVE  /\ job \in Removals /\ job.top \in Nodes
         /\ job.todo \in Seq(TaskSet)
         /\ Head(job.todo) \in TaskSet /\ Tail(job.todo) \in Seq(TaskSet)
         /\ ToSet(job.todo) = {Head(job.todo)} \cup ToSet(Tail(job.todo))
         /\ Head(job.todo).path \in Seq(Nodes) /\ Head(job.todo).path # <<>>
         /\ Last(Head(job.todo).path) \in Nodes
  <1>1. job \in Removals
    BY JobIs
  <1>2. job.todo \in Seq(TaskSet) /\ job.top \in Nodes
    BY <1>1 DEF Removals, JobSet
  <1>3. /\ Head(job.todo) \in TaskSet /\ Tail(job.todo) \in Seq(TaskSet)
        /\ ToSet(job.todo) = {Head(job.todo)} \cup ToSet(Tail(job.todo))
    BY <1>2, ToSetOfTail
  <1>4. Head(job.todo).path \in Seq(Nodes) /\ Head(job.todo).path # <<>>
    BY <1>3 DEF TaskSet
  <1>5. Last(Head(job.todo).path) \in Nodes
    BY <1>4, LastIs
  <1>6. QED
    BY <1>1, <1>2, <1>3, <1>4, <1>5

(* Only three steps matter to a removal. *)
LEMMA RemovalStepIs ==
  ASSUME QueueTypeOK, JobTypeOK, [Next]_vars
  PROVE  \/ TakeRemoval \/ EnterRemoved \/ RemoveOne
         \/ gone' = gone /\ (job' = job \/ job'.phase # "removing")
  <1>1. CASE \/ RefuseRemoval \/ Shutdown \/ UNCHANGED vars
    BY <1>1 DEF RefuseRemoval, Shutdown, treeVars, vars
  <1>2. CASE GuiStep
    BY <1>2, GuiTyped DEF treeVars
  <1>3. CASE RemovalFails \/ RemovalDone \/ SizingFails \/ Finish
    BY <1>3 DEF RemovalFails, RemovalDone, SizingFails, Finish, Fail, End, NoJob, treeVars
  <1>4. CASE NoticeCancel \/ EntryFails \/ ReadFails \/ FlushFails
    BY <1>4 DEF NoticeCancel, EntryFails, ReadFails, FlushFails, Fail, End, NoJob
  <1>5. CASE TakeTransfer
    BY <1>5 DEF TakeTransfer, Began, treeVars
  <1>6. CASE StartCopying
    <2>1. job.phase = "sizing" /\ job \in Transfers
      BY <1>6, JobIs DEF StartCopying
    <2>2. QED
      BY <1>6, <2>1 DEF StartCopying, Transfers, JobSet, treeVars
  <1>7. CASE EnterDirectory \/ OpenFile
    <2>1. job.phase = "copying" /\ job \in Transfers
      BY <1>7, AtEntryIs DEF EnterDirectory, OpenFile
    <2>2. QED
      BY <1>7, <2>1 DEF EnterDirectory, OpenFile, Transfers, JobSet
  <1>8. CASE CheckFile \/ ReadChunk \/ EndFile \/ EndFileEarly
    <2>1. job.phase = "copying" /\ job \in Transfers
      BY <1>8, AtFile DEF CheckFile, ReadChunk, EndFile, EndFileEarly
    <2>2. CASE CheckFile \/ EndFile
      BY <2>2, <2>1 DEF CheckFile, EndFile, Transfers, JobSet, treeVars
    <2>3. CASE ReadChunk
      BY <2>3, <2>1 DEF ReadChunk, Transfers, JobSet
    <2>4. CASE EndFileEarly
      BY <2>4, <2>1 DEF EndFileEarly, Transfers, JobSet
    <2>5. QED
      BY <1>8, <2>2, <2>3, <2>4
  <1>9. QED
    BY <1>1, <1>2, <1>3, <1>4, <1>5, <1>6, <1>7, <1>8 DEF Next, WorkerStep

LEMMA TakeRemovalCovers ==
  ASSUME QueueTypeOK, JobTypeOK, RemovalInv, TakeRemoval
  PROVE  RemovalInv'
  <1> DEFINE top  == Head(calls).top
             node == Stat("remote", <<top>>)
             op   == IF node \in Dirs THEN "enter" ELSE "unlink"
             task == Task(op, <<top>>)
  <1>1. /\ calls # <<>> /\ Head(calls).kind \in Kinds /\ node # Nowhere
        /\ job' = Began(Head(calls), "removing", <<task>>) /\ gone' = gone
    BY DEF TakeRemoval, Takes, Kinds, treeVars
  <1>2. top \in Nodes
    BY <1>1, HeadIs
  <1>3. Last(<<top>>) = top
    BY DEF Last
  <1>4. node = Resolved(top)
    BY <1>1, <1>3, StatIs
  <1>5. job'.todo = <<task>> /\ job'.top = top
    BY <1>1 DEF Began
  <1>6. ToSet(job'.todo) = {task}
    BY <1>5 DEF ToSet
  <1>7. task.path = <<top>> /\ task.op = op
    BY DEF Task
  <1>8. top \in Inside[top] /\ Inside[top] \in Closed
    BY <1>2, InsideIs
  <1>9. \/ node \in Dirs /\ (top \in Dirs \/ (top \in Links /\ Target[top] \in Dirs))
        \/ node \notin Dirs /\ top \notin Dirs
    BY <1>2, <1>4, TreeAssumption DEF Resolved
  <1>10. top \in Doomed(top) \/ (top \in Links /\ Target[top] \in Dirs)
    BY <1>2, DoomedIs
  <1>11. Inside[top] = {top} \/ top \in Dirs
    BY <1>2, <1>8, InsideParts
  <1>12. /\ node \in Dirs => op = "enter"
         /\ node \notin Dirs => op = "unlink"
    OBVIOUS
  <1>13. ~(top \in Links /\ Target[top] \in Dirs) \/ node \in Dirs
    BY <1>4 DEF Resolved
  <1>14. top \in Dirs => node \in Dirs
    BY <1>2, <1>4, ResolvedIs DEF Nodes
  <1> HIDE DEF top, node, op, task
  <1>15. TasksOK'
    BY <1>3, <1>5, <1>6, <1>7, <1>9, <1>10, <1>12, <1>13 DEF TasksOK, LinkTop, Doomed
  <1>16. AllCovered'
    BY <1>3, <1>5, <1>6, <1>7, <1>11, <1>12, <1>14 DEF AllCovered, Covers
  <1>17. GoneOK'
    BY <1>1 DEF RemovalInv, GoneOK, GoneClosed
  <1>18. QED
    BY <1>15, <1>16, <1>17 DEF RemovalInv

LEMMA RemoveOneCovers ==
  ASSUME QueueTypeOK, JobTypeOK, RemovalInv, RemoveOne
  PROVE  /\ RemovalInv'
         /\ job.kind = "remove" /\ gone' \ gone \subseteq Doomed(job.top)
  <1> DEFINE task == Head(job.todo)
             name == Last(task.path)
  <1>1. /\ job.phase = "removing" /\ job.todo # <<>> /\ task.op \in {"unlink", "rmdir"}
        /\ Removable(task) /\ gone' = gone \cup {name} /\ job' = [job EXCEPT !.todo = Tail(@)]
    BY DEF RemoveOne, Removing
  <1>2. /\ job \in Removals /\ job.top \in Nodes /\ name \in Nodes
        /\ ToSet(job.todo) = {task} \cup ToSet(Tail(job.todo))
    BY <1>1, TaskIs
  <1>3. job'.todo = Tail(job.todo) /\ job'.top = job.top /\ job'.phase = job.phase
    BY <1>1, <1>2 DEF Removals, JobSet
  <1>4. job.kind = "remove"
    BY <1>2 DEF Removals, JobSet
  <1>5. task.op = "rmdir" => name \in Dirs /\ ToSet(Entries[name]) \subseteq gone
    BY <1>1 DEF Removable
  <1>6. \/ name = job.top /\ LinkTop /\ task.op = "rmdir"
        \/ name \in Doomed(job.top) /\ (name \in Dirs <=> task.op # "unlink")
    BY <1>1, <1>2 DEF RemovalInv, TasksOK
  <1>7. ~(name = job.top /\ LinkTop /\ task.op = "rmdir")
    BY <1>2, <1>5, ResolvedIs DEF LinkTop
  <1>8. name \in Doomed(job.top)
    BY <1>6, <1>7
  <1>9. name \in Dirs => ToSet(Entries[name]) \subseteq gone
    BY <1>1, <1>5, <1>6, <1>7
  <1> HIDE DEF task, name
  <1>10. GoneOK'
    BY <1>1, <1>2, <1>9 DEF RemovalInv, GoneOK, GoneClosed
  <1>11. TasksOK'
    <2>1. \A t \in ToSet(job'.todo) : t \in ToSet(job.todo)
      BY <1>2, <1>3
    <2>2. QED
      BY <1>1, <1>3, <2>1 DEF RemovalInv, TasksOK, LinkTop
  <1>12. AllCovered'
    <2>1. SUFFICES ASSUME NEW n \in Inside[job.top]
                   PROVE  n \in gone' \/ \E t \in ToSet(Tail(job.todo)) : Covers(t, n)
      BY <1>3 DEF AllCovered, Covers
    <2>2. CASE n \in gone
      BY <1>1, <2>2
    <2>3. CASE n \notin gone
      <3>1. PICK t \in ToSet(job.todo) : Covers(t, n)
        BY <1>1, <2>3 DEF RemovalInv, AllCovered
      <3>2. CASE t = task
        BY <1>1, <3>1, <3>2 DEF Covers, name
      <3>3. CASE t # task
        BY <1>2, <3>1, <3>3
      <3>4. QED
        BY <3>2, <3>3
    <2>4. QED
      BY <2>2, <2>3
  <1>13. gone' \ gone \subseteq Doomed(job.top)
    BY <1>1, <1>8
  <1>14. QED
    BY <1>4, <1>10, <1>11, <1>12, <1>13 DEF RemovalInv
LEMMA EnterRemovedCovers ==
  ASSUME QueueTypeOK, JobTypeOK, RemovalInv, EnterRemoved
  PROVE  RemovalInv'
  <1> DEFINE task    == Head(job.todo)
             path    == task.path
             name    == Last(path)
             dir     == Stat("remote", path)
             entries == Listing("remote", path)
             op(p)   == IF Last(p) \in Dirs THEN "enter" ELSE "unlink"
             tasks   == [i \in DOMAIN entries |-> Task(op(entries[i]), entries[i])]
             todo    == tasks \o <<Task("rmdir", path)>> \o Tail(job.todo)
  <1>1. /\ job.phase = "removing" /\ job.todo # <<>> /\ task.op = "enter" /\ dir \in Dirs
        /\ gone' = gone /\ job' = [job EXCEPT !.todo = todo]
    BY DEF EnterRemoved, Removing, treeVars
  <1>2. /\ job \in Removals /\ job.top \in Nodes /\ name \in Nodes
        /\ Tail(job.todo) \in Seq(TaskSet)
        /\ ToSet(job.todo) = {task} \cup ToSet(Tail(job.todo))
        /\ path \in Seq(Nodes) /\ path # <<>>
    BY <1>1, TaskIs
  <1>3. job'.todo = todo /\ job'.top = job.top /\ job'.phase = job.phase
    BY <1>1, <1>2 DEF Removals, JobSet
  <1>4. dir = Resolved(name) /\ dir \in Nodes
    BY <1>1, StatIs, TreeAssumption DEF Nodes
  <1>5. /\ entries \in Seq(Seq(Nodes))
        /\ \A r : r \in ToSet(entries) <=>
             \E e \in ToSet(Entries[dir]) : r = Append(path, e) /\ IsListed("remote", path, e)
    BY <1>1, <1>2, ListingIs
  <1>6. /\ \A r \in ToSet(entries) : \E e \in ToSet(Entries[dir]) : r = Append(path, e)
        /\ \A e \in ToSet(Entries[dir]) : e \notin gone => Append(path, e) \in ToSet(entries)
    BY <1>5 DEF IsListed
  <1>7. \A e \in ToSet(Entries[dir]) : Append(path, e) # <<>> /\ Last(Append(path, e)) = e /\ e \in Nodes
    BY <1>1, <1>2, EntriesAre, AppendIs
  <1>8. tasks \in Seq(TaskSet) /\ ToSet(tasks) = {Task(op(r), r) : r \in ToSet(entries)}
    <2>1. ASSUME NEW r \in ToSet(entries)
          PROVE  r \in Seq(Nodes) \ {<<>>}
      <3>1. PICK e \in ToSet(Entries[dir]) : r = Append(path, e)
        BY <1>6
      <3>2. e \in Nodes
        BY <1>7
      <3>3. QED
        BY <1>2, <3>1, <3>2, AppendIs
    <2>2. \A i \in DOMAIN entries : entries[i] \in ToSet(entries)
      BY DEF ToSet
    <2>3. \A i \in DOMAIN entries : tasks[i] \in TaskSet
      BY <2>1, <2>2 DEF Task, TaskSet
    <2>4. PICK n \in Nat : DOMAIN entries = 1..n
      BY <1>5
    <2>5. tasks \in [1..n -> TaskSet]
      BY <2>3, <2>4
    <2>6. tasks \in Seq(TaskSet)
      BY <2>5
    <2>7. QED
      BY <2>6 DEF ToSet
  <1>9. <<Task("rmdir", path)>> \in Seq(TaskSet) /\ ToSet(<<Task("rmdir", path)>>) = {Task("rmdir", path)}
    BY <1>2 DEF Task, TaskSet, ToSet
  <1>10. ToSet(todo) = ToSet(tasks) \cup {Task("rmdir", path)} \cup ToSet(Tail(job.todo))
    <2> DEFINE middle == <<Task("rmdir", path)>>
               rest   == Tail(job.todo)
    <2>1. middle \in Seq(TaskSet) /\ rest \in Seq(TaskSet) /\ tasks \in Seq(TaskSet)
      BY <1>2, <1>8, <1>9
    <2>2. ToSet(middle) = {Task("rmdir", path)}
      BY <1>9
    <2>3. todo = tasks \o middle \o rest
      OBVIOUS
    <2> HIDE DEF middle, rest, tasks, todo
    <2>4. ToSet(tasks \o middle \o rest) = ToSet(tasks) \cup ToSet(middle) \cup ToSet(rest)
      BY <2>1, ToSetOfThree
    <2>5. QED
      BY <2>2, <2>3, <2>4 DEF rest
  <1>11. \A r : Task(op(r), r).path = r /\ Task(op(r), r).op = op(r)
    BY DEF Task
  <1>12. Task("rmdir", path).path = path /\ Task("rmdir", path).op = "rmdir"
    BY DEF Task
  <1>13. ASSUME NEW t \in ToSet(tasks)
         PROVE  \E e \in ToSet(Entries[dir]) :
                  Last(t.path) = e /\ t.op = IF e \in Dirs THEN "enter" ELSE "unlink"
    <2>1. PICK r \in ToSet(entries) : t = Task(op(r), r)
      BY <1>8
    <2>2. PICK e \in ToSet(Entries[dir]) : r = Append(path, e)
      BY <1>6
    <2>3. Last(r) = e
      BY <1>7, <2>2
    <2>4. t.path = r /\ t.op = op(r)
      BY <1>11, <2>1
    <2>5. QED
      BY <2>3, <2>4
  <1>14. ASSUME NEW e \in ToSet(Entries[dir]), e \notin gone
         PROVE  \E t \in ToSet(tasks) :
                  Last(t.path) = e /\ t.op = IF e \in Dirs THEN "enter" ELSE "unlink"
    <2> DEFINE r == Append(path, e)
               t == Task(op(r), r)
    <2>1. r \in ToSet(entries)
      BY <1>6, <1>14
    <2>2. Last(r) = e
      BY <1>7
    <2>3. t.path = r /\ t.op = op(r)
      BY <1>11
    <2>4. t \in ToSet(tasks)
      BY <1>8, <2>1
    <2>5. QED
      BY <2>2, <2>3, <2>4
  <1>15. \/ name = job.top /\ LinkTop
         \/ name \in Doomed(job.top) /\ name \in Dirs
    BY <1>1, <1>2 DEF RemovalInv, TasksOK
  <1>16. ToSet(Entries[dir]) \subseteq Doomed(job.top)
    <2>1. CASE name = job.top /\ LinkTop
      <3>1. dir \in Doomed(job.top)
        BY <1>4, <2>1, InsideIs DEF LinkTop, Doomed, Resolved
      <3>2. QED
        BY <1>1, <1>2, <3>1, DoomedIs DEF Closed
    <2>2. CASE name \in Doomed(job.top) /\ name \in Dirs
      <3>1. dir = name
        BY <1>2, <1>4, <2>2, ResolvedIs
      <3>2. QED
        BY <1>2, <2>2, <3>1, DoomedIs DEF Closed
    <2>3. QED
      BY <1>15, <2>1, <2>2
  <1> HIDE DEF task, path, name, dir, entries, op, tasks, todo
  <1>17. GoneOK'
    BY <1>1 DEF RemovalInv, GoneOK, GoneClosed
  <1>18. TasksOK'
    <2>1. SUFFICES ASSUME NEW t \in ToSet(todo)
                   PROVE  \/ Last(t.path) = job.top /\ LinkTop /\ t.op \in {"enter", "rmdir"}
                          \/ Last(t.path) \in Doomed(job.top) /\ (Last(t.path) \in Dirs <=> t.op # "unlink")
      BY <1>3 DEF TasksOK, LinkTop
    <2>2. CASE t \in ToSet(tasks)
      BY <1>13, <1>16, <2>2
    <2>3. CASE t = Task("rmdir", path)
      BY <1>12, <1>15, <2>3 DEF name
    <2>4. CASE t \in ToSet(Tail(job.todo))
      BY <1>1, <1>2, <2>4 DEF RemovalInv, TasksOK
    <2>5. QED
      BY <1>10, <2>1, <2>2, <2>3, <2>4
  <1>19. AllCovered'
    <2>1. SUFFICES ASSUME NEW n \in Inside[job.top]
                   PROVE  n \in gone \/ \E t \in ToSet(todo) : Covers(t, n)
      BY <1>1, <1>3 DEF AllCovered, Covers
    <2>2. CASE n \in gone
      BY <2>2
    <2>3. CASE n \notin gone
      <3>1. PICK t \in ToSet(job.todo) : Covers(t, n)
        BY <1>1, <2>3 DEF RemovalInv, AllCovered
      <3>2. CASE t = task
        <4>1. n \in Inside[name] \/ n = name
          BY <3>1, <3>2 DEF Covers, name, path
        <4>2. CASE n = name
          BY <1>10, <1>12, <4>2 DEF Covers, name
        <4>3. CASE n # name
          <5>1. name \in Dirs /\ \E e \in ToSet(Entries[name]) : n \in Inside[e]
            BY <1>2, <4>1, <4>3, InsideParts
          <5>2. dir = name
            BY <1>2, <1>4, <5>1, ResolvedIs
          <5>3. PICK e \in ToSet(Entries[dir]) : n \in Inside[e]
            BY <5>1, <5>2
          <5>4. e \in Nodes
            BY <1>7
          <5>5. e \notin gone
            BY <2>3, <5>3, GoneIsClosed DEF RemovalInv, GoneOK
          <5>6. PICK u \in ToSet(tasks) :
                  Last(u.path) = e /\ u.op = IF e \in Dirs THEN "enter" ELSE "unlink"
            BY <1>14, <5>5
          <5>7. n = e \/ e \in Dirs
            BY <5>3, <5>4, InsideParts
          <5>8. Covers(u, n)
            BY <5>3, <5>6, <5>7 DEF Covers
          <5>9. QED
            BY <1>10, <5>8
        <4>4. QED
          BY <4>2, <4>3
      <3>3. CASE t # task
        BY <1>2, <1>10, <3>1, <3>3
      <3>4. QED
        BY <3>2, <3>3
    <2>4. QED
      BY <2>2, <2>3
  <1>20. QED
    BY <1>17, <1>18, <1>19 DEF RemovalInv

LEMMA RemovalKeeps ==
  ASSUME QueueTypeOK, JobTypeOK, RemovalInv, [Next]_vars
  PROVE  /\ RemovalInv'
         /\ gone' # gone => job.kind = "remove" /\ gone' \ gone \subseteq Doomed(job.top)
  <1>1. CASE TakeRemoval
    BY <1>1, TakeRemovalCovers DEF TakeRemoval, treeVars
  <1>2. CASE EnterRemoved
    BY <1>2, EnterRemovedCovers DEF EnterRemoved, treeVars
  <1>3. CASE RemoveOne
    BY <1>3, RemoveOneCovers
  <1>4. CASE gone' = gone /\ (job' = job \/ job'.phase # "removing")
    <2>1. GoneOK'
      BY <1>4 DEF RemovalInv, GoneOK, GoneClosed
    <2>2. TasksOK'
      BY <1>4 DEF RemovalInv, TasksOK, LinkTop
    <2>3. AllCovered'
      BY <1>4 DEF RemovalInv, AllCovered, Covers
    <2>4. QED
      BY <1>4, <2>1, <2>2, <2>3 DEF RemovalInv
  <1>5. QED
    BY <1>1, <1>2, <1>3, <1>4, RemovalStepIs

(* Success is reported by one step, and after the last task. *)
LEMMA RemovalReported ==
  ASSUME QueueTypeOK, JobTypeOK, [Next]_vars,
         Pipe!Answer("operationFinished", job.id) \in ToSet(signals') \ ToSet(signals)
  PROVE  job.phase = "removing" /\ job.todo = <<>> /\ gone' = gone
  <1> DEFINE new == Pipe!Answer("operationFinished", job.id)
  <1>0. signals \in Seq(Pipe!SignalSet) /\ new.kind = "operationFinished" /\ job.id \in Nat
    BY AnswerIs, JobIs DEF QueueTypeOK, AnswerKinds
  <1>1. signals' # signals
    OBVIOUS
  <1>2. ASSUME NEW answers \in Seq(Pipe!SignalSet), End(answers),
               \A a \in ToSet(answers) : a.kind # "operationFinished"
        PROVE  FALSE
    <2>1. ToSet(signals') = ToSet(signals) \cup ToSet(answers)
      BY <1>0, <1>2, ToSetOfConcat DEF End
    <2>2. QED
      BY <1>0, <1>2, <2>1
  <1>3. ASSUME NEW s, signals' = Append(signals, s), s \in Pipe!SignalSet, s.kind # "operationFinished"
        PROVE  FALSE
    <2>1. ToSet(signals') = ToSet(signals) \cup {s}
      BY <1>0, <1>3, ToSetOfAppend
    <2>2. QED
      BY <1>0, <1>3, <2>1
  <1>4. ASSUME NEW kind \in AnswerKinds, kind # "operationFinished",
               End(<<Pipe!Answer(kind, job.id)>>)
        PROVE  FALSE
    <2>1. /\ <<Pipe!Answer(kind, job.id)>> \in Seq(Pipe!SignalSet)
          /\ \A a \in ToSet(<<Pipe!Answer(kind, job.id)>>) : a.kind = kind
      BY <1>0, AnswerIs DEF ToSet
    <2>2. QED
      BY <1>2, <1>4, <2>1
  <1>5. ~Fail
    BY <1>4 DEF Fail, AnswerKinds
  <1>6. ~NoticeCancel
    BY <1>4 DEF NoticeCancel, AnswerKinds
  <1>7. ~Finish
    <2>1. SUFFICES ASSUME Finish PROVE FALSE
      OBVIOUS
    <2>2. job \in Transfers
      BY <2>1, JobIs DEF Finish, NothingLeft
    <2>3. job.total \in Nat
      BY <2>2 DEF Transfers, JobSet
    <2> DEFINE last   == Pipe!Signal("transferProgress", job.id, job.total, job.total)
               answer == Pipe!Answer("transferFinished", job.id)
    <2>4. last \in Pipe!SignalSet /\ last.kind = "transferProgress"
      BY <1>0, <2>3, ProgressIs
    <2>5. answer \in Pipe!SignalSet /\ answer.kind = "transferFinished"
      BY <1>0, AnswerIs DEF AnswerKinds
    <2>6. End(<<last, answer>>)
      BY <2>1 DEF Finish
    <2> HIDE DEF last, answer
    <2>7. /\ <<last, answer>> \in Seq(Pipe!SignalSet)
          /\ \A a \in ToSet(<<last, answer>>) : a = last \/ a = answer
      BY <2>4, <2>5 DEF ToSet
    <2>8. QED
      BY <1>2, <2>4, <2>5, <2>6, <2>7
  <1>8. ~RefuseRemoval
    <2>1. SUFFICES ASSUME RefuseRemoval PROVE FALSE
      OBVIOUS
    <2>2. Head(calls).id \in Nat
      BY <2>1, HeadIs DEF RefuseRemoval, Takes
    <2>3. /\ Pipe!Answer("operationFailed", Head(calls).id) \in Pipe!SignalSet
          /\ Pipe!Answer("operationFailed", Head(calls).id).kind = "operationFailed"
      BY <2>2, AnswerIs DEF AnswerKinds
    <2>4. QED
      BY <1>3, <2>1, <2>3 DEF RefuseRemoval
  <1>9. ~StartCopying
    <2>1. SUFFICES ASSUME StartCopying PROVE FALSE
      OBVIOUS
    <2>2. job \in Transfers /\ Stat(Side(job.kind), Top) # Nowhere
      BY <2>1, JobIs DEF StartCopying
    <2>3. TreeSize(Side(job.kind), job.top) \in Nat
      BY <2>2, TreeSizeIs DEF Transfers, JobSet, Top
    <2> DEFINE total == TreeSize(Side(job.kind), job.top)
               s     == Pipe!Signal("transferStarted", job.id, 0, total)
    <2>4. s \in Pipe!SignalSet /\ s.kind = "transferStarted"
      <3>1. total \in Nat
        BY <2>3
      <3> HIDE DEF total
      <3>2. QED
        BY <1>0, <3>1, ProgressIs
    <2>5. signals' = Append(signals, s)
      BY <2>1 DEF StartCopying
    <2>6. QED
      BY <1>3, <2>4, <2>5
  <1>10. ~ReadChunk
    <2>1. SUFFICES ASSUME ReadChunk PROVE FALSE
      OBVIOUS
    <2>2. job \in Transfers
      BY <2>1, AtFile DEF ReadChunk
    <2>3. job.moved + 1 \in Nat /\ job.total \in Nat
      BY <2>2 DEF Transfers, JobSet
    <2> DEFINE moved == job.moved + 1
               s     == Pipe!Signal("transferProgress", job.id, moved, job.total)
    <2>4. s \in Pipe!SignalSet /\ s.kind = "transferProgress"
      <3> DEFINE total == job.total
                 id    == job.id
      <3>1. moved \in Nat /\ total \in Nat /\ id \in Nat
        BY <1>0, <2>3
      <3> HIDE DEF moved, total, id
      <3>2. /\ Pipe!Signal("transferProgress", id, moved, total) \in Pipe!SignalSet
            /\ Pipe!Signal("transferProgress", id, moved, total).kind = "transferProgress"
        BY <3>1, ProgressIs
      <3>3. QED
        BY <3>2 DEF total, id
    <2>5. signals' = Append(signals, s)
      BY <1>1, <2>1 DEF ReadChunk
    <2>6. QED
      BY <1>3, <2>4, <2>5
  <1>11. ~GuiStep
    <2>1. ASSUME Deliver PROVE ToSet(signals') \subseteq ToSet(signals)
      BY <1>0, <2>1, ToSetOfTail DEF Deliver
    <2>2. QED
      BY <1>1, <2>1 DEF GuiStep, Post, RequestCancel, BeginStop
  <1>12. RemovalDone
    BY <1>1, <1>5, <1>6, <1>7, <1>8, <1>9, <1>10, <1>11
       DEF Next, WorkerStep, TakeRemoval, EnterRemoved, RemoveOne, RemovalFails, TakeTransfer,
           SizingFails, EnterDirectory, OpenFile, EntryFails, CheckFile, ReadFails, EndFile,
           EndFileEarly, FlushFails, Shutdown, vars
  <1>13. QED
    BY <1>12 DEF RemovalDone, treeVars

LEMMA RemovesStep ==
  ASSUME QueueTypeOK, JobTypeOK, RemovalInv, [Next]_vars
  PROVE  /\ gone' # gone => job.kind = "remove" /\ gone' \ gone \subseteq Doomed(job.top)
         /\ Pipe!Answer("operationFinished", job.id) \in ToSet(signals') \ ToSet(signals)
              => Inside[job.top] \subseteq gone
  <1>1. gone' # gone => job.kind = "remove" /\ gone' \ gone \subseteq Doomed(job.top)
    BY RemovalKeeps
  <1>2. ASSUME Pipe!Answer("operationFinished", job.id) \in ToSet(signals') \ ToSet(signals)
        PROVE  Inside[job.top] \subseteq gone
    <2>1. job.phase = "removing" /\ job.todo = <<>>
      BY <1>2, RemovalReported
    <2>2. ToSet(job.todo) = {}
      BY <2>1 DEF ToSet
    <2>3. QED
      BY <2>1, <2>2 DEF RemovalInv, AllCovered
  <1>3. QED
    BY <1>1, <1>2
-----------------------------------------------------------------------------
(***************************************************************************)
(* Copies.  What is copied, or to be copied, lies at a path of the tree;   *)
(* what a path of the tree leads to is still to be entered, or being       *)
(* written, or copied and whole.                                           *)
(***************************************************************************)
CopyKinds == {"download", "upload"}

CopiesOK ==
  /\ DOMAIN copied \subseteq CopyKinds \X Seq(Nodes)
  /\ \A copy \in DOMAIN copied :
       /\ IsPath(copy[2]) /\ Resolved(Last(copy[2])) # Nowhere
       /\ copied[copy] \in 0..Size[Resolved(Last(copy[2]))]
  /\ excused \subseteq DOMAIN copied

TodoOK ==
  job.phase = "copying" =>
    \A path \in ToSet(job.todo) : IsPath(path) /\ Head(path) = job.top

FileOK ==
  job.file # NoFile =>
    /\ job.file.point \in {"read", "check"}
    /\ IsPath(job.file.path) /\ Head(job.file.path) = job.top
    /\ Source(job.file.path) \in Files
    /\ Copy(job.file.path) \in DOMAIN copied \ excused

WalkOK == CopiesOK /\ TodoOK /\ FileOK

(* The first part of CopiesAreWhole. *)
OthersWhole ==
  \A copy \in DOMAIN copied :
    copy[1] = "download" /\ copy # Copy(job.file.path) => Whole(copy[1], copy[2])

AllWhole == \A copy \in DOMAIN copied : copy[1] = "download" => Whole(copy[1], copy[2])

Pending(path) == \E begun \in ToSet(job.todo) : Begins(begun, path)

Done(path) == Copy(path) \in DOMAIN copied /\ Whole(job.kind, path)

Visited ==
  job.phase = "copying" =>
    \A path \in Seq(Nodes) :
      IsPath(path) /\ Head(path) = job.top /\ Source(path) # Nowhere =>
        \/ Pending(path)
        \/ job.file # NoFile /\ path = job.file.path
        \/ Done(path)

WalkInv == WalkOK /\ OthersWhole /\ Visited

LEMMA SizeIs ==
  ASSUME NEW name \in Nodes, Resolved(name) # Nowhere
  PROVE  Resolved(name) \in Nodes /\ Size[Resolved(name)] \in Nat
  <1>1. Resolved(name) \in Nodes
    BY ResolvedIs DEF Nodes
  <1>2. QED
    BY <1>1, TreeAssumption

LEMMA PathIs ==
  ASSUME NEW path, IsPath(path)
  PROVE  path \in Seq(Nodes) /\ path # <<>> /\ Last(path) \in Nodes
  BY LastIs DEF IsPath

(* A copy whose record and excuse stay is as whole as it was. *)
LEMMA WholeSame ==
  ASSUME NEW kind, NEW path, Whole(kind, path),
         copied'[<<kind, path>>] = copied[<<kind, path>>],
         <<kind, path>> \in excused => <<kind, path>> \in excused'
  PROVE  Whole(kind, path)'
  BY DEF Whole

LEMMA CopyIs ==
  ASSUME CopiesOK, NEW copy \in DOMAIN copied
  PROVE  /\ copy = <<copy[1], copy[2]>> /\ copy[1] \in CopyKinds
         /\ IsPath(copy[2]) /\ copy[2] # <<>>
  BY PathIs DEF CopiesOK

LEMMA AllOrOthers ==
  ASSUME CopiesOK, job.file = NoFile
  PROVE  OthersWhole <=> AllWhole
  <1>1. \A copy \in DOMAIN copied : copy # Copy(job.file.path)
    BY CopyIs DEF Copy, NoFile
  <1>2. QED
    BY <1>1 DEF OthersWhole, AllWhole

(* Between two transfers. *)
LEMMA WalkRests ==
  ASSUME CopiesOK, AllWhole, job.phase # "copying", job.file = NoFile
  PROVE  WalkInv
  BY AllOrOthers DEF WalkInv, WalkOK, TodoOK, FileOK, Visited

LEMMA WalkEnded ==
  ASSUME CopiesOK', AllWhole', job'.phase # "copying", job'.file = NoFile
  PROVE  WalkInv'
  <1>1. \A copy \in DOMAIN copied' : copy # Copy(job.file.path)'
    <2>1. SUFFICES ASSUME NEW copy \in DOMAIN copied'
                   PROVE  copy[2] # <<>>
      BY DEF Copy, NoFile
    <2>2. IsPath(copy[2])
      BY DEF CopiesOK
    <2>3. QED
      BY <2>2 DEF IsPath
  <1>2. OthersWhole'
    BY <1>1 DEF OthersWhole, AllWhole
  <1>3. QED
    BY <1>2 DEF WalkInv, WalkOK, TodoOK, FileOK, Visited

LEMMA WithEmptyIs ==
  ASSUME CopiesOK, NEW path, IsPath(path), Source(path) \in Files \cup Dirs,
         job.kind \in CopyKinds, copied' = WithEmpty(path),
         excused' = excused \/ excused' = excused \ {Copy(path)}
  PROVE  /\ CopiesOK'
         /\ DOMAIN copied' = DOMAIN copied \cup {Copy(path)}
         /\ \A copy \in DOMAIN copied : copy # Copy(path) => copied'[copy] = copied[copy]
  <1>1. /\ DOMAIN copied' = DOMAIN copied \cup {Copy(path)}
        /\ copied'[Copy(path)] = 0
        /\ \A copy \in DOMAIN copied : copy # Copy(path) => copied'[copy] = copied[copy]
    BY DEF WithEmpty
  <1>2. path \in Seq(Nodes) /\ Last(path) \in Nodes
    BY PathIs
  <1>3. Resolved(Last(path)) # Nowhere
    BY StatIs, TreeAssumption DEF Source, Nodes
  <1>4. 0 \in 0..Size[Resolved(Last(path))]
    BY <1>2, <1>3, SizeIs
  <1>5. Copy(path) \in CopyKinds \X Seq(Nodes) /\ Copy(path)[2] = path
    BY <1>2 DEF Copy
  <1>6. DOMAIN copied' \subseteq CopyKinds \X Seq(Nodes)
    BY <1>1, <1>5 DEF CopiesOK
  <1>7. ASSUME NEW copy \in DOMAIN copied'
        PROVE  /\ IsPath(copy[2]) /\ Resolved(Last(copy[2])) # Nowhere
               /\ copied'[copy] \in 0..Size[Resolved(Last(copy[2]))]
    <2>1. CASE copy = Copy(path)
      BY <1>1, <1>3, <1>4, <1>5, <2>1
    <2>2. CASE copy # Copy(path)
      BY <1>1, <1>7, <2>2 DEF CopiesOK
    <2>3. QED
      BY <2>1, <2>2
  <1>8. excused' \subseteq DOMAIN copied'
    BY <1>1 DEF CopiesOK
  <1>9. QED
    BY <1>1, <1>6, <1>7, <1>8 DEF CopiesOK

LEMMA DiscardedIs ==
  ASSUME CopiesOK, FileOK, OthersWhole, job.file # NoFile, copied' = Discarded, excused' = excused
  PROVE  CopiesOK' /\ AllWhole'
  <1>1. /\ DOMAIN copied' \subseteq DOMAIN copied
        /\ \A copy \in DOMAIN copied' : copied'[copy] = copied[copy]
        /\ \A copy \in DOMAIN copied' : copy[1] = "download" => copy # Copy(job.file.path)
        /\ \A copy \in DOMAIN copied : copy # Copy(job.file.path) => copy \in DOMAIN copied'
    <2>1. CASE job.kind = "download"
      BY <2>1 DEF Discarded, Restrict
    <2>2. CASE job.kind # "download"
      BY <2>2 DEF Discarded, Copy
    <2>3. QED
      BY <2>1, <2>2
  <1>2. excused' \subseteq DOMAIN copied'
    BY <1>1 DEF CopiesOK, FileOK
  <1>3. CopiesOK'
    BY <1>1, <1>2 DEF CopiesOK
  <1>4. ASSUME NEW copy \in DOMAIN copied', copy[1] = "download"
        PROVE  Whole(copy[1], copy[2])'
    <2>1. Whole(copy[1], copy[2]) /\ copy \in DOMAIN copied /\ copied'[copy] = copied[copy]
      BY <1>1, <1>4 DEF OthersWhole
    <2>2. copy = <<copy[1], copy[2]>>
      BY <2>1, CopyIs
    <2>3. QED
      BY <2>1, <2>2, WholeSame
  <1>5. QED
    BY <1>3, <1>4 DEF AllWhole
(* Of a transfer that is being copied. *)
LEMMA CopyingIs ==
  ASSUME JobTypeOK, job.phase = "copying"
  PROVE  /\ job \in Transfers /\ job.kind \in CopyKinds /\ job.top \in Nodes
         /\ job.todo \in Seq(Seq(Nodes)) /\ Side(job.kind) \in {"local", "remote"}
  <1>1. job \in Transfers
    BY JobIs
  <1>2. QED
    BY <1>1, SideIs DEF Transfers, JobSet, CopyKinds

(* A step that goes on with the same entry leaves the sources where they are. *)
LEMMA SourceSame ==
  ASSUME gone' = gone, job'.kind = job.kind, NEW path
  PROVE  /\ Source(path)' = Source(path)
         /\ Copy(path)' = Copy(path)
  BY StatSame DEF Source, Copy

LEMMA StartCopyingWalks ==
  ASSUME QueueTypeOK, JobTypeOK, GoneOK, WalkInv, StartCopying
  PROVE  WalkInv'
  <1>1. job.phase = "sizing" /\ job \in Transfers /\ job.file = NoFile
    BY JobIs DEF StartCopying
  <1>2. /\ job'.phase = "copying" /\ job'.todo = <<Top>> /\ job'.top = job.top
        /\ job'.kind = job.kind /\ job'.file = NoFile
        /\ copied' = copied /\ excused' = excused /\ gone' = gone
    BY <1>1 DEF StartCopying, Transfers, JobSet, treeVars
  <1>3. job.top \in Nodes
    BY <1>1 DEF Transfers, JobSet
  <1>4. CopiesOK'
    BY <1>2 DEF WalkInv, WalkOK, CopiesOK
  <1>5. AllWhole'
    BY <1>1, <1>2, AllOrOthers DEF WalkInv, WalkOK, AllWhole, Whole
  <1>6. OthersWhole'
    BY <1>5 DEF OthersWhole, AllWhole
  <1>7. IsPath(Top) /\ Head(Top) = job.top /\ Len(Top) = 1
    <2>1. Top \in Seq(Nodes) /\ Top # <<>> /\ Len(Top) = 1 /\ Head(Top) = job.top
      BY <1>3 DEF Top
    <2>2. \A i \in 1..(Len(Top) - 1) : FALSE
      BY <2>1
    <2>3. QED
      BY <2>1, <2>2 DEF IsPath
  <1>8. ToSet(job'.todo) = {Top}
    BY <1>2 DEF ToSet
  <1>9. TodoOK'
    BY <1>2, <1>7, <1>8 DEF TodoOK
  <1>10. FileOK'
    BY <1>2 DEF FileOK
  <1>11. ASSUME NEW path \in Seq(Nodes), IsPath(path), Head(path) = job.top
         PROVE  Begins(Top, path)
    <2>1. Len(path) \in Nat \ {0} /\ Head(path) = path[1]
      BY <1>11, LastIs DEF IsPath
    <2>2. Top[1] = job.top
      BY DEF Top
    <2>3. QED
      BY <1>7, <1>11, <2>1, <2>2 DEF Begins
  <1>12. Visited'
    BY <1>2, <1>8, <1>11 DEF Visited, Pending
  <1>13. QED
    BY <1>4, <1>6, <1>9, <1>10, <1>12 DEF WalkInv, WalkOK

(* What is at the head of a walk, and what lies behind it. *)
LEMMA WalkHead ==
  ASSUME JobTypeOK, WalkInv, AtEntry
  PROVE  /\ IsPath(Head(job.todo)) /\ Head(Head(job.todo)) = job.top
         /\ \A path \in ToSet(Tail(job.todo)) : IsPath(path) /\ Head(path) = job.top
         /\ \A path \in Seq(Nodes) :
              IsPath(path) /\ Head(path) = job.top /\ Source(path) # Nowhere =>
                \/ Begins(Head(job.todo), path)
                \/ \E begun \in ToSet(Tail(job.todo)) : Begins(begun, path)
                \/ Done(path)
  BY AtEntryIs DEF WalkInv, WalkOK, TodoOK, Visited, Pending

(* Making an empty copy leaves the others whole, and the entries done. *)
LEMMA OthersKept ==
  ASSUME CopiesOK, AllWhole, NEW path, job'.kind = job.kind,
         DOMAIN copied' = DOMAIN copied \cup {Copy(path)},
         \A copy \in DOMAIN copied : copy # Copy(path) => copied'[copy] = copied[copy],
         excused' = excused \/ excused' = excused \ {Copy(path)}
  PROVE  /\ \A copy \in DOMAIN copied' :
              copy[1] = "download" /\ copy # Copy(path) => Whole(copy[1], copy[2])'
         /\ \A p \in Seq(Nodes) :
              Done(p) /\ p # path => Done(p)'
  <1>1. ASSUME NEW copy \in DOMAIN copied', copy[1] = "download", copy # Copy(path)
        PROVE  Whole(copy[1], copy[2])'
    <2>1. copy \in DOMAIN copied /\ copied'[copy] = copied[copy]
      BY <1>1
    <2>2. copy = <<copy[1], copy[2]>> /\ Whole(copy[1], copy[2])
      BY <1>1, <2>1, CopyIs DEF AllWhole
    <2>3. copy \in excused => copy \in excused'
      BY <1>1
    <2>4. QED
      BY <2>1, <2>2, <2>3, WholeSame
  <1>2. ASSUME NEW p \in Seq(Nodes), Done(p), p # path
        PROVE  Done(p)'
    <2>1. Copy(p) \in DOMAIN copied /\ Whole(job.kind, p)
      BY <1>2 DEF Done
    <2>2. Copy(p) # Copy(path) /\ Copy(p) = <<job.kind, p>>
      BY <1>2 DEF Copy
    <2>3. copied'[<<job.kind, p>>] = copied[<<job.kind, p>>]
      BY <2>1, <2>2
    <2>4. <<job.kind, p>> \in excused => <<job.kind, p>> \in excused'
      BY <2>2
    <2>5. Whole(job.kind, p)'
      BY <2>1, <2>3, <2>4 DEF Whole
    <2>6. QED
      BY <2>1, <2>5 DEF Done, Copy
  <1>3. QED
    BY <1>1, <1>2
LEMMA EnterDirectoryWalks ==
  ASSUME QueueTypeOK, JobTypeOK, GoneOK, WalkInv, EnterDirectory
  PROVE  WalkInv'
  <1>0. PICK path : path = Head(job.todo)
    OBVIOUS
  <1> DEFINE side == Side(job.kind)
             list == Listing(side, path)
             rest == Tail(job.todo)
             dir  == Stat(side, path)
  <1>1. /\ AtEntry /\ dir \in Dirs /\ copied' = WithEmpty(path) /\ excused' = excused
        /\ job' = [job EXCEPT !.todo = list \o rest] /\ gone' = gone
    BY <1>0 DEF EnterDirectory, Source
  <1>2. /\ job \in Transfers /\ job.phase = "copying" /\ job.file = NoFile
        /\ path \in Seq(Nodes) /\ rest \in Seq(Seq(Nodes))
    BY <1>0, <1>1, AtEntryIs
  <1>3. job.kind \in CopyKinds /\ side \in {"local", "remote"}
    BY <1>2, CopyingIs
  <1>4. /\ job'.todo = list \o rest /\ job'.kind = job.kind /\ job'.top = job.top
        /\ job'.file = NoFile /\ job'.phase = "copying"
    BY <1>1, <1>2 DEF Transfers, JobSet
  <1>5. /\ IsPath(path) /\ Head(path) = job.top
        /\ \A p \in ToSet(rest) : IsPath(p) /\ Head(p) = job.top
        /\ \A p \in Seq(Nodes) :
             IsPath(p) /\ Head(p) = job.top /\ Source(p) # Nowhere =>
               \/ Begins(path, p)
               \/ \E begun \in ToSet(rest) : Begins(begun, p)
               \/ Done(p)
    BY <1>0, <1>1, WalkHead
  <1>6. /\ list \in Seq(Seq(Nodes))
        /\ \A r : r \in ToSet(list) <=>
             \E e \in ToSet(Entries[dir]) : r = Append(path, e) /\ IsListed(side, path, e)
    BY <1>1, <1>2, <1>3, ListingIs
  <1>7. ToSet(list \o rest) = ToSet(list) \cup ToSet(rest)
    <2> HIDE DEF list, rest
    <2>1. QED
      BY <1>2, <1>6, ToSetOfConcat
  <1>8. dir = Resolved(Last(path)) /\ dir # Nowhere
    BY <1>1, StatIs, TreeAssumption DEF Nodes
  <1>9. Source(path) = dir
    BY DEF Source
  <1> HIDE DEF side, list, rest, dir
  <1>10. /\ CopiesOK'
         /\ DOMAIN copied' = DOMAIN copied \cup {Copy(path)}
         /\ \A copy \in DOMAIN copied : copy # Copy(path) => copied'[copy] = copied[copy]
    BY <1>1, <1>3, <1>5, <1>9, WithEmptyIs DEF WalkInv, WalkOK
  <1>11. CopiesOK /\ AllWhole
    BY <1>2, AllOrOthers DEF WalkInv, WalkOK
  <1>12. /\ \A copy \in DOMAIN copied' :
              copy[1] = "download" /\ copy # Copy(path) => Whole(copy[1], copy[2])'
         /\ \A p \in Seq(Nodes) : Done(p) /\ p # path => Done(p)'
    BY <1>1, <1>4, <1>10, <1>11, OthersKept
  <1>13. Whole(job.kind, path)'
    BY <1>1, <1>8 DEF Whole
  <1>14. Done(path)'
    BY <1>4, <1>10, <1>13 DEF Done, Copy
  <1>15. OthersWhole'
    <2>1. SUFFICES ASSUME NEW copy \in DOMAIN copied', copy[1] = "download"
                   PROVE  Whole(copy[1], copy[2])'
      BY DEF OthersWhole
    <2>2. CASE copy # Copy(path)
      BY <1>12, <2>1, <2>2
    <2>3. CASE copy = Copy(path)
      <3>1. copy[2] = path
        BY <2>3 DEF Copy
      <3>2. QED
        BY <1>1, <1>8, <3>1 DEF Whole
    <2>4. QED
      BY <2>2, <2>3
  <1>16. \A e \in ToSet(Entries[dir]) : IsStep(Last(path), e)
    BY <1>1, <1>8 DEF IsStep
  <1>17. TodoOK'
    <2>1. SUFFICES ASSUME NEW r \in ToSet(list)
                   PROVE  IsPath(r) /\ Head(r) = job.top
      BY <1>4, <1>5, <1>7 DEF TodoOK
    <2>2. PICK e \in ToSet(Entries[dir]) : r = Append(path, e)
      BY <1>6
    <2>3. IsStep(Last(path), e)
      BY <1>16
    <2>4. QED
      BY <1>5, <2>2, <2>3, PathGrows
  <1>18. ASSUME NEW p \in Seq(Nodes), IsPath(p), Head(p) = job.top, Source(p) # Nowhere,
                Begins(path, p), p # path
         PROVE  \E begun \in ToSet(list) : Begins(begun, p)
    <2> DEFINE e    == p[Len(path) + 1]
               next == Append(path, e)
    <2>1. IsStep(Last(path), e) /\ Begins(next, p)
      BY <1>5, <1>18, PathGoesOn
    <2>2. e \in ToSet(Entries[dir])
      BY <1>8, <2>1 DEF IsStep
    <2> HIDE DEF e
    <2>3. IsPath(next) /\ Last(next) = e /\ e \in Nodes
      BY <1>5, <2>1, PathGrows
    <2>4. Stat(side, p) # Nowhere
      BY <1>18 DEF Source, side
    <2> HIDE DEF next
    <2>5. Stat(side, next) # Nowhere
      BY <1>18, <2>1, <2>3, <2>4, WayIsThere DEF GoneOK
    <2>6. e \in ToSet(next)
      <3>1. ToSet(Append(path, e)) = ToSet(path) \cup {e}
        BY <1>2, <2>3, ToSetOfAppend
      <3>2. QED
        BY <3>1 DEF next
    <2>7. IsListed(side, path, e)
      <3>1. side = "remote" => e \notin gone
        BY <2>5, <2>6 DEF Stat
      <3>2. Stat(side, Append(path, e)) # Nowhere
        BY <2>5 DEF next
      <3>3. QED
        BY <3>1, <3>2 DEF IsListed
    <2>8. next \in ToSet(list)
      BY <1>6, <2>2, <2>7 DEF next
    <2>9. QED
      BY <2>1, <2>8
  <1>19. Visited'
    <2>1. SUFFICES ASSUME NEW p \in Seq(Nodes), IsPath(p), Head(p) = job.top, Source(p) # Nowhere
                   PROVE  (\E begun \in ToSet(list) \cup ToSet(rest) : Begins(begun, p)) \/ Done(p)'
      BY <1>1, <1>4, <1>7, SourceSame DEF Visited, Pending
    <2>2. CASE p = path
      BY <1>14, <2>2
    <2>3. CASE p # path
      <3>1. \/ Begins(path, p)
            \/ \E begun \in ToSet(rest) : Begins(begun, p)
            \/ Done(p)
        BY <1>5, <2>1
      <3>2. QED
        BY <1>12, <1>18, <2>1, <2>3, <3>1
    <2>4. QED
      BY <2>2, <2>3
  <1>20. FileOK'
    BY <1>4 DEF FileOK
  <1>21. QED
    BY <1>10, <1>15, <1>17, <1>19, <1>20 DEF WalkInv, WalkOK

LEMMA OpenFileWalks ==
  ASSUME QueueTypeOK, JobTypeOK, GoneOK, WalkInv, OpenFile
  PROVE  WalkInv'
  <1>0. PICK path : path = Head(job.todo)
    OBVIOUS
  <1> DEFINE rest  == Tail(job.todo)
             point == IF backend = "Sftp" THEN "check" ELSE "read"
             file  == [path |-> path, point |-> point]
  <1>1. /\ AtEntry /\ Source(path) \in Files /\ copied' = WithEmpty(path)
        /\ excused' = excused \ {Copy(path)} /\ gone' = gone
        /\ job' = [job EXCEPT !.todo = rest, !.opened = @ \cup {path}, !.file = file]
    BY <1>0 DEF OpenFile
  <1>2. /\ job \in Transfers /\ job.phase = "copying" /\ job.file = NoFile
        /\ path \in Seq(Nodes) /\ rest \in Seq(Seq(Nodes))
    BY <1>0, <1>1, AtEntryIs
  <1>3. job.kind \in CopyKinds
    BY <1>2, CopyingIs
  <1>4. /\ job'.todo = rest /\ job'.kind = job.kind /\ job'.top = job.top
        /\ job'.file = file /\ job'.phase = "copying"
    BY <1>1, <1>2 DEF Transfers, JobSet
  <1>5. file.path = path /\ file.point \in {"read", "check"}
    OBVIOUS
  <1>6. file # NoFile
    BY <1>5 DEF NoFile
  <1>7. /\ IsPath(path) /\ Head(path) = job.top
        /\ \A p \in ToSet(rest) : IsPath(p) /\ Head(p) = job.top
        /\ \A p \in Seq(Nodes) :
             IsPath(p) /\ Head(p) = job.top /\ Source(p) # Nowhere =>
               \/ Begins(path, p)
               \/ \E begun \in ToSet(rest) : Begins(begun, p)
               \/ Done(p)
    BY <1>0, <1>1, WalkHead
  <1>8. Source(path) = Resolved(Last(path))
    BY <1>1, StatIs, TreeAssumption DEF Source, Nodes
  <1> HIDE DEF rest, point, file
  <1>9. /\ CopiesOK'
        /\ DOMAIN copied' = DOMAIN copied \cup {Copy(path)}
        /\ \A copy \in DOMAIN copied : copy # Copy(path) => copied'[copy] = copied[copy]
    BY <1>1, <1>3, <1>7, WithEmptyIs DEF WalkInv, WalkOK
  <1>10. CopiesOK /\ AllWhole
    BY <1>2, AllOrOthers DEF WalkInv, WalkOK
  <1>11. /\ \A copy \in DOMAIN copied' :
              copy[1] = "download" /\ copy # Copy(path) => Whole(copy[1], copy[2])'
         /\ \A p \in Seq(Nodes) : Done(p) /\ p # path => Done(p)'
    BY <1>1, <1>4, <1>9, <1>10, OthersKept
  <1>12. Copy(path)' = Copy(path) /\ Source(path)' = Source(path)
    BY <1>1, <1>4 DEF Copy, Source, Stat
  <1>13. Copy(job.file.path)' = Copy(path) /\ Source(job.file.path)' = Source(path)
    BY <1>1, <1>4, <1>5 DEF Copy, Source, Stat
  <1>14. OthersWhole'
    BY <1>11, <1>13 DEF OthersWhole
  <1>15. TodoOK'
    BY <1>4, <1>7 DEF TodoOK
  <1>16. FileOK'
    BY <1>1, <1>4, <1>5, <1>7, <1>9, <1>13 DEF FileOK
  <1>17. ASSUME NEW p \in Seq(Nodes), IsPath(p), Begins(path, p)
         PROVE  p = path
    <2>1. SUFFICES ASSUME p # path PROVE FALSE
      OBVIOUS
    <2>2. IsStep(Last(path), p[Len(path) + 1])
      BY <1>7, <1>17, <2>1, PathGoesOn
    <2>3. QED
      BY <1>1, <1>8, <2>2, TreeAssumption DEF IsStep
  <1>18. Visited'
    <2>1. SUFFICES ASSUME NEW p \in Seq(Nodes), IsPath(p), Head(p) = job.top, Source(p) # Nowhere
                   PROVE  (\E begun \in ToSet(rest) : Begins(begun, p)) \/ p = path \/ Done(p)'
      BY <1>1, <1>4, <1>5, <1>6, SourceSame DEF Visited, Pending
    <2>2. QED
      BY <1>7, <1>11, <1>17, <2>1
  <1>19. QED
    BY <1>9, <1>14, <1>15, <1>16, <1>18 DEF WalkInv, WalkOK
(* The file that is being written, and its copy. *)
LEMMA FileIs ==
  ASSUME JobTypeOK, WalkInv, AtRead \/ AtCheck
  PROVE  /\ job \in Transfers /\ job.phase = "copying" /\ job.file # NoFile
         /\ IsPath(job.file.path) /\ Head(job.file.path) = job.top
         /\ Source(job.file.path) = Resolved(Last(job.file.path))
         /\ Source(job.file.path) \in Files
         /\ Size[Source(job.file.path)] \in Nat
         /\ Copy(job.file.path) \in DOMAIN copied \ excused
         /\ Copy(job.file.path)[2] = job.file.path
         /\ Chunks \in 0..Size[Source(job.file.path)]
  <1>1. job \in Transfers /\ job.phase = "copying" /\ job.file # NoFile
    BY AtFile
  <1>2. /\ IsPath(job.file.path) /\ Head(job.file.path) = job.top
        /\ Source(job.file.path) \in Files
        /\ Copy(job.file.path) \in DOMAIN copied \ excused
    BY <1>1 DEF WalkInv, WalkOK, FileOK
  <1>3. Source(job.file.path) = Resolved(Last(job.file.path))
    BY <1>2, StatIs, TreeAssumption DEF Source, Nodes
  <1>4. Size[Source(job.file.path)] \in Nat
    BY <1>2, TreeAssumption DEF Nodes
  <1>5. Copy(job.file.path)[2] = job.file.path
    BY DEF Copy
  <1>6. Chunks \in 0..Size[Source(job.file.path)]
    BY <1>2, <1>3, <1>5 DEF WalkInv, WalkOK, CopiesOK, Chunks
  <1>7. QED
    BY <1>1, <1>2, <1>3, <1>4, <1>5, <1>6

(* A step within the file that touches at most its own copy. *)
LEMMA FileGoesOn ==
  ASSUME QueueTypeOK, JobTypeOK, WalkInv, AtRead \/ AtCheck,
         gone' = gone, excused' = excused,
         job'.kind = job.kind, job'.top = job.top, job'.todo = job.todo, job'.phase = job.phase,
         job'.file.path = job.file.path, job'.file.point \in {"read", "check"},
         DOMAIN copied' = DOMAIN copied,
         \A copy \in DOMAIN copied : copy # Copy(job.file.path) => copied'[copy] = copied[copy],
         copied'[Copy(job.file.path)] \in 0..Size[Source(job.file.path)]
  PROVE  WalkInv'
  <1>0. PICK path : path = job.file.path
    OBVIOUS
  <1>1. /\ job.phase = "copying" /\ IsPath(path) /\ Head(path) = job.top
        /\ Source(path) = Resolved(Last(path)) /\ Source(path) \in Files
        /\ Copy(path) \in DOMAIN copied \ excused /\ Copy(path)[2] = path
        /\ job.file # NoFile
    BY <1>0, FileIs
  <1>2. job'.file # NoFile
    BY <1>0, <1>1 DEF NoFile, IsPath
  <1>3. /\ \A p : Copy(p)' = Copy(p) /\ Source(p)' = Source(p)
        /\ Copy(job.file.path)' = Copy(path) /\ Source(job.file.path)' = Source(path)
    BY <1>0, StatSame DEF Copy, Source, Stat
  <1>4. CopiesOK'
    <2>1. ASSUME NEW copy \in DOMAIN copied
          PROVE  /\ IsPath(copy[2]) /\ Resolved(Last(copy[2])) # Nowhere
                 /\ copied'[copy] \in 0..Size[Resolved(Last(copy[2]))]
      <3>1. CASE copy = Copy(path)
        BY <1>0, <1>1, <2>1, <3>1 DEF WalkInv, WalkOK, CopiesOK
      <3>2. CASE copy # Copy(path)
        BY <1>0, <2>1, <3>2 DEF WalkInv, WalkOK, CopiesOK
      <3>3. QED
        BY <3>1, <3>2
    <2>2. QED
      BY <2>1 DEF WalkInv, WalkOK, CopiesOK
  <1>5. TodoOK'
    BY DEF WalkInv, WalkOK, TodoOK
  <1>6. FileOK'
    BY <1>0, <1>1, <1>3 DEF FileOK
  <1>7. OthersWhole'
    <2>1. SUFFICES ASSUME NEW copy \in DOMAIN copied, copy[1] = "download", copy # Copy(path)
                   PROVE  Whole(copy[1], copy[2])'
      BY <1>3 DEF OthersWhole
    <2>2. /\ Whole(copy[1], copy[2]) /\ copy = <<copy[1], copy[2]>>
      BY <1>0, <2>1, CopyIs DEF WalkInv, WalkOK, OthersWhole
    <2>3. QED
      BY <1>0, <2>1, <2>2, WholeSame
  <1>8. Visited'
    <2>1. SUFFICES ASSUME NEW p \in Seq(Nodes), IsPath(p), Head(p) = job.top, Source(p) # Nowhere
                   PROVE  \/ \E begun \in ToSet(job.todo) : Begins(begun, p)
                          \/ p = path
                          \/ Done(p)'
      BY <1>0, <1>2, <1>3 DEF Visited, Pending
    <2>2. \/ \E begun \in ToSet(job.todo) : Begins(begun, p)
          \/ p = path
          \/ Done(p)
      BY <1>0, <1>1, <2>1 DEF WalkInv, Visited, Pending
    <2>3. ASSUME Done(p), p # path PROVE Done(p)'
      <3>1. Copy(p) # Copy(path) /\ Copy(p) \in DOMAIN copied /\ Copy(p) = <<job.kind, p>>
        BY <2>3 DEF Done, Copy
      <3>2. copied'[<<job.kind, p>>] = copied[<<job.kind, p>>]
        BY <1>0, <3>1
      <3>3. Whole(job.kind, p)'
        BY <2>3, <3>2 DEF Done, Whole
      <3>4. QED
        BY <1>3, <3>1, <3>3 DEF Done
    <2>4. QED
      BY <2>2, <2>3
  <1>9. QED
    BY <1>4, <1>5, <1>6, <1>7, <1>8 DEF WalkInv, WalkOK

LEMMA CheckFileWalks ==
  ASSUME QueueTypeOK, JobTypeOK, WalkInv, CheckFile
  PROVE  WalkInv'
  <1>1. /\ AtCheck /\ job' = [job EXCEPT !.file.point = "read"]
        /\ copied' = copied /\ gone' = gone /\ excused' = excused
    BY DEF CheckFile, treeVars
  <1>2. job \in Transfers /\ Chunks \in 0..Size[Source(job.file.path)]
    BY <1>1, FileIs
  <1>3. /\ job'.kind = job.kind /\ job'.top = job.top /\ job'.todo = job.todo
        /\ job'.phase = job.phase /\ job'.file.path = job.file.path /\ job'.file.point = "read"
    BY <1>1, <1>2 DEF Transfers, JobSet
  <1>4. QED
    BY <1>1, <1>2, <1>3, FileGoesOn DEF Chunks

LEMMA ReadChunkWalks ==
  ASSUME QueueTypeOK, JobTypeOK, WalkInv, ReadChunk
  PROVE  WalkInv'
  <1> DEFINE copy == Copy(job.file.path)
             size == Size[Source(job.file.path)]
  <1>1. /\ AtRead /\ Chunks # size /\ gone' = gone /\ excused' = excused
        /\ copied' = [copied EXCEPT ![copy] = @ + 1]
    BY DEF ReadChunk, AtEnd
  <1>2. /\ job \in Transfers /\ Chunks \in 0..size /\ size \in Nat
        /\ copy \in DOMAIN copied
    BY <1>1, FileIs
  <1>3. /\ job'.kind = job.kind /\ job'.top = job.top /\ job'.todo = job.todo
        /\ job'.phase = job.phase /\ job'.file.path = job.file.path /\ job'.file.point = "check"
    BY <1>2 DEF ReadChunk, Transfers, JobSet
  <1>4. Chunks = copied[copy]
    BY DEF Chunks
  <1> HIDE DEF copy, size
  <1>5. /\ DOMAIN copied' = DOMAIN copied
        /\ \A c \in DOMAIN copied : c # copy => copied'[c] = copied[c]
        /\ copied'[copy] = Chunks + 1
    BY <1>1, <1>2, <1>4
  <1>6. Chunks + 1 \in 0..size
    BY <1>1, <1>2
  <1>7. QED
    BY <1>1, <1>3, <1>5, <1>6, FileGoesOn DEF copy, size

(* A file is left behind, whole or excused. *)
LEMMA EndFileWalks ==
  ASSUME QueueTypeOK, JobTypeOK, WalkInv, EndFile \/ EndFileEarly
  PROVE  WalkInv'
  <1>0. PICK path : path = job.file.path
    OBVIOUS
  <1>1. /\ AtRead /\ job' = [job EXCEPT !.file = NoFile] /\ gone' = gone /\ copied' = copied
        /\ \/ AtEnd /\ excused' = excused
           \/ excused' = excused \cup {Copy(path)}
    BY <1>0 DEF EndFile, EndFileEarly, treeVars
  <1>2. /\ job \in Transfers /\ job.phase = "copying" /\ IsPath(path)
        /\ Source(path) = Resolved(Last(path))
        /\ Copy(path) \in DOMAIN copied /\ Copy(path) = <<job.kind, path>>
    BY <1>0, <1>1, FileIs DEF Copy
  <1>3. /\ job'.kind = job.kind /\ job'.top = job.top /\ job'.todo = job.todo
        /\ job'.phase = job.phase /\ job'.file = NoFile
    BY <1>1, <1>2 DEF Transfers, JobSet
  <1>4. excused \subseteq excused' /\ excused' \subseteq excused \cup {Copy(path)}
    BY <1>1
  <1>5. Whole(job.kind, path)'
    <2>1. CASE AtEnd
      BY <1>0, <1>1, <1>2, <1>3, <2>1 DEF AtEnd, Chunks, Whole
    <2>2. CASE excused' = excused \cup {Copy(path)}
      BY <1>2, <1>3, <2>2 DEF Whole
    <2>3. QED
      BY <1>1, <2>1, <2>2
  <1>6. CopiesOK'
    BY <1>1, <1>2, <1>4 DEF WalkInv, WalkOK, CopiesOK
  <1>7. \A kind, p : Whole(kind, p) => Whole(kind, p)'
    BY <1>1, <1>4 DEF Whole
  <1>8. OthersWhole'
    <2>1. SUFFICES ASSUME NEW copy \in DOMAIN copied, copy[1] = "download"
                   PROVE  Whole(copy[1], copy[2])'
      BY <1>1 DEF OthersWhole
    <2>2. CASE copy = Copy(path)
      <3>1. copy[1] = job.kind /\ copy[2] = path
        BY <1>2, <2>2
      <3>2. QED
        BY <1>3, <1>5, <3>1
    <2>3. CASE copy # Copy(path)
      BY <1>0, <1>7, <2>1, <2>3 DEF WalkInv, OthersWhole
    <2>4. QED
      BY <2>2, <2>3
  <1>9. TodoOK'
    BY <1>3 DEF WalkInv, WalkOK, TodoOK
  <1>10. FileOK'
    BY <1>3 DEF FileOK
  <1>11. \A p : Copy(p)' = Copy(p) /\ Source(p)' = Source(p)
    BY <1>1, <1>3, StatSame DEF Copy, Source
  <1>12. \A p : Done(p) => Done(p)'
    BY <1>1, <1>3, <1>7, <1>11 DEF Done
  <1>13. Done(path)'
    BY <1>1, <1>2, <1>5, <1>11 DEF Done
  <1>14. Visited'
    <2>1. SUFFICES ASSUME NEW p \in Seq(Nodes), IsPath(p), Head(p) = job.top, Source(p) # Nowhere
                   PROVE  (\E begun \in ToSet(job.todo) : Begins(begun, p)) \/ Done(p)'
      BY <1>3, <1>11 DEF Visited, Pending
    <2>2. \/ \E begun \in ToSet(job.todo) : Begins(begun, p)
          \/ p = path
          \/ Done(p)
      BY <1>0, <1>2, <2>1 DEF WalkInv, Visited, Pending
    <2>3. QED
      BY <1>12, <1>13, <2>2
  <1>15. QED
    BY <1>6, <1>8, <1>9, <1>10, <1>14 DEF WalkInv, WalkOK
(* A transfer ends with what it was writing discarded. *)
LEMMA BrokenOffWalks ==
  ASSUME QueueTypeOK, JobTypeOK, WalkInv, AtRead \/ AtCheck, job' = NoJob,
         copied' = Discarded, excused' = excused
  PROVE  WalkInv'
  <1>1. CopiesOK' /\ AllWhole'
    BY FileIs, DiscardedIs DEF WalkInv, WalkOK
  <1>2. QED
    BY <1>1, WalkEnded DEF NoJob

LEMMA FlushFailsWalks ==
  ASSUME QueueTypeOK, JobTypeOK, WalkInv, FlushFails
  PROVE  WalkInv'
  <1>0. PICK path : path = job.file.path
    OBVIOUS
  <1>1. PICK flushed \in 0..Chunks :
          /\ copied' = [copied EXCEPT ![Copy(path)] = flushed]
          /\ excused' = excused \cup {Copy(path)} /\ AtRead /\ job' = NoJob
    BY <1>0 DEF FlushFails, Fail, End
  <1>2. /\ Source(path) = Resolved(Last(path)) /\ Size[Source(path)] \in Nat
        /\ Copy(path) \in DOMAIN copied /\ Copy(path)[2] = path
        /\ Chunks \in 0..Size[Source(path)]
    BY <1>0, <1>1, FileIs
  <1>3. flushed \in 0..Size[Source(path)]
    BY <1>2
  <1>4. /\ DOMAIN copied' = DOMAIN copied /\ copied'[Copy(path)] = flushed
        /\ \A copy \in DOMAIN copied : copy # Copy(path) => copied'[copy] = copied[copy]
    BY <1>1, <1>2
  <1>5. CopiesOK'
    <2>1. ASSUME NEW copy \in DOMAIN copied
          PROVE  /\ IsPath(copy[2]) /\ Resolved(Last(copy[2])) # Nowhere
                 /\ copied'[copy] \in 0..Size[Resolved(Last(copy[2]))]
      <3>1. CASE copy = Copy(path)
        BY <1>2, <1>3, <1>4, <2>1, <3>1 DEF WalkInv, WalkOK, CopiesOK
      <3>2. CASE copy # Copy(path)
        BY <1>4, <2>1, <3>2 DEF WalkInv, WalkOK, CopiesOK
      <3>3. QED
        BY <3>1, <3>2
    <2>2. QED
      BY <1>1, <1>2, <1>4, <2>1 DEF WalkInv, WalkOK, CopiesOK
  <1>6. AllWhole'
    <2>1. SUFFICES ASSUME NEW copy \in DOMAIN copied, copy[1] = "download"
                   PROVE  Whole(copy[1], copy[2])'
      BY <1>4 DEF AllWhole
    <2>2. copy = <<copy[1], copy[2]>>
      BY CopyIs DEF WalkInv, WalkOK
    <2>3. CASE copy = Copy(path)
      BY <1>1, <2>2, <2>3 DEF Whole
    <2>4. CASE copy # Copy(path)
      <3>1. Whole(copy[1], copy[2])
        BY <1>0, <2>1, <2>4 DEF WalkInv, OthersWhole
      <3>2. QED
        BY <1>1, <1>4, <2>2, <2>4, <3>1, WholeSame
    <2>5. QED
      BY <2>3, <2>4
  <1>7. QED
    BY <1>1, <1>5, <1>6, WalkEnded DEF NoJob

LEMMA EntryFailsWalks ==
  ASSUME QueueTypeOK, JobTypeOK, WalkInv, EntryFails
  PROVE  WalkInv'
  <1>0. PICK path : path = Head(job.todo)
    OBVIOUS
  <1>1. /\ AtEntry /\ job' = NoJob /\ excused' = excused
        /\ copied' = copied \/ (Source(path) \in Dirs /\ copied' = WithEmpty(path))
    BY <1>0 DEF EntryFails, Fail, End
  <1>2. job.phase = "copying" /\ job.file = NoFile
    BY <1>1, AtEntryIs
  <1>3. CopiesOK /\ AllWhole
    BY <1>2, AllOrOthers DEF WalkInv, WalkOK
  <1>4. CASE copied' = copied
    <2>1. CopiesOK' /\ AllWhole'
      BY <1>1, <1>3, <1>4 DEF CopiesOK, AllWhole, Whole
    <2>2. QED
      BY <1>1, <2>1, WalkEnded DEF NoJob
  <1>5. CASE Source(path) \in Dirs /\ copied' = WithEmpty(path)
    <2>1. IsPath(path)
      BY <1>0, <1>1, WalkHead
    <2>2. job.kind \in CopyKinds
      BY <1>2, CopyingIs
    <2>3. /\ CopiesOK' /\ DOMAIN copied' = DOMAIN copied \cup {Copy(path)}
          /\ \A copy \in DOMAIN copied : copy # Copy(path) => copied'[copy] = copied[copy]
      BY <1>1, <1>3, <1>5, <2>1, <2>2, WithEmptyIs
    <2>4. Resolved(Last(path)) \in Dirs
      BY <1>5, StatIs, TreeAssumption DEF Source, Nodes
    <2>5. AllWhole'
      <3>1. SUFFICES ASSUME NEW copy \in DOMAIN copied', copy[1] = "download"
                     PROVE  Whole(copy[1], copy[2])'
        BY DEF AllWhole
      <3>2. CASE copy = Copy(path)
        <4>1. copy[2] = path
          BY <3>2 DEF Copy
        <4>2. QED
          BY <2>4, <4>1 DEF Whole
      <3>3. CASE copy # Copy(path)
        <4>1. copy \in DOMAIN copied /\ copied'[copy] = copied[copy]
          BY <2>3, <3>3
        <4>2. copy = <<copy[1], copy[2]>> /\ Whole(copy[1], copy[2])
          BY <1>3, <3>1, <4>1, CopyIs DEF AllWhole
        <4>3. QED
          BY <1>1, <4>1, <4>2, WholeSame
      <3>4. QED
        BY <3>2, <3>3
    <2>6. QED
      BY <1>1, <2>3, <2>5, WalkEnded DEF NoJob
  <1>6. QED
    BY <1>1, <1>4, <1>5

(* Which steps matter to the copies. *)
LEMMA WalkStepIs ==
  ASSUME QueueTypeOK, JobTypeOK, [Next]_vars
  PROVE  \/ /\ UNCHANGED <<copied, excused>>
            /\ \/ job' = job /\ gone' = gone
               \/ job.file = NoFile /\ job'.phase # "copying"
         \/ StartCopying \/ EnterDirectory \/ OpenFile \/ CheckFile \/ ReadChunk
         \/ EndFile \/ EndFileEarly
         \/ EntryFails \/ ReadFails \/ FlushFails \/ NoticeCancel
  <1>1. CASE RefuseRemoval \/ Shutdown \/ UNCHANGED vars
    BY <1>1 DEF RefuseRemoval, Shutdown, treeVars, vars
  <1>2. CASE GuiStep
    BY <1>2, GuiTyped DEF treeVars
  <1>3. CASE TakeRemoval \/ TakeTransfer
    BY <1>3 DEF TakeRemoval, TakeTransfer, Takes, NoJob, Began, treeVars
  <1>4. CASE RemovalFails \/ RemovalDone \/ SizingFails
    <2>1. job.file = NoFile
      BY <1>4, JobIs DEF RemovalFails, RemovalDone, SizingFails
    <2>2. QED
      BY <1>4, <2>1 DEF RemovalFails, RemovalDone, SizingFails, Fail, End, NoJob, treeVars
  <1>5. CASE Finish
    BY <1>5 DEF Finish, NothingLeft, End, NoJob, treeVars
  <1>6. CASE EnterRemoved \/ RemoveOne
    <2>1. job.phase = "removing" /\ job \in Removals /\ job.file = NoFile
      BY <1>6, JobIs DEF EnterRemoved, RemoveOne, Removing
    <2>2. CASE EnterRemoved
      BY <2>1, <2>2 DEF EnterRemoved, Removals, JobSet, treeVars
    <2>3. CASE RemoveOne
      BY <2>1, <2>3 DEF RemoveOne, Removals, JobSet
    <2>4. QED
      BY <1>6, <2>2, <2>3
  <1>7. QED
    BY <1>1, <1>2, <1>3, <1>4, <1>5, <1>6 DEF Next, WorkerStep

LEMMA WalkKeeps ==
  ASSUME QueueTypeOK, JobTypeOK, JobTypeOK', GoneOK, WalkInv, [Next]_vars
  PROVE  WalkInv'
  <1>1. CASE UNCHANGED <<copied, excused, job, gone>>
    <2>1. WalkOK'
      BY <1>1, StatSame DEF WalkInv, WalkOK, CopiesOK, TodoOK, FileOK, Source, Copy
    <2>2. OthersWhole'
      BY <1>1 DEF WalkInv, OthersWhole, Whole, Copy
    <2>3. Visited'
      BY <1>1, StatSame DEF WalkInv, Visited, Pending, Done, Whole, Source, Copy
    <2>4. QED
      BY <2>1, <2>2, <2>3 DEF WalkInv
  <1>2. CASE UNCHANGED <<copied, excused>> /\ job.file = NoFile /\ job'.phase # "copying"
    <2>1. CopiesOK /\ AllWhole
      BY <1>2, AllOrOthers DEF WalkInv, WalkOK
    <2>2. CopiesOK' /\ AllWhole'
      BY <1>2, <2>1 DEF CopiesOK, AllWhole, Whole
    <2>3. job'.file = NoFile
      BY <1>2 DEF JobTypeOK
    <2>4. QED
      BY <1>2, <2>2, <2>3, WalkEnded
  <1>3. CASE ReadFails
    BY <1>3, BrokenOffWalks DEF ReadFails, Fail, End
  <1>4. CASE NoticeCancel
    <2>1. job' = NoJob /\ excused' = excused
      BY <1>4 DEF NoticeCancel, End
    <2>2. CASE AtEntry /\ copied' = copied
      <3>1. CopiesOK /\ AllWhole
        BY <2>2, AtEntryIs, AllOrOthers DEF WalkInv, WalkOK
      <3>2. CopiesOK' /\ AllWhole'
        BY <2>1, <2>2, <3>1 DEF CopiesOK, AllWhole, Whole
      <3>3. QED
        BY <2>1, <3>2, WalkEnded DEF NoJob
    <2>3. CASE AtCheck /\ copied' = Discarded
      BY <2>1, <2>3, BrokenOffWalks
    <2>4. QED
      BY <1>4, <2>2, <2>3 DEF NoticeCancel
  <1>5. QED
    BY <1>1, <1>2, <1>3, <1>4, WalkStepIs, StartCopyingWalks, EnterDirectoryWalks, OpenFileWalks,
       CheckFileWalks, ReadChunkWalks, EndFileWalks, EntryFailsWalks, FlushFailsWalks

LEMMA WalkShows ==
  ASSUME JobTypeOK, GoneOK, WalkInv
  PROVE  CopiesTypeOK /\ CopiesAreWhole
  <1>1. CopiesTypeOK
    BY DEF GoneOK, WalkInv, WalkOK, CopiesOK, FileOK, CopiesTypeOK, CopyKinds
  <1>2. ASSUME NothingLeft
        PROVE  \A p \in Seq(Nodes) : IsPath(p) /\ Head(p) = job.top /\ Source(p) # Nowhere => Done(p)
    <2>1. ToSet(job.todo) = {} /\ job.phase = "copying" /\ job.file = NoFile
      BY <1>2 DEF NothingLeft, ToSet
    <2>2. QED
      BY <2>1 DEF WalkInv, Visited, Pending
  <1>3. ASSUME NothingLeft,
               NEW path \in {Top} \cup {copy[2] : copy \in DOMAIN copied},
               Head(path) = job.top, Source(path) # Nowhere
        PROVE  /\ Copy(path) \in DOMAIN copied
               /\ Whole(job.kind, path)
               /\ Source(path) \in Dirs =>
                    \A entry \in ToSet(Entries[Source(path)]) :
                      LET sub == Append(path, entry)
                      IN  Source(sub) # Nowhere => Copy(sub) \in DOMAIN copied
    <2>1. job.top \in Nodes
      BY <1>3, CopyingIs DEF NothingLeft
    <2>2. IsPath(Top)
      <3>1. Top \in Seq(Nodes) /\ Top # <<>> /\ Len(Top) = 1
        BY <2>1 DEF Top
      <3>2. \A i \in 1..(Len(Top) - 1) : FALSE
        BY <3>1
      <3>3. QED
        BY <3>1, <3>2 DEF IsPath
    <2>3. IsPath(path)
      BY <1>3, <2>2 DEF WalkInv, WalkOK, CopiesOK
    <2>4. path \in Seq(Nodes)
      BY <2>3 DEF IsPath
    <2>5. Done(path)
      BY <1>2, <1>3, <2>3, <2>4
    <2>6. ASSUME Source(path) \in Dirs, NEW entry \in ToSet(Entries[Source(path)]),
                 Source(Append(path, entry)) # Nowhere
          PROVE  Copy(Append(path, entry)) \in DOMAIN copied
      <3>1. Source(path) = Resolved(Last(path))
        BY <1>3, StatIs DEF Source
      <3>2. IsStep(Last(path), entry)
        BY <2>6, <3>1 DEF IsStep
      <3>3. IsPath(Append(path, entry)) /\ Head(Append(path, entry)) = job.top
        BY <1>3, <2>3, <3>2, PathGrows
      <3>4. Append(path, entry) \in Seq(Nodes)
        BY <3>3 DEF IsPath
      <3>5. Done(Append(path, entry))
        BY <1>2, <1>3, <2>6, <3>3, <3>4
      <3>6. QED
        BY <3>5 DEF Done
    <2>7. QED
      BY <2>5, <2>6 DEF Done
  <1>4. CopiesAreWhole
    BY <1>3 DEF WalkInv, OthersWhole, CopiesAreWhole
  <1>5. QED
    BY <1>1, <1>4

-----------------------------------------------------------------------------
(***************************************************************************)
(* Together.                                                               *)
(***************************************************************************)
IInv == QueueTypeOK /\ JobTypeOK /\ AnswerInv /\ RemovalInv /\ WalkInv

LEMMA InitHolds ==
  ASSUME Init
  PROVE  IInv
  <1>1. job = NoJob /\ job.phase = "idle" /\ job.file = NoFile /\ job.late = 0
    BY DEF Init, NoJob
  <1>2. QueueTypeOK /\ JobTypeOK
    BY <1>1 DEF Init, QueueTypeOK, JobTypeOK
  <1>3. AnswerInv
    BY <1>1 DEF Init, AnswerInv, AllExpected, ShutdownIsLast, NoticesNext
  <1>4. RemovalInv
    BY <1>1 DEF Init, RemovalInv, GoneOK, GoneClosed, TasksOK, AllCovered
  <1>5. WalkInv
    <2>1. DOMAIN copied = {} /\ excused = {}
      BY DEF Init
    <2>2. CopiesOK /\ AllWhole
      BY <2>1 DEF CopiesOK, AllWhole
    <2>3. QED
      BY <1>1, <2>2, WalkRests
  <1>6. QED
    BY <1>2, <1>3, <1>4, <1>5 DEF IInv

LEMMA NextKeeps ==
  ASSUME IInv, [Next]_vars
  PROVE  IInv'
  <1>1. QueueTypeOK' /\ JobTypeOK'
    BY RequestsTyped DEF IInv
  <1>2. AnswerInv'
    <2>1. CASE WorkerStep
      BY <2>1, WorkerAnswers DEF IInv
    <2>2. CASE GuiStep
      BY <2>2, GuiAnswers DEF IInv
    <2>3. CASE UNCHANGED vars
      BY <2>3 DEF IInv, AnswerInv, AllExpected, Expected, ShutdownIsLast, NoticesNext,
                  Cancelled, AtCheck, vars
    <2>4. QED
      BY <2>1, <2>2, <2>3 DEF Next
  <1>3. RemovalInv'
    BY RemovalKeeps DEF IInv
  <1>4. WalkInv'
    BY <1>1, WalkKeeps DEF IInv, RemovalInv
  <1>5. QED
    BY <1>1, <1>2, <1>3, <1>4 DEF IInv

(* The invariant of the walks: the queue and its answers, removals, copies. *)
THEOREM Invariance == Spec => []IInv
  <1>1. Init => IInv
    BY InitHolds
  <1>2. IInv /\ [Next]_vars => IInv'
    BY NextKeeps
  <1>3. QED
    BY <1>1, <1>2, PTL DEF Spec

(***************************************************************************)
(* Every state is well typed, whatever the tree and its links: no copy is  *)
(* larger than what it is a copy of, a thread that has ended has answered  *)
(* all that was asked of it, and a cancelled transfer moves at most one    *)
(* more chunk (SftpSession.hpp:40).                                        *)
(***************************************************************************)
THEOREM TypeCorrect == Spec => []TypeOK
  <1>1. IInv => TypeOK
    BY AnswerInvShows, WalkShows DEF IInv, RemovalInv, TypeOK
  <1>2. QED
    BY <1>1, Invariance, PTL

(***************************************************************************)
(* A transfer that is about to be reported as finished has copied every    *)
(* entry of the tree, also through links, and every file whole; no part of *)
(* a file is left on the local side (SftpSession.cpp:516, 644).            *)
(***************************************************************************)
THEOREM CopiesAreWholeCorrect == Spec => []CopiesAreWhole
  <1>1. IInv => CopiesAreWhole
    BY WalkShows DEF IInv, RemovalInv
  <1>2. QED
    BY <1>1, Invariance, PTL

(***************************************************************************)
(* A removal takes nothing outside of the entry that was asked for, as no  *)
(* link is followed on the way, and reports success only when all in it is *)
(* gone (SftpSession.cpp:361).                                             *)
(***************************************************************************)
THEOREM RemovesOnlyInsideCorrect == Spec => RemovesOnlyInside
  <1>1. IInv /\ [Next]_vars =>
          [/\ gone' # gone => job.kind = "remove" /\ gone' \ gone \subseteq Doomed(job.top)
           /\ Pipe!Answer("operationFinished", job.id) \in ToSet(signals') \ ToSet(signals)
                => Inside[job.top] \subseteq gone]_vars
    BY RemovesStep DEF IInv
  <1>2. QED
    BY <1>1, Invariance, PTL DEF Spec, RemovesOnlyInside

-----------------------------------------------------------------------------
(***************************************************************************)
(* Progress.  No path is listed twice, nor one behind another that is also *)
(* still to be entered: so each file is opened once.                       *)
(***************************************************************************)
Distinct(s) == \A i, j \in 1..Len(s) : s[i] = s[j] => i = j

LEMMA AppendDistinct ==
  ASSUME NEW P, NEW s \in Seq(P), NEW x \in P, Distinct(s), x \notin ToSet(s)
  PROVE  Distinct(Append(s, x))
  <1>1. /\ Len(s) \in Nat /\ DOMAIN s = 1..Len(s) /\ Len(Append(s, x)) = Len(s) + 1
        /\ \A i \in 1..Len(s) : Append(s, x)[i] = s[i]
        /\ Append(s, x)[Len(s) + 1] = x
    OBVIOUS
  <1>2. \A i \in 1..Len(s) : s[i] # x
    BY <1>1 DEF ToSet
  <1>3. \A i \in 1..(Len(s) + 1) : i \in 1..Len(s) \/ i = Len(s) + 1
    BY <1>1
  <1>4. QED
    BY <1>1, <1>2, <1>3 DEF Distinct

LEMMA AmongDistinct ==
  ASSUME NEW P, NEW s \in Seq(P), NEW set, Distinct(s)
  PROVE  Distinct(Among(s, set))
  <1>0. Len(s) \in Nat /\ DOMAIN s = 1..Len(s) /\ \A i \in 1..Len(s) : s[i] \in P
    OBVIOUS
  <1>1. PICK kept \in [0..Len(s) -> Seq(P)] :
          AmongRows(s, set, kept) /\ Among(s, set) = kept[Len(s)]
    BY AmongTable
  <1> DEFINE S == {n \in Nat : n <= Len(s) =>
                     Distinct(kept[n]) /\ ToSet(kept[n]) \subseteq {s[i] : i \in 1..n}}
  <1>2. 0 \in S
    <2>1. kept[0] = <<>>
      BY <1>1 DEF AmongRows
    <2>2. Distinct(<<>>) /\ ToSet(<<>>) = {}
      BY DEF Distinct, ToSet
    <2>3. QED
      BY <2>1, <2>2
  <1>3. ASSUME NEW n \in Nat, n \in S
        PROVE  n + 1 \in S
    <2> SUFFICES ASSUME n + 1 <= Len(s)
                 PROVE  /\ Distinct(kept[n + 1])
                        /\ ToSet(kept[n + 1]) \subseteq {s[i] : i \in 1..(n + 1)}
      OBVIOUS
    <2>1. n + 1 \in 1..Len(s) /\ n \in 0..Len(s) /\ n <= Len(s)
      BY <1>0
    <2>2. /\ kept[n] \in Seq(P) /\ Distinct(kept[n])
          /\ ToSet(kept[n]) \subseteq {s[i] : i \in 1..n}
      BY <1>3, <2>1
    <2>3. kept[n + 1] = IF s[n + 1] \in set THEN Append(kept[n], s[n + 1]) ELSE kept[n]
      BY <1>1, <2>1 DEF AmongRows
    <2>4. {s[i] : i \in 1..n} \cup {s[n + 1]} \subseteq {s[i] : i \in 1..(n + 1)}
      OBVIOUS
    <2>5. s[n + 1] \notin {s[i] : i \in 1..n}
      <3>1. ASSUME NEW i \in 1..n PROVE s[i] # s[n + 1]
        <4>1. i \in 1..Len(s) /\ i # n + 1
          BY <1>0, <2>1
        <4>2. QED
          BY <2>1, <4>1 DEF Distinct
      <3>2. QED
        BY <3>1
    <2>6. ToSet(Append(kept[n], s[n + 1])) = ToSet(kept[n]) \cup {s[n + 1]}
      BY <2>2, ToSetOfAppend
    <2>7. Distinct(Append(kept[n], s[n + 1]))
      <3>1. s[n + 1] \notin ToSet(kept[n]) /\ s[n + 1] \in P
        BY <1>0, <2>1, <2>2, <2>5
      <3>2. QED
        BY <2>2, <3>1, AppendDistinct
    <2>8. QED
      BY <2>2, <2>3, <2>4, <2>6, <2>7
  <1>4. Len(s) \in S
    <2> HIDE DEF S
    <2>1. QED
      BY <1>0, <1>2, <1>3, Induct
  <1>5. QED
    BY <1>0, <1>1, <1>4

LEMMA ConcatDistinct ==
  ASSUME NEW P, NEW s \in Seq(P), NEW t \in Seq(P), Distinct(s), Distinct(t),
         ToSet(s) \cap ToSet(t) = {}
  PROVE  Distinct(s \o t)
  <1>1. /\ Len(s) \in Nat /\ Len(t) \in Nat /\ Len(s \o t) = Len(s) + Len(t)
        /\ DOMAIN s = 1..Len(s) /\ DOMAIN t = 1..Len(t)
    OBVIOUS
  <1>2. SUFFICES ASSUME NEW i \in 1..Len(s \o t), NEW j \in 1..Len(s \o t), (s \o t)[i] = (s \o t)[j]
                 PROVE  i = j
    BY DEF Distinct
  <1>3. \A k \in 1..Len(s \o t) :
          \/ k \in 1..Len(s) /\ (s \o t)[k] = s[k]
          \/ k - Len(s) \in 1..Len(t) /\ (s \o t)[k] = t[k - Len(s)]
    BY <1>1
  <1>4. \A k \in 1..Len(s), l \in 1..Len(t) : s[k] # t[l]
    BY <1>1 DEF ToSet
  <1>5. CASE i \in 1..Len(s) /\ (s \o t)[i] = s[i]
    BY <1>2, <1>3, <1>4, <1>5 DEF Distinct
  <1>6. CASE i - Len(s) \in 1..Len(t) /\ (s \o t)[i] = t[i - Len(s)]
    <2>1. j - Len(s) \in 1..Len(t) /\ (s \o t)[j] = t[j - Len(s)]
      BY <1>2, <1>3, <1>4, <1>6
    <2>2. i - Len(s) = j - Len(s)
      BY <1>2, <1>6, <2>1 DEF Distinct
    <2>3. QED
      BY <1>1, <2>2
  <1>7. QED
    BY <1>3, <1>5, <1>6

LEMMA ListingDistinct ==
  ASSUME NEW side \in {"local", "remote"}, NEW q \in Seq(Nodes),
         NEW d \in Dirs, Stat(side, q) = d
  PROVE  Distinct(Listing(side, q))
  <1> DEFINE paths == [i \in DOMAIN Entries[d] |-> Append(q, Entries[d][i])]
             here  == {p \in ToSet(paths) : Last(p) \notin gone}
             dirs  == {p \in here : Stat(side, p) \in Dirs}
             found == {p \in ToSet(paths) : Stat("local", p) # Nowhere}
             rest  == here \ dirs
  <1>1. Entries[d] \in Seq(Nodes)
    BY EntriesAre
  <1>2. PICK n \in Nat : DOMAIN Entries[d] = 1..n /\ n = Len(Entries[d])
    BY <1>1
  <1>3. \A i \in 1..n : Entries[d][i] \in Nodes /\ Append(q, Entries[d][i]) \in Seq(Nodes)
    BY <1>1, <1>2
  <1>4. paths \in Seq(Seq(Nodes)) /\ Len(paths) = n
    <2>1. paths \in [1..n -> Seq(Nodes)]
      BY <1>2, <1>3
    <2> HIDE DEF paths
    <2>2. QED
      BY <2>1
  <1>5. Distinct(paths)
    <2>1. SUFFICES ASSUME NEW i \in 1..n, NEW j \in 1..n, paths[i] = paths[j]
                   PROVE  i = j
      <3> HIDE DEF paths
      <3>1. QED
        BY <1>4 DEF Distinct
    <2>2. paths[i] = Append(q, Entries[d][i]) /\ paths[j] = Append(q, Entries[d][j])
      BY <1>2
    <2>3. Last(Append(q, Entries[d][i])) = Entries[d][i] /\ Last(Append(q, Entries[d][j])) = Entries[d][j]
      BY <1>3, AppendIs
    <2>4. Entries[d][i] = Entries[d][j]
      <3> HIDE DEF paths
      <3>1. QED
        BY <2>1, <2>2, <2>3
    <2>5. QED
      BY <1>2, <2>4, ForestAssumption
  <1>6. Listing(side, q) = IF side = "local" THEN Among(paths, found)
                           ELSE Among(paths, dirs) \o Among(paths, here \ dirs)
    BY DEF Listing
  <1>7. dirs \cap rest = {}
    OBVIOUS
  <1> HIDE DEF paths, found, dirs, here, rest
  <1>8. Distinct(Among(paths, found))
    BY <1>4, <1>5, AmongDistinct
  <1>9. Distinct(Among(paths, dirs) \o Among(paths, rest))
    <2>1. Distinct(Among(paths, dirs)) /\ Distinct(Among(paths, rest))
      BY <1>4, <1>5, AmongDistinct
    <2>2. /\ Among(paths, dirs) \in Seq(Seq(Nodes)) /\ Among(paths, rest) \in Seq(Seq(Nodes))
          /\ ToSet(Among(paths, dirs)) \cap ToSet(Among(paths, rest)) = {}
      BY <1>4, <1>7, AmongIs
    <2>3. QED
      BY <2>1, <2>2, ConcatDistinct
  <1>10. QED
    BY <1>6, <1>8, <1>9 DEF rest

Apart(todo) == \A i, j \in 1..Len(todo) : i # j => ~Begins(todo[i], todo[j])

LEMMA BeginsEntry ==
  ASSUME NEW q \in Seq(Nodes), NEW e \in Nodes, NEW r \in Seq(Nodes)
  PROVE  /\ Begins(q, q)
         /\ Begins(Append(q, e), r) => Begins(q, r)
         /\ Begins(r, Append(q, e)) => Begins(r, q) \/ Begins(q, r)
         /\ \A f \in Nodes : Begins(Append(q, e), Append(q, f)) => e = f
  <1>1. /\ Len(q) \in Nat /\ Len(r) \in Nat
        /\ \A f \in Nodes : /\ Len(Append(q, f)) = Len(q) + 1
                            /\ \A i \in 1..Len(q) : Append(q, f)[i] = q[i]
                            /\ Append(q, f)[Len(q) + 1] = f
    OBVIOUS
  <1>2. Begins(q, q)
    BY <1>1 DEF Begins
  <1>3. ASSUME Begins(Append(q, e), r) PROVE Begins(q, r)
    <2>1. \A i \in 1..Len(q) : i \in 1..(Len(q) + 1)
      BY <1>1
    <2>2. QED
      BY <1>1, <1>3, <2>1 DEF Begins
  <1>4. ASSUME Begins(r, Append(q, e)) PROVE Begins(r, q) \/ Begins(q, r)
    <2>1. CASE Len(r) <= Len(q)
      <3>1. \A i \in 1..Len(r) : i \in 1..Len(q)
        BY <1>1, <2>1
      <3>2. QED
        BY <1>1, <1>4, <2>1, <3>1 DEF Begins
    <2>2. CASE ~(Len(r) <= Len(q))
      <3>1. Len(q) <= Len(r) /\ \A i \in 1..Len(q) : i \in 1..Len(r)
        BY <1>1, <2>2
      <3>2. QED
        BY <1>1, <1>4, <3>1 DEF Begins
    <2>3. QED
      BY <2>1, <2>2
  <1>5. ASSUME NEW f \in Nodes, Begins(Append(q, e), Append(q, f)) PROVE e = f
    <2>1. Len(q) + 1 \in 1..(Len(q) + 1)
      BY <1>1
    <2>2. QED
      BY <1>1, <1>5, <2>1 DEF Begins
  <1>6. QED
    BY <1>2, <1>3, <1>4, <1>5

LEMMA TailApart ==
  ASSUME NEW todo \in Seq(Seq(Nodes)), todo # <<>>, Apart(todo)
  PROVE  /\ Apart(Tail(todo))
         /\ \A k \in 1..Len(Tail(todo)) :
              ~Begins(Head(todo), Tail(todo)[k]) /\ ~Begins(Tail(todo)[k], Head(todo))
  <1>1. /\ Len(todo) \in Nat \ {0} /\ Head(todo) = todo[1] /\ Len(Tail(todo)) = Len(todo) - 1
        /\ \A k \in 1..(Len(todo) - 1) : Tail(todo)[k] = todo[k + 1]
    OBVIOUS
  <1>2. \A k \in 1..(Len(todo) - 1) : k + 1 \in 1..Len(todo) /\ k + 1 # 1
    BY <1>1
  <1>3. 1 \in 1..Len(todo)
    BY <1>1
  <1>4. \A k, l \in 1..(Len(todo) - 1) : k # l => k + 1 # l + 1
    OBVIOUS
  <1>5. QED
    BY <1>1, <1>2, <1>3, <1>4 DEF Apart

(* The entries of a directory take its place in a list. *)
LEMMA EntriesApart ==
  ASSUME NEW todo \in Seq(Seq(Nodes)), todo # <<>>, Apart(todo),
         NEW list \in Seq(Seq(Nodes)), Distinct(list),
         \A r \in ToSet(list) : \E e \in Nodes : r = Append(Head(todo), e)
  PROVE  Apart(list \o Tail(todo))
  <1> DEFINE path == Head(todo)
             rest == Tail(todo)
             both == list \o rest
  <1>1. /\ path \in Seq(Nodes) /\ rest \in Seq(Seq(Nodes)) /\ Len(list) \in Nat
        /\ Len(rest) \in Nat /\ Len(both) = Len(list) + Len(rest)
        /\ \A k \in 1..Len(rest) : rest[k] \in Seq(Nodes)
    OBVIOUS
  <1>2. Apart(rest) /\ \A k \in 1..Len(rest) : ~Begins(path, rest[k]) /\ ~Begins(rest[k], path)
    BY TailApart
  <1>3. \A k \in 1..Len(both) :
          \/ k \in 1..Len(list) /\ both[k] = list[k]
          \/ k - Len(list) \in 1..Len(rest) /\ both[k] = rest[k - Len(list)]
    BY <1>1
  <1>4. \A k \in 1..Len(list) : \E e \in Nodes : list[k] = Append(path, e)
    <2>1. \A k \in 1..Len(list) : list[k] \in ToSet(list)
      BY DEF ToSet
    <2>2. QED
      BY <2>1
  <1> HIDE DEF path, rest, both
  <1>5. SUFFICES ASSUME NEW i \in 1..Len(both), NEW j \in 1..Len(both), i # j,
                        Begins(both[i], both[j])
                 PROVE  FALSE
    BY DEF Apart, both, rest
  <1>6. CASE i \in 1..Len(list) /\ both[i] = list[i]
    <2>1. PICK e \in Nodes : both[i] = Append(path, e)
      BY <1>4, <1>6
    <2>2. CASE j \in 1..Len(list) /\ both[j] = list[j]
      <3>1. PICK f \in Nodes : both[j] = Append(path, f)
        BY <1>4, <2>2
      <3>2. e = f
        BY <1>1, <1>5, <2>1, <3>1, BeginsEntry
      <3>3. list[i] = list[j]
        BY <1>6, <2>1, <2>2, <3>1, <3>2
      <3>4. QED
        BY <1>5, <1>6, <2>2, <3>3 DEF Distinct
    <2>3. CASE j - Len(list) \in 1..Len(rest) /\ both[j] = rest[j - Len(list)]
      <3>1. Begins(path, both[j])
        BY <1>1, <1>5, <2>1, <2>3, BeginsEntry
      <3>2. QED
        BY <1>2, <2>3, <3>1
    <2>4. QED
      BY <1>3, <2>2, <2>3
  <1>7. CASE i - Len(list) \in 1..Len(rest) /\ both[i] = rest[i - Len(list)]
    <2>1. ~Begins(path, both[i]) /\ ~Begins(both[i], path) /\ both[i] \in Seq(Nodes)
      BY <1>1, <1>2, <1>7
    <2>2. CASE j \in 1..Len(list) /\ both[j] = list[j]
      <3>1. PICK f \in Nodes : both[j] = Append(path, f)
        BY <1>4, <2>2
      <3>2. QED
        BY <1>1, <1>5, <2>1, <3>1, BeginsEntry
    <2>3. CASE j - Len(list) \in 1..Len(rest) /\ both[j] = rest[j - Len(list)]
      <3>1. i - Len(list) # j - Len(list)
        BY <1>1, <1>5
      <3>2. QED
        BY <1>2, <1>5, <1>7, <2>3, <3>1 DEF Apart
    <2>4. QED
      BY <1>3, <2>2, <2>3
  <1>8. QED
    BY <1>3, <1>6, <1>7

(***************************************************************************)
(* What is moved lies in the files that were opened; a path that must not  *)
(* be passed over is still to be entered, or was opened.                   *)
(***************************************************************************)
TotalKnown == Source(Top) # Nowhere /\ job.total = TreeSize(Side(job.kind), job.top)

EachOnce ==
  /\ Apart(job.todo)
  /\ \A o \in job.opened : \A begun \in ToSet(job.todo) : ~Begins(begun, o)

OpenedOK ==
  /\ IsFiniteSet(job.opened)
  /\ \A o \in job.opened :
       /\ IsPath(o) /\ Head(o) = job.top /\ Source(o) \in Files
       /\ Copy(o) \in DOMAIN copied
  /\ job.file # NoFile => job.file.path \in job.opened

Chunked == [path \in job.opened |-> copied[Copy(path)]]

MovedIs == job.moved = TotalOf(Chunked)

(* A remote link that leads nowhere is never passed. *)
Due(p) ==
  /\ IsPath(p) /\ Head(p) = job.top
  /\ \/ Source(p) \in Files
     \/ Side(job.kind) = "remote" /\ Source(p) = Nowhere /\ ToSet(p) \cap gone = {}

Met == \A p \in Seq(Nodes) : Due(p) => Pending(p) \/ p \in job.opened

CopyingInv == TotalKnown /\ EachOnce /\ OpenedOK /\ MovedIs /\ Met

ProgressInv ==
  /\ job.phase = "sizing" => job.moved = 0 /\ job.opened = {}
  /\ job.phase = "copying" => CopyingInv

LEMMA ChunkedIs ==
  ASSUME CopiesOK, OpenedOK
  PROVE  Chunked \in [job.opened -> Nat]
  <1>1. ASSUME NEW o \in job.opened PROVE copied[Copy(o)] \in Nat
    <2>1. Copy(o) \in DOMAIN copied
      BY DEF OpenedOK
    <2>2. /\ IsPath(Copy(o)[2]) /\ Resolved(Last(Copy(o)[2])) # Nowhere
          /\ copied[Copy(o)] \in 0..Size[Resolved(Last(Copy(o)[2]))]
      BY <2>1 DEF CopiesOK
    <2>3. Size[Resolved(Last(Copy(o)[2]))] \in Nat
      BY <2>2, PathIs, SizeIs
    <2>4. QED
      BY <2>2, <2>3
  <1>2. QED
    BY <1>1 DEF Chunked

LEMMA StartCopyingMeets ==
  ASSUME JobTypeOK, ProgressInv, StartCopying
  PROVE  ProgressInv'
  <1>1. job.phase = "sizing" /\ job \in Transfers /\ job.file = NoFile
    BY JobIs DEF StartCopying
  <1>2. /\ job'.phase = "copying" /\ job'.todo = <<Top>> /\ job'.top = job.top
        /\ job'.kind = job.kind /\ job'.file = NoFile /\ gone' = gone
        /\ job'.moved = job.moved /\ job'.opened = job.opened
        /\ job'.total = TreeSize(Side(job.kind), job.top)
        /\ Stat(Side(job.kind), Top) # Nowhere
    BY <1>1 DEF StartCopying, Transfers, JobSet, treeVars
  <1>3. job.top \in Nodes /\ job'.moved = 0 /\ job'.opened = {}
    BY <1>1, <1>2 DEF Transfers, JobSet, ProgressInv
  <1>4. Top' = Top /\ Side(job.kind)' = Side(job.kind)
    BY <1>2 DEF Top, Side
  <1>5. TotalKnown'
    <2>1. Source(Top)' = Stat(Side(job.kind), Top)
      BY <1>2, <1>4, StatSame DEF Source
    <2>2. TreeSize(Side(job.kind), job.top)' = TreeSize(Side(job.kind), job.top)
      BY <1>2, <1>4 DEF TreeSize, Weight, Stat
    <2>3. QED
      BY <1>2, <2>1, <2>2 DEF TotalKnown
  <1>6. EachOnce'
    <2>1. Len(<<Top>>) = 1
      OBVIOUS
    <2>2. QED
      BY <1>2, <1>3, <2>1 DEF EachOnce, Apart
  <1>7. OpenedOK' /\ Chunked' \in [{} -> Nat]
    BY <1>2, <1>3, FS_EmptySet DEF OpenedOK, Chunked
  <1>8. MovedIs'
    <2>1. TotalOf(Chunked)' = TotalOf(Chunked')
      OBVIOUS
    <2>2. QED
      BY <1>3, <1>7, <2>1, FS_EmptySet, TotalIs DEF MovedIs
  <1>9. Met'
    <2>1. SUFFICES ASSUME NEW p \in Seq(Nodes), IsPath(p), Head(p) = job.top
                   PROVE  \E begun \in ToSet(job'.todo) : Begins(begun, p)
      BY <1>2 DEF Met, Due, Pending
    <2>2. Top \in ToSet(job'.todo)
      BY <1>2 DEF ToSet
    <2>3. Len(p) \in Nat \ {0} /\ Head(p) = p[1]
      BY <2>1, LastIs DEF IsPath
    <2>4. Len(Top) = 1 /\ Top[1] = job.top
      BY DEF Top
    <2>5. Begins(Top, p)
      BY <2>1, <2>3, <2>4 DEF Begins
    <2>6. QED
      BY <2>2, <2>5
  <1>10. QED
    BY <1>2, <1>5, <1>6, <1>7, <1>8, <1>9 DEF ProgressInv, CopyingInv

(* What is not gone, or is somewhere, is listed on the way to it. *)
LEMMA ListingCovers ==
  ASSUME GoneClosed, NEW side \in {"local", "remote"},
         NEW q, IsPath(q), Stat(side, q) \in Dirs,
         NEW p, IsPath(p), Begins(q, p), q # p,
         Stat(side, p) # Nowhere \/ (side = "remote" /\ ToSet(p) \cap gone = {})
  PROVE  \E begun \in ToSet(Listing(side, q)) : Begins(begun, p)
  <1> DEFINE e    == p[Len(q) + 1]
             next == Append(q, e)
             d    == Stat(side, q)
  <1>1. /\ IsStep(Last(q), e) /\ Begins(next, p) /\ Len(q) < Len(p)
    BY PathGoesOn
  <1>2. d = Resolved(Last(q))
    BY StatIs, TreeAssumption DEF Nodes
  <1>3. e \in ToSet(Entries[d])
    BY <1>1, <1>2 DEF IsStep
  <1>4. q \in Seq(Nodes) /\ p \in Seq(Nodes)
    BY DEF IsPath
  <1>5. e \in ToSet(p)
    <2>1. Len(q) + 1 \in DOMAIN p
      BY <1>1, <1>4
    <2>2. QED
      BY <2>1 DEF ToSet
  <1> HIDE DEF e, d
  <1>6. IsPath(next) /\ Last(next) = e /\ e \in Nodes
    BY <1>1, PathGrows
  <1>7. IsListed(side, q, e)
    <2>1. CASE Stat(side, p) # Nowhere
      <3>1. Stat(side, next) # Nowhere
        BY <1>1, <1>6, <2>1, WayIsThere
      <3>2. side = "remote" => e \notin gone
        BY <1>5, <2>1 DEF Stat
      <3>3. QED
        BY <3>1, <3>2 DEF IsListed
    <2>2. CASE side = "remote" /\ ToSet(p) \cap gone = {}
      BY <1>5, <2>2 DEF IsListed
    <2>3. QED
      BY <2>1, <2>2
  <1>8. next \in ToSet(Listing(side, q))
    BY <1>3, <1>4, <1>7, ListingIs DEF d
  <1>9. QED
    BY <1>1, <1>8

(* A path is due while its walk goes on. *)
LEMMA DueSame ==
  ASSUME gone' = gone, job'.kind = job.kind, job'.top = job.top
  PROVE  /\ \A p : Due(p)' <=> Due(p)
         /\ TotalKnown /\ job'.total = job.total => TotalKnown'
  <1>1. /\ \A p : Source(p)' = Source(p)
        /\ Side(job.kind)' = Side(job.kind) /\ Top' = Top
    BY SourceSame DEF Side, Top
  <1>2. TreeSize(Side(job.kind), job.top)' = TreeSize(Side(job.kind), job.top)
    BY <1>1 DEF TreeSize, Weight, Stat
  <1>3. \A p : Due(p)' <=> Due(p)
    BY <1>1 DEF Due
  <1>4. QED
    BY <1>1, <1>2, <1>3 DEF TotalKnown

LEMMA EnterDirectoryMeets ==
  ASSUME QueueTypeOK, JobTypeOK, GoneOK, WalkInv, ProgressInv, EnterDirectory
  PROVE  ProgressInv'
  <1>0. PICK path : path = Head(job.todo)
    OBVIOUS
  <1> DEFINE side == Side(job.kind)
             list == Listing(side, path)
             rest == Tail(job.todo)
             dir  == Stat(side, path)
  <1>1. /\ AtEntry /\ dir \in Dirs /\ copied' = WithEmpty(path)
        /\ job' = [job EXCEPT !.todo = list \o rest] /\ gone' = gone
    BY <1>0 DEF EnterDirectory, Source
  <1>2. /\ job \in Transfers /\ job.phase = "copying" /\ job.file = NoFile
        /\ path \in Seq(Nodes) /\ rest \in Seq(Seq(Nodes))
        /\ job.todo \in Seq(Seq(Nodes)) /\ job.todo # <<>>
        /\ ToSet(job.todo) = {path} \cup ToSet(rest)
    BY <1>0, <1>1, AtEntryIs
  <1>3. side \in {"local", "remote"}
    BY <1>2, CopyingIs
  <1>4. /\ job'.todo = list \o rest /\ job'.kind = job.kind /\ job'.top = job.top
        /\ job'.file = NoFile /\ job'.phase = "copying" /\ job'.opened = job.opened
        /\ job'.moved = job.moved /\ job'.total = job.total
    BY <1>1, <1>2 DEF Transfers, JobSet
  <1>5. /\ IsPath(path) /\ TotalKnown /\ Apart(job.todo) /\ OpenedOK /\ MovedIs /\ Met
        /\ \A o \in job.opened : ~Begins(path, o) /\ \A begun \in ToSet(rest) : ~Begins(begun, o)
    BY <1>0, <1>1, <1>2, WalkHead DEF ProgressInv, CopyingInv, EachOnce
  <1>6. /\ list \in Seq(Seq(Nodes)) /\ Distinct(list)
        /\ \A r \in ToSet(list) : \E e \in Nodes : r = Append(path, e)
    <2>1. ToSet(Entries[dir]) \subseteq Nodes
      BY <1>1, EntriesAre
    <2>2. Distinct(list)
      BY <1>1, <1>2, <1>3, ListingDistinct
    <2>3. /\ list \in Seq(Seq(Nodes))
          /\ \A r \in ToSet(list) : \E e \in ToSet(Entries[dir]) : r = Append(path, e)
      BY <1>1, <1>2, <1>3, ListingIs
    <2>4. QED
      BY <2>1, <2>2, <2>3
  <1>7. ToSet(list \o rest) = ToSet(list) \cup ToSet(rest)
    <2> HIDE DEF list, rest
    <2>1. QED
      BY <1>2, <1>6, ToSetOfConcat
  <1>8. GoneClosed /\ CopiesOK
    BY DEF GoneOK, WalkInv, WalkOK
  <1>9. Source(path) = dir
    BY DEF Source
  <1> HIDE DEF side, list, dir
  <1>10. TotalKnown'
    BY <1>1, <1>4, <1>5, DueSame
  <1>11. EachOnce'
    <2>1. Apart(list \o rest)
      BY <1>0, <1>2, <1>5, <1>6, EntriesApart
    <2>2. ASSUME NEW o \in job.opened, NEW r \in ToSet(list) PROVE ~Begins(r, o)
      <3>1. PICK e \in Nodes : r = Append(path, e)
        BY <1>6
      <3>2. o \in Seq(Nodes)
        BY <1>5 DEF OpenedOK, IsPath
      <3>3. QED
        BY <1>2, <1>5, <3>1, <3>2, BeginsEntry
    <2>3. QED
      BY <1>4, <1>5, <1>7, <2>1, <2>2 DEF EachOnce
  <1> HIDE DEF rest
  <1>12. OpenedOK' /\ Chunked' = Chunked
    <2>1. /\ DOMAIN copied' = DOMAIN copied \cup {Copy(path)}
          /\ \A copy \in DOMAIN copied : copy # Copy(path) => copied'[copy] = copied[copy]
      BY <1>1 DEF WithEmpty
    <2>2. \A p : Source(p)' = Source(p) /\ Copy(p)' = Copy(p)
      BY <1>1, <1>4, SourceSame
    <2>3. OpenedOK'
      BY <1>4, <1>5, <2>1, <2>2 DEF OpenedOK
    <2>4. ASSUME NEW o \in job.opened PROVE copied'[Copy(o)'] = copied[Copy(o)]
      <3>1. o # path
        BY <1>2, <1>5 DEF Begins
      <3>2. Copy(o) # Copy(path) /\ Copy(o) \in DOMAIN copied
        BY <1>5, <3>1 DEF Copy, OpenedOK
      <3>3. QED
        BY <2>1, <2>2, <3>2
    <2>5. Chunked' = Chunked
      BY <1>4, <2>4 DEF Chunked
    <2>6. QED
      BY <2>3, <2>5
  <1>13. MovedIs'
    <2>1. TotalOf(Chunked)' = TotalOf(Chunked')
      OBVIOUS
    <2>2. QED
      BY <1>4, <1>5, <1>12, <2>1 DEF MovedIs
  <1>14. Met'
    <2>1. SUFFICES ASSUME NEW p \in Seq(Nodes), Due(p), p \notin job.opened
                   PROVE  \E begun \in ToSet(list) \cup ToSet(rest) : Begins(begun, p)
      BY <1>1, <1>4, <1>7, DueSame DEF Met, Pending
    <2>2. Begins(path, p) \/ \E begun \in ToSet(rest) : Begins(begun, p)
      BY <1>2, <1>5, <2>1 DEF Met, Pending
    <2>3. CASE Begins(path, p)
      <3>1. /\ IsPath(p) /\ p # path
            /\ Stat(side, p) # Nowhere \/ (side = "remote" /\ ToSet(p) \cap gone = {})
        <4>1. Source(p) \notin Dirs
          BY <2>1, TreeAssumption DEF Due, Nodes
        <4>2. QED
          BY <1>1, <1>9, <2>1, <4>1, TreeAssumption DEF Due, Source, side, Nodes
      <3>2. \E begun \in ToSet(Listing(side, path)) : Begins(begun, p)
        BY <1>1, <1>3, <1>5, <1>8, <2>3, <3>1, ListingCovers DEF dir
      <3>3. QED
        BY <3>2 DEF list
    <2>4. QED
      BY <2>2, <2>3
  <1>15. QED
    BY <1>4, <1>10, <1>11, <1>12, <1>13, <1>14 DEF ProgressInv, CopyingInv

LEMMA OpenFileMeets ==
  ASSUME QueueTypeOK, JobTypeOK, GoneOK, WalkInv, ProgressInv, OpenFile
  PROVE  ProgressInv'
  <1>0. PICK path : path = Head(job.todo)
    OBVIOUS
  <1> DEFINE rest  == Tail(job.todo)
             point == IF backend = "Sftp" THEN "check" ELSE "read"
             file  == [path |-> path, point |-> point]
  <1>1. /\ AtEntry /\ Source(path) \in Files /\ copied' = WithEmpty(path) /\ gone' = gone
        /\ job' = [job EXCEPT !.todo = rest, !.opened = @ \cup {path}, !.file = file]
    BY <1>0 DEF OpenFile
  <1>2. /\ job \in Transfers /\ job.phase = "copying"
        /\ path \in Seq(Nodes) /\ rest \in Seq(Seq(Nodes))
        /\ job.todo \in Seq(Seq(Nodes)) /\ job.todo # <<>>
        /\ ToSet(job.todo) = {path} \cup ToSet(rest)
    BY <1>0, <1>1, AtEntryIs
  <1>3. /\ job'.todo = rest /\ job'.kind = job.kind /\ job'.top = job.top
        /\ job'.phase = "copying" /\ job'.opened = job.opened \cup {path}
        /\ job'.moved = job.moved /\ job'.total = job.total /\ job'.file.path = path
    BY <1>1, <1>2 DEF Transfers, JobSet
  <1>4. /\ IsPath(path) /\ Head(path) = job.top
        /\ TotalKnown /\ Apart(job.todo) /\ OpenedOK /\ MovedIs /\ Met
        /\ \A o \in job.opened : ~Begins(path, o) /\ \A begun \in ToSet(rest) : ~Begins(begun, o)
    BY <1>0, <1>1, <1>2, WalkHead DEF ProgressInv, CopyingInv, EachOnce
  <1>5. path \notin job.opened
    BY <1>2, <1>4 DEF Begins
  <1>6. Source(path) = Resolved(Last(path))
    BY <1>1, StatIs, TreeAssumption DEF Source, Nodes
  <1> HIDE DEF file, point
  <1>7. TotalKnown'
    BY <1>1, <1>3, <1>4, DueSame
  <1>8. EachOnce'
    <2>1. /\ Apart(rest)
          /\ \A k \in 1..Len(rest) : ~Begins(rest[k], path)
      BY <1>0, <1>2, <1>4, TailApart
    <2>2. \A begun \in ToSet(rest) : ~Begins(begun, path)
      <3> HIDE DEF rest
      <3>1. DOMAIN rest = 1..Len(rest)
        BY <1>2
      <3>2. QED
        BY <2>1, <3>1 DEF ToSet
    <2>3. QED
      BY <1>3, <1>4, <2>1, <2>2 DEF EachOnce
  <1> HIDE DEF rest
  <1>9. /\ DOMAIN copied' = DOMAIN copied \cup {Copy(path)} /\ copied'[Copy(path)] = 0
        /\ \A copy \in DOMAIN copied : copy # Copy(path) => copied'[copy] = copied[copy]
    BY <1>1 DEF WithEmpty
  <1>10. \A p : Source(p)' = Source(p) /\ Copy(p)' = Copy(p)
    BY <1>1, <1>3, SourceSame
  <1>11. IsFiniteSet(job.opened) /\ IsFiniteSet(job'.opened)
    BY <1>3, <1>4, FS_AddElement DEF OpenedOK
  <1>12. OpenedOK'
    BY <1>1, <1>3, <1>4, <1>9, <1>10, <1>11 DEF OpenedOK
  <1>13. MovedIs'
    <2>1. Chunked \in [job.opened -> Nat]
      BY <1>4, ChunkedIs DEF WalkInv, WalkOK
    <2>2. ASSUME NEW o \in job.opened PROVE copied'[Copy(o)'] = copied[Copy(o)]
      <3>1. Copy(o) # Copy(path) /\ Copy(o) \in DOMAIN copied
        BY <1>4, <1>5 DEF Copy, OpenedOK
      <3>2. QED
        BY <1>9, <1>10, <3>1
    <2>3. Chunked' = [o \in job.opened \cup {path} |-> IF o = path THEN 0 ELSE Chunked[o]]
      <3>1. \A o \in job'.opened : copied'[Copy(o)'] = IF o = path THEN 0 ELSE Chunked[o]
        BY <1>3, <1>9, <1>10, <2>2 DEF Chunked
      <3>2. QED
        BY <1>3, <3>1 DEF Chunked
    <2>4. IsRest(Chunked', job'.opened, path, Chunked) /\ Chunked'[path] = 0
      <3>1. job'.opened \ {path} = job.opened
        BY <1>3, <1>5
      <3>2. QED
        BY <1>3, <1>5, <2>1, <2>3, <3>1 DEF IsRest
    <2>5. TotalOf(Chunked') = Chunked'[path] + TotalOf(Chunked)
      BY <1>11, <2>4, TotalWithout
    <2>6. TotalOf(Chunked) \in Nat
      BY <1>11, <2>1, TotalIs
    <2>7. TotalOf(Chunked)' = TotalOf(Chunked')
      OBVIOUS
    <2>8. QED
      BY <1>3, <1>4, <2>4, <2>5, <2>6, <2>7 DEF MovedIs
  <1>14. Met'
    <2>1. SUFFICES ASSUME NEW p \in Seq(Nodes), Due(p), p \notin job.opened, p # path
                   PROVE  \E begun \in ToSet(rest) : Begins(begun, p)
      BY <1>1, <1>3, DueSame DEF Met, Pending
    <2>2. Begins(path, p) \/ \E begun \in ToSet(rest) : Begins(begun, p)
      BY <1>2, <1>4, <2>1 DEF Met, Pending
    <2>3. ~Begins(path, p)
      <3>1. SUFFICES ASSUME Begins(path, p) PROVE FALSE
        OBVIOUS
      <3>2. IsStep(Last(path), p[Len(path) + 1])
        BY <1>4, <2>1, <3>1, PathGoesOn DEF Due
      <3>3. QED
        BY <1>1, <1>6, <3>2, TreeAssumption DEF IsStep
    <2>4. QED
      BY <2>2, <2>3
  <1>15. QED
    BY <1>3, <1>7, <1>8, <1>12, <1>13, <1>14 DEF ProgressInv, CopyingInv

LEMMA ReadChunkMeets ==
  ASSUME QueueTypeOK, JobTypeOK, WalkInv, ProgressInv, ReadChunk
  PROVE  ProgressInv'
  <1>0. PICK path : path = job.file.path
    OBVIOUS
  <1>1. /\ AtRead /\ gone' = gone
        /\ copied' = [copied EXCEPT ![Copy(path)] = @ + 1]
    BY <1>0 DEF ReadChunk
  <1>2. /\ job \in Transfers /\ job.phase = "copying" /\ job.file # NoFile
        /\ Copy(path) \in DOMAIN copied
    BY <1>0, <1>1, FileIs
  <1>3. /\ job'.kind = job.kind /\ job'.top = job.top /\ job'.todo = job.todo
        /\ job'.phase = "copying" /\ job'.opened = job.opened
        /\ job'.file.path = path
        /\ job'.moved = job.moved + 1 /\ job'.total = job.total
    BY <1>0, <1>2 DEF ReadChunk, Transfers, JobSet
  <1>4. TotalKnown /\ EachOnce /\ OpenedOK /\ MovedIs /\ Met /\ path \in job.opened
    BY <1>0, <1>2 DEF ProgressInv, CopyingInv, OpenedOK
  <1>5. TotalKnown'
    BY <1>1, <1>3, <1>4, DueSame
  <1>6. EachOnce'
    BY <1>3, <1>4 DEF EachOnce
  <1>7. /\ DOMAIN copied' = DOMAIN copied /\ copied'[Copy(path)] = copied[Copy(path)] + 1
        /\ \A copy \in DOMAIN copied : copy # Copy(path) => copied'[copy] = copied[copy]
    BY <1>1, <1>2
  <1>8. \A p : Source(p)' = Source(p) /\ Copy(p)' = Copy(p)
    BY <1>1, <1>3, SourceSame
  <1>9. OpenedOK'
    BY <1>3, <1>4, <1>7, <1>8 DEF OpenedOK
  <1>10. MovedIs'
    <2> DEFINE others == [o \in job.opened \ {path} |-> Chunked[o]]
    <2>1. Chunked \in [job.opened -> Nat] /\ IsFiniteSet(job.opened)
      BY <1>4, ChunkedIs DEF WalkInv, WalkOK, OpenedOK
    <2>2. ASSUME NEW o \in job.opened, o # path PROVE copied'[Copy(o)'] = copied[Copy(o)]
      <3>1. Copy(o) # Copy(path) /\ Copy(o) \in DOMAIN copied
        BY <1>4, <2>2 DEF Copy, OpenedOK
      <3>2. QED
        BY <1>7, <1>8, <3>1
    <2>3. \A o \in job.opened : Chunked'[o] = IF o = path THEN Chunked[o] + 1 ELSE Chunked[o]
      BY <1>3, <1>7, <1>8, <2>2 DEF Chunked
    <2>4. Chunked' \in [job.opened -> Nat]
      <3>1. \A o \in job.opened : Chunked'[o] \in Nat
        BY <2>1, <2>3
      <3>2. Chunked' = [o \in job.opened |-> Chunked'[o]]
        BY <1>3 DEF Chunked
      <3>3. QED
        BY <3>1, <3>2
    <2>5. IsRest(Chunked, job.opened, path, others) /\ IsRest(Chunked', job.opened, path, others)
      BY <1>4, <2>1, <2>3, <2>4 DEF IsRest
    <2> HIDE DEF others
    <2>6. /\ TotalOf(Chunked) = Chunked[path] + TotalOf(others)
          /\ TotalOf(Chunked') = Chunked'[path] + TotalOf(others)
      BY <2>1, <2>5, TotalWithout
    <2>7. TotalOf(others) \in Nat
      <3>1. IsFiniteSet(job.opened \ {path})
        BY <2>1, FS_Subset
      <3>2. others \in [job.opened \ {path} -> Nat]
        BY <2>5 DEF IsRest
      <3>3. QED
        BY <3>1, <3>2, TotalIs
    <2>8. Chunked[path] \in Nat /\ Chunked'[path] = Chunked[path] + 1
      BY <1>4, <2>1, <2>3
    <2>9. TotalOf(Chunked)' = TotalOf(Chunked')
      OBVIOUS
    <2>10. QED
      BY <1>3, <1>4, <2>6, <2>7, <2>8, <2>9 DEF MovedIs
  <1>11. Met'
    BY <1>1, <1>3, <1>4, DueSame DEF Met, Pending
  <1>12. QED
    BY <1>3, <1>5, <1>6, <1>9, <1>10, <1>11 DEF ProgressInv, CopyingInv

(* A file is checked, or left behind. *)
LEMMA FileLeftMeets ==
  ASSUME JobTypeOK, WalkInv, ProgressInv, CheckFile \/ EndFile \/ EndFileEarly
  PROVE  ProgressInv'
  <1>1. AtRead \/ AtCheck
    BY DEF CheckFile, EndFile, EndFileEarly
  <1>2. job \in Transfers /\ job.phase = "copying" /\ job.file # NoFile
    BY <1>1, AtFile
  <1>3. /\ gone' = gone /\ copied' = copied
        /\ \/ job' = [job EXCEPT !.file.point = "read"]
           \/ job' = [job EXCEPT !.file = NoFile]
    BY DEF CheckFile, EndFile, EndFileEarly, treeVars
  <1>4. /\ job'.kind = job.kind /\ job'.top = job.top /\ job'.todo = job.todo
        /\ job'.phase = "copying" /\ job'.opened = job.opened
        /\ job'.moved = job.moved /\ job'.total = job.total
        /\ job'.file = NoFile \/ job'.file.path = job.file.path
    BY <1>2, <1>3 DEF Transfers, JobSet
  <1>5. CopyingInv
    BY <1>2 DEF ProgressInv
  <1>6. \A p : Source(p)' = Source(p) /\ Copy(p)' = Copy(p)
    BY <1>3, <1>4, SourceSame
  <1>7. TotalKnown' /\ EachOnce'
    BY <1>3, <1>4, <1>5, DueSame DEF CopyingInv, EachOnce
  <1>8. OpenedOK'
    BY <1>2, <1>3, <1>4, <1>5, <1>6 DEF CopyingInv, OpenedOK
  <1>9. MovedIs'
    BY <1>3, <1>4, <1>5 DEF CopyingInv, MovedIs, Chunked, Copy
  <1>10. Met'
    BY <1>3, <1>4, <1>5, DueSame DEF CopyingInv, Met, Pending
  <1>11. QED
    BY <1>4, <1>7, <1>8, <1>9, <1>10 DEF ProgressInv, CopyingInv

(* A transfer starts with nothing moved. *)
LEMMA SizingStarts ==
  ASSUME QueueTypeOK, JobTypeOK, [Next]_vars, job'.phase = "sizing"
  PROVE  job' = job \/ (job'.moved = 0 /\ job'.opened = {})
  <1>1. CASE GuiStep \/ RefuseRemoval \/ Shutdown \/ UNCHANGED vars
    BY <1>1, GuiTyped DEF RefuseRemoval, Shutdown, vars
  <1>2. CASE TakeRemoval \/ TakeTransfer
    BY <1>2 DEF TakeRemoval, TakeTransfer, Began
  <1>3. CASE \/ RemovalFails \/ RemovalDone \/ SizingFails \/ Finish
             \/ EntryFails \/ ReadFails \/ FlushFails \/ NoticeCancel
    <2>1. job' = NoJob
      BY <1>3 DEF RemovalFails, RemovalDone, SizingFails, Finish, EntryFails, ReadFails,
                  FlushFails, NoticeCancel, Fail, End
    <2>2. QED
      BY <2>1 DEF NoJob
  <1>4. CASE EnterRemoved \/ RemoveOne
    <2>1. job.phase = "removing" /\ job \in Removals
      BY <1>4, JobIs DEF EnterRemoved, RemoveOne, Removing
    <2>2. job'.phase = "removing"
      BY <1>4, <2>1 DEF EnterRemoved, RemoveOne, Removals, JobSet
    <2>3. QED
      BY <2>2
  <1>5. CASE StartCopying
    <2>1. job \in Transfers
      BY <1>5, JobIs DEF StartCopying
    <2>2. job'.phase = "copying"
      BY <1>5, <2>1 DEF StartCopying, Transfers, JobSet
    <2>3. QED
      BY <2>2
  <1>6. CASE EnterDirectory \/ OpenFile
    <2>1. job \in Transfers /\ job.phase = "copying"
      BY <1>6, AtEntryIs DEF EnterDirectory, OpenFile
    <2>2. job'.phase = "copying"
      BY <1>6, <2>1 DEF EnterDirectory, OpenFile, Transfers, JobSet
    <2>3. QED
      BY <2>2
  <1>7. CASE CheckFile \/ ReadChunk \/ EndFile \/ EndFileEarly
    <2>1. job \in Transfers /\ job.phase = "copying"
      BY <1>7, AtFile DEF CheckFile, ReadChunk, EndFile, EndFileEarly
    <2>2. job'.phase = "copying"
      BY <1>7, <2>1 DEF CheckFile, ReadChunk, EndFile, EndFileEarly, Transfers, JobSet
    <2>3. QED
      BY <2>2
  <1>8. QED
    BY <1>1, <1>2, <1>3, <1>4, <1>5, <1>6, <1>7 DEF Next, WorkerStep

LEMMA ProgressKeeps ==
  ASSUME QueueTypeOK, JobTypeOK, GoneOK, WalkInv, ProgressInv, [Next]_vars
  PROVE  ProgressInv'
  <1>1. CASE UNCHANGED <<copied, job, gone>>
    <2>1. (TotalKnown => TotalKnown') /\ (Met => Met')
      BY <1>1, DueSame DEF Met, Pending
    <2>2. (EachOnce => EachOnce') /\ (MovedIs => MovedIs')
      BY <1>1 DEF EachOnce, MovedIs, Chunked, Copy
    <2>3. OpenedOK => OpenedOK'
      BY <1>1, SourceSame DEF OpenedOK, Copy
    <2>4. QED
      BY <1>1, <2>1, <2>2, <2>3 DEF ProgressInv, CopyingInv
  <1>2. CASE job'.phase # "copying"
    BY <1>2, SizingStarts DEF ProgressInv
  <1>3. CASE EntryFails \/ ReadFails \/ FlushFails \/ NoticeCancel
    <2>1. job' = NoJob
      BY <1>3 DEF EntryFails, ReadFails, FlushFails, NoticeCancel, Fail, End
    <2>2. QED
      BY <1>2, <2>1 DEF NoJob
  <1>4. QED
    BY <1>1, <1>2, <1>3, WalkStepIs, StartCopyingMeets, EnterDirectoryMeets, OpenFileMeets,
       ReadChunkMeets, FileLeftMeets

-----------------------------------------------------------------------------
(***************************************************************************)
(* The way to a node.  Without a linked directory in it, a tree has one    *)
(* path to each of its nodes: what is opened is measured, and only once.   *)
(***************************************************************************)
Here == Side(job.kind)

Root == Source(Top)

Free(p) == Here = "remote" => ToSet(p) \cap gone = {}

IsWay(p) == IsPath(p) /\ Head(p) = job.top /\ Free(p)

(* The nodes on a way: the entry that was asked for may be a link. *)
At(p, k) == IF k = 1 THEN Root ELSE p[k]

Reached(p) == At(p, Len(p))

PlainTree == GoneOK /\ job.top \in Nodes /\ Root # Nowhere /\ ~LinkedDirectory

LEMMA AloneIs ==
  ASSUME NEW side, NEW n \in Nodes
  PROVE  Stat(side, <<n>>) = IF side = "remote" /\ {n, Resolved(n)} \cap gone # {}
                             THEN Nowhere ELSE Resolved(n)
  <1> DEFINE links == {i \in DOMAIN <<n>> : <<n>>[i] \in Links}
  <1>1. Last(<<n>>) = n /\ ToSet(<<n>>) = {n} /\ DOMAIN <<n>> = {1}
    BY DEF Last, ToSet
  <1>2. links \subseteq {1}
    BY <1>1
  <1>3. ~(Cardinality(links) > MaxLinks)
    <2>1. IsFiniteSet({1}) /\ Cardinality({1}) = 1
      BY FS_Singleton
    <2>2. Cardinality(links) <= 1 /\ Cardinality(links) \in Nat
      <3> HIDE DEF links
      <3>1. QED
        BY <1>2, <2>1, FS_Subset, FS_CardinalityType
    <2>3. MaxLinks \in Nat \ {0, 1}
      BY TreeAssumption
    <2> HIDE DEF links
    <2>4. QED
      BY <2>2, <2>3
  <1>4. ToSet(<<n>>) \cup {Resolved(n)} = {n, Resolved(n)}
    BY <1>1
  <1> HIDE DEF links
  <1>5. QED
    BY <1>1, <1>3, <1>4 DEF Stat, links

LEMMA RootIs ==
  ASSUME PlainTree
  PROVE  /\ Root = Resolved(job.top) /\ Root \in Nodes /\ Root \notin Links
         /\ Resolved(Root) = Root
         /\ Here = "remote" => Root \notin gone /\ job.top \notin gone
         /\ Root \in Inside[Root] /\ Inside[Root] \subseteq Nodes
         /\ \A d \in Inside[Root] \cap Dirs : ToSet(Entries[d]) \subseteq Inside[Root]
  <1>1. job.top \in Nodes /\ Root # Nowhere
    BY DEF PlainTree
  <1>2. Stat(Here, <<job.top>>) = IF Here = "remote" /\ {job.top, Resolved(job.top)} \cap gone # {}
                                  THEN Nowhere ELSE Resolved(job.top)
    BY <1>1, AloneIs
  <1>3. Root = Stat(Here, <<job.top>>)
    BY DEF Root, Source, Here, Top
  <1>4. /\ Root = Resolved(job.top)
        /\ Here = "remote" => Root \notin gone /\ job.top \notin gone
    BY <1>1, <1>2, <1>3
  <1>5. Root \in Nodes /\ Root \notin Links /\ Resolved(Root) = Root
    BY <1>1, <1>4, ResolvedIs, TreeAssumption DEF Resolved, Nodes
  <1>6. Root \in Inside[Root] /\ Inside[Root] \in Closed
    BY <1>5, InsideIs
  <1>7. QED
    BY <1>4, <1>5, <1>6 DEF Closed

LEMMA WayStep ==
  ASSUME PlainTree, NEW p, IsWay(p), NEW k \in 1..(Len(p) - 1), At(p, k) \in Inside[Root]
  PROVE  /\ At(p, k) \in Dirs /\ p[k + 1] \in ToSet(Entries[At(p, k)])
         /\ At(p, k + 1) = p[k + 1] /\ At(p, k + 1) \in Inside[Root]
  <1>1. /\ p \in Seq(Nodes) /\ Len(p) \in Nat \ {0} /\ p[1] = job.top
        /\ k \in 1..Len(p) /\ k + 1 \in 1..Len(p) /\ DOMAIN p = 1..Len(p)
    BY LastIs DEF IsWay, IsPath
  <1>2. Resolved(p[k]) \in Dirs /\ p[k + 1] \in ToSet(Entries[Resolved(p[k])])
    BY DEF IsWay, IsPath, IsStep
  <1>3. At(p, k) = Resolved(p[k])
    <2>1. CASE k = 1
      BY <1>1, <2>1, RootIs DEF At
    <2>2. CASE k # 1
      <3>1. p[k] \in Nodes /\ p[k] \in Inside[Root] /\ At(p, k) = p[k]
        BY <1>1, <2>2 DEF At
      <3>2. CASE p[k] \in Links
        <4>1. Here = "remote" => p[k] \notin gone /\ p[k + 1] \notin gone
          BY <1>1 DEF IsWay, Free, ToSet
        <4>2. Here = "remote" => Resolved(p[k]) \notin gone
          BY <1>2, <4>1 DEF PlainTree, GoneOK, GoneClosed
        <4>3. Stat(Here, <<p[k]>>) = Resolved(p[k])
          BY <3>1, <4>1, <4>2, AloneIs
        <4>4. LinkedDirectory
          BY <1>2, <3>1, <3>2, <4>3 DEF LinkedDirectory, Source, Here, Root
        <4>5. QED
          BY <4>4 DEF PlainTree
      <3>3. CASE p[k] \notin Links
        BY <3>1, <3>3 DEF Resolved
      <3>4. QED
        BY <3>2, <3>3
    <2>3. QED
      BY <2>1, <2>2
  <1>4. At(p, k + 1) = p[k + 1]
    BY <1>1 DEF At
  <1>5. QED
    BY <1>2, <1>3, <1>4, RootIs

LEMMA WayIs ==
  ASSUME PlainTree, NEW p, IsWay(p)
  PROVE  /\ \A k \in 1..Len(p) : At(p, k) \in Inside[Root]
         /\ Len(p) \in Nat \ {0}
  <1>1. Len(p) \in Nat \ {0}
    BY LastIs DEF IsWay, IsPath
  <1> DEFINE S == {k \in Nat : k + 1 <= Len(p) => At(p, k + 1) \in Inside[Root]}
  <1>2. 0 \in S
    BY RootIs DEF At
  <1>3. ASSUME NEW k \in Nat, k \in S PROVE k + 1 \in S
    <2>1. SUFFICES ASSUME (k + 1) + 1 <= Len(p)
                   PROVE  At(p, (k + 1) + 1) \in Inside[Root]
      BY <1>3
    <2>2. k + 1 \in 1..(Len(p) - 1) /\ k + 1 <= Len(p)
      BY <1>1, <2>1
    <2>3. At(p, k + 1) \in Inside[Root]
      BY <1>3, <2>2
    <2>4. QED
      BY <2>2, <2>3, WayStep
  <1>4. Nat \subseteq S
    <2> HIDE DEF S
    <2>1. QED
      BY <1>2, <1>3, Induct
  <1>5. ASSUME NEW k \in 1..Len(p) PROVE At(p, k) \in Inside[Root]
    <2>1. k - 1 \in Nat /\ (k - 1) + 1 = k /\ k <= Len(p)
      BY <1>1
    <2>2. k - 1 \in S
      BY <1>4, <2>1
    <2>3. QED
      BY <2>1, <2>2
  <1>6. QED
    BY <1>1, <1>5

LEMMA WayGoesOn ==
  ASSUME PlainTree, NEW p, IsWay(p), NEW k \in 1..(Len(p) - 1)
  PROVE  /\ At(p, k) \in Inside[Root] /\ At(p, k) \in Dirs
         /\ p[k + 1] \in ToSet(Entries[At(p, k)]) /\ At(p, k + 1) = p[k + 1]
  <1>1. Len(p) \in Nat \ {0} /\ k \in 1..Len(p)
    BY WayIs
  <1>2. At(p, k) \in Inside[Root]
    BY <1>1, WayIs
  <1>3. QED
    BY <1>2, WayStep

(* A node is an entry of one directory only. *)
LEMMA OneParent ==
  ASSUME NEW d \in Dirs, NEW e \in Dirs, NEW n, n \in ToSet(Entries[d]), n \in ToSet(Entries[e])
  PROVE  d = e
  <1>1. PICK i \in DOMAIN Entries[d] : n = Entries[d][i]
    BY DEF ToSet
  <1>2. PICK j \in DOMAIN Entries[e] : n = Entries[e][j]
    BY DEF ToSet
  <1>3. Entries[d][i] = Entries[e][j]
    BY <1>1, <1>2
  <1>4. Entries[d][i] = Entries[e][j] => d = e /\ i = j
    BY Zenon, ForestAssumption
  <1>5. QED
    BY <1>3, <1>4

LEMMA WaysBack ==
  ASSUME PlainTree, NEW p, IsWay(p), NEW q, IsWay(q), Reached(p) = Reached(q),
         NEW i \in Nat, i < Len(p), i < Len(q)
  PROVE  At(p, Len(p) - i) = At(q, Len(q) - i)
  <1>1. Len(p) \in Nat \ {0} /\ Len(q) \in Nat \ {0}
    BY WayIs
  <1> DEFINE S == {n \in Nat : n < Len(p) /\ n < Len(q) => At(p, Len(p) - n) = At(q, Len(q) - n)}
  <1>2. 0 \in S
    BY <1>1 DEF Reached
  <1>3. ASSUME NEW n \in Nat, n \in S PROVE n + 1 \in S
    <2>1. SUFFICES ASSUME n + 1 < Len(p), n + 1 < Len(q)
                   PROVE  At(p, Len(p) - (n + 1)) = At(q, Len(q) - (n + 1))
      OBVIOUS
    <2>2. PICK k, l : k = Len(p) - (n + 1) /\ l = Len(q) - (n + 1)
      OBVIOUS
    <2>3. /\ k \in 1..(Len(p) - 1) /\ l \in 1..(Len(q) - 1)
          /\ Len(p) - n = k + 1 /\ Len(q) - n = l + 1 /\ n < Len(p) /\ n < Len(q)
      BY <1>1, <2>1, <2>2
    <2>4. At(p, k + 1) = At(q, l + 1)
      BY <1>3, <2>3
    <2>5. /\ At(p, k) \in Dirs /\ p[k + 1] \in ToSet(Entries[At(p, k)]) /\ At(p, k + 1) = p[k + 1]
          /\ At(q, l) \in Dirs /\ q[l + 1] \in ToSet(Entries[At(q, l)]) /\ At(q, l + 1) = q[l + 1]
      BY <2>3, WayGoesOn
    <2>6. At(p, k) = At(q, l)
      BY <2>4, <2>5, OneParent
    <2>7. QED
      BY <2>2, <2>6
  <1>4. i \in S
    <2> HIDE DEF S
    <2>1. QED
      BY <1>2, <1>3, Induct
  <1>5. QED
    BY <1>4

(* No node of a tree lies within itself. *)
LEMMA NoLonger ==
  ASSUME PlainTree, NEW p, IsWay(p), NEW q, IsWay(q), Reached(p) = Reached(q)
  PROVE  ~(Len(p) < Len(q))
  <1> SUFFICES ASSUME Len(p) < Len(q) PROVE FALSE
    OBVIOUS
  <1>1. Len(p) \in Nat \ {0} /\ Len(q) \in Nat \ {0}
    BY WayIs
  <1>2. PICK i \in Nat : i = Len(p) - 1
    BY <1>1
  <1>3. At(p, 1) = At(q, Len(q) - i)
    <2>1. i < Len(p) /\ i < Len(q) /\ Len(p) - i = 1
      BY <1>1, <1>2
    <2>2. QED
      BY <2>1, WaysBack
  <1>4. PICK k : k = (Len(q) - i) - 1
    OBVIOUS
  <1>5. k \in 1..(Len(q) - 1) /\ k + 1 = Len(q) - i
    BY <1>1, <1>2, <1>4
  <1>6. /\ At(q, k) \in Inside[Root] /\ At(q, k) \in Dirs
        /\ q[k + 1] \in ToSet(Entries[At(q, k)]) /\ At(q, k + 1) = q[k + 1]
    BY <1>5, WayGoesOn
  <1>7. At(q, k + 1) = Root
    BY <1>3, <1>5 DEF At
  <1>8. QED
    BY <1>6, <1>7, ForestAssumption

LEMMA OneWay ==
  ASSUME PlainTree, NEW p, IsWay(p), NEW q, IsWay(q), Reached(p) = Reached(q)
  PROVE  p = q
  <1>1. /\ p \in Seq(Nodes) /\ q \in Seq(Nodes) /\ p[1] = q[1]
        /\ Len(p) \in Nat \ {0} /\ Len(q) \in Nat \ {0}
    BY LastIs DEF IsWay, IsPath
  <1>2. Len(p) = Len(q)
    <2>1. ~(Len(p) < Len(q)) /\ ~(Len(q) < Len(p))
      BY NoLonger
    <2>2. QED
      BY <1>1, <2>1
  <1>3. ASSUME NEW k \in 1..Len(p) PROVE p[k] = q[k]
    <2>1. PICK i \in Nat : i = Len(p) - k
      BY <1>1
    <2>2. i < Len(p) /\ Len(p) - i = k
      BY <1>1, <2>1
    <2>3. At(p, k) = At(q, k)
      BY <1>2, <2>2, WaysBack
    <2>4. QED
      BY <1>1, <2>3 DEF At
  <1>4. QED
    BY <1>1, <1>2, <1>3

(* Every node of a tree that is there is reached. *)
LEMMA WayTo ==
  ASSUME PlainTree, NEW n \in Inside[Root], Here = "remote" => n \notin gone
  PROVE  \E p \in Seq(Nodes) : IsWay(p) /\ Reached(p) = n
  <1> DEFINE S == {m \in Nodes : \/ Here = "remote" /\ m \in gone
                                 \/ \E p \in Seq(Nodes) : IsWay(p) /\ Reached(p) = m}
  <1>1. Root \in S
    <2>1. job.top \in Nodes /\ Root \in Nodes
      BY RootIs DEF PlainTree
    <2>2. Top \in Seq(Nodes) /\ Top # <<>> /\ Len(Top) = 1 /\ Head(Top) = job.top
          /\ ToSet(Top) = {job.top}
      BY <2>1 DEF Top, ToSet
    <2>3. IsPath(Top)
      BY <2>2 DEF IsPath
    <2>4. IsWay(Top)
      BY <2>2, <2>3, RootIs DEF IsWay, Free
    <2>5. Reached(Top) = Root
      BY <2>2 DEF Reached, At
    <2>6. QED
      BY <2>1, <2>2, <2>4, <2>5
  <1>2. ASSUME NEW d \in S \cap Dirs, NEW e \in ToSet(Entries[d]) PROVE e \in S
    <2>1. e \in Nodes
      BY <1>2, EntriesAre
    <2>2. CASE Here = "remote" /\ d \in gone
      BY <1>2, <2>1, <2>2 DEF PlainTree, GoneOK, GoneClosed
    <2>3. CASE Here = "remote" /\ e \in gone
      BY <2>1, <2>3
    <2>4. ASSUME NEW p \in Seq(Nodes), IsWay(p), Reached(p) = d, Here = "remote" => e \notin gone
          PROVE  e \in S
      <3>1. /\ IsPath(p) /\ p # <<>> /\ Last(p) = p[Len(p)] /\ Len(p) \in Nat \ {0}
            /\ p[1] = job.top
        BY <2>4, LastIs DEF IsWay, IsPath
      <3>2. Resolved(Last(p)) = d
        <4>1. CASE Len(p) = 1
          BY <2>4, <3>1, <4>1, RootIs DEF Reached, At
        <4>2. CASE Len(p) # 1
          BY <1>2, <2>4, <3>1, <4>2, TreeAssumption DEF Reached, At, Resolved
        <4>3. QED
          BY <4>1, <4>2
      <3>3. IsStep(Last(p), e)
        BY <1>2, <3>2 DEF IsStep
      <3>4. PICK q : q = Append(p, e)
        OBVIOUS
      <3>5. IsPath(q) /\ Head(q) = job.top
        BY <2>4, <3>1, <3>3, <3>4, PathGrows DEF IsWay
      <3>6. ToSet(q) = ToSet(p) \cup {e} /\ Len(q) = Len(p) + 1 /\ q[Len(p) + 1] = e
            /\ q \in Seq(Nodes)
        BY <2>1, <3>4, ToSetOfAppend
      <3>7. IsWay(q) /\ Reached(q) = e
        BY <2>4, <3>1, <3>5, <3>6 DEF IsWay, Free, Reached, At
      <3>8. QED
        BY <2>1, <3>6, <3>7
    <2>5. QED
      BY <1>2, <2>2, <2>3, <2>4
  <1>3. S \in Closed
    BY <1>2 DEF Closed
  <1>4. n \in S
    BY <1>1, <1>3, RootIs, InsideIs
  <1>5. QED
    BY <1>4

(* A pair has two members or one. *)
LEMMA TwoAtMost ==
  ASSUME NEW a, NEW b
  PROVE  IsFiniteSet({a, b}) /\ Cardinality({a, b}) <= 2
  <1> DEFINE one == {a}
  <1>1. IsFiniteSet(one) /\ Cardinality(one) = 1
    BY FS_Singleton
  <1>2. {a, b} = one \cup {b}
    OBVIOUS
  <1> HIDE DEF one
  <1>3. /\ IsFiniteSet(one \cup {b})
        /\ Cardinality(one \cup {b}) = IF b \in one THEN Cardinality(one) ELSE Cardinality(one) + 1
    BY <1>1, FS_AddElement
  <1>4. Cardinality(one \cup {b}) <= 2
    BY <1>1, <1>3
  <1>5. QED
    BY <1>2, <1>3, <1>4

(* What a way leads to is what its node does. *)
LEMMA SourceOfWay ==
  ASSUME PlainTree, NEW p, IsWay(p)
  PROVE  /\ Source(p) = Stat(Here, <<Reached(p)>>)
         /\ Reached(p) \in Inside[Root]
         /\ Here = "remote" => Reached(p) \notin gone
  <1>1. /\ p \in Seq(Nodes) /\ p # <<>> /\ Last(p) = p[Len(p)] /\ p[1] = job.top
        /\ Len(p) \in Nat \ {0} /\ DOMAIN p = 1..Len(p)
    BY LastIs DEF IsWay, IsPath
  <1>2. Reached(p) \in Inside[Root] /\ Reached(p) \in Nodes
    <2>1. Len(p) \in 1..Len(p)
      BY <1>1
    <2>2. QED
      BY <2>1, WayIs, RootIs DEF Reached
  <1>3. Here = "remote" => Last(p) \notin gone /\ ToSet(p) \cap gone = {}
    <2>1. Last(p) \in ToSet(p)
      BY <1>1 DEF ToSet
    <2>2. QED
      BY <2>1 DEF IsWay, Free
  <1>4. Resolved(Reached(p)) = Resolved(Last(p)) /\ (Here = "remote" => Reached(p) \notin gone)
    <2>1. CASE Len(p) = 1
      BY <1>1, <2>1, RootIs DEF Reached, At
    <2>2. CASE Len(p) # 1
      BY <1>1, <1>3, <2>2 DEF Reached, At
    <2>3. QED
      BY <2>1, <2>2
  <1> DEFINE links == {i \in DOMAIN p : p[i] \in Links}
  <1>5. links \subseteq {1, Len(p)}
    <2>1. ASSUME NEW i \in 1..Len(p), p[i] \in Links PROVE i \in {1, Len(p)}
      <3>1. SUFFICES ASSUME i # 1, i # Len(p) PROVE FALSE
        OBVIOUS
      <3>2. i \in 1..(Len(p) - 1)
        <4>1. \A n \in Nat : i \in 1..n /\ i # n => i \in 1..(n - 1)
          OBVIOUS
        <4>2. QED
          BY <1>1, <3>1, <4>1
      <3>3. At(p, i) \in Dirs /\ At(p, i) = p[i]
        BY <3>1, <3>2, WayGoesOn DEF At
      <3>4. QED
        BY <2>1, <3>3, TreeAssumption
    <2>2. QED
      BY <1>1, <2>1
  <1>6. ~(Cardinality(links) > MaxLinks)
    <2>1. IsFiniteSet({1, Len(p)}) /\ Cardinality({1, Len(p)}) <= 2
      BY TwoAtMost
    <2>2. Cardinality(links) <= Cardinality({1, Len(p)}) /\ Cardinality(links) \in Nat
          /\ Cardinality({1, Len(p)}) \in Nat
      <3> HIDE DEF links
      <3>1. QED
        BY <1>5, <2>1, FS_Subset, FS_CardinalityType
    <2>3. MaxLinks \in Nat \ {0, 1}
      BY TreeAssumption
    <2> HIDE DEF links
    <2>4. QED
      BY <2>1, <2>2, <2>3
  <1>7. Source(p) = IF Here = "remote" /\ Resolved(Last(p)) \in gone
                    THEN Nowhere ELSE Resolved(Last(p))
    <2> HIDE DEF links
    <2>1. Here = "remote" => ((ToSet(p) \cup {Resolved(Last(p))}) \cap gone # {}
                              <=> Resolved(Last(p)) \in gone)
      BY <1>3
    <2>2. QED
      BY <1>6, <2>1 DEF Source, Stat, Here, links
  <1>8. Stat(Here, <<Reached(p)>>) = IF Here = "remote" /\ Resolved(Last(p)) \in gone
                                     THEN Nowhere ELSE Resolved(Last(p))
    BY <1>2, <1>4, AloneIs
  <1>9. QED
    BY <1>2, <1>4, <1>7, <1>8
-----------------------------------------------------------------------------
(***************************************************************************)
(* So a transfer moves no more than was announced, and all of it.          *)
(***************************************************************************)
Measured == IF Here = "remote" THEN (Inside[Root] \ Dirs) \ gone ELSE Inside[Root] \ Dirs

Weights == [n \in Measured |-> Weight(Here, n)]

Nodewise == [o \in job.opened |-> Reached(o)]

LEMMA MeasuredIs ==
  ASSUME PlainTree
  PROVE  /\ Measured \subseteq Nodes /\ IsFiniteSet(Measured) /\ Weights \in [Measured -> Nat]
         /\ TreeSize(Here, job.top) = TotalOf(Weights)
  <1>1. Measured \subseteq Nodes
    BY RootIs DEF Measured
  <1>2. IsFiniteSet(Measured)
    BY <1>1, TreeAssumption, FS_Subset
  <1>3. Weights \in [Measured -> Nat]
    BY <1>1, WeightIs DEF Weights
  <1>4. Stat(Here, <<job.top>>) = Root
    BY DEF Root, Source, Here, Top
  <1>5. TreeSize(Here, job.top) = TotalOf(Weights)
    BY <1>4 DEF TreeSize, Weights, Measured
  <1>6. QED
    BY <1>1, <1>2, <1>3, <1>5

LEMMA WeightOfFile ==
  ASSUME NEW side, NEW n, Stat(side, <<n>>) \in Files
  PROVE  Weight(side, n) = Size[Stat(side, <<n>>)]
  BY TreeAssumption DEF Weight, Nodes

LEMMA WeightOfNoFile ==
  ASSUME NEW n, Stat("local", <<n>>) \notin Files
  PROVE  Weight("local", n) = 0
  BY DEF Weight

LEMMA OpenedIs ==
  ASSUME PlainTree, OpenedOK, CopiesOK, NEW o \in job.opened
  PROVE  /\ IsWay(o) /\ Reached(o) \in Measured
         /\ Source(o) = Resolved(Last(o)) /\ Source(o) \in Files
         /\ Weight(Here, Reached(o)) = Size[Source(o)]
         /\ copied[Copy(o)] \in 0..Size[Source(o)]
  <1>1. /\ IsPath(o) /\ Head(o) = job.top /\ Source(o) \in Files /\ Copy(o) \in DOMAIN copied
    BY DEF OpenedOK
  <1>2. Source(o) # Nowhere /\ Source(o) \notin Dirs
    BY <1>1, TreeAssumption DEF Nodes
  <1>3. IsWay(o)
    BY <1>1, <1>2 DEF IsWay, Free, Source, Stat, Here
  <1>4. /\ Source(o) = Stat(Here, <<Reached(o)>>)
        /\ Reached(o) \in Inside[Root] /\ (Here = "remote" => Reached(o) \notin gone)
    BY <1>3, SourceOfWay
  <1>5. Reached(o) \in Nodes
    BY <1>4, RootIs
  <1>6. Reached(o) \notin Dirs
    <2>1. SUFFICES ASSUME Reached(o) \in Dirs PROVE FALSE
      OBVIOUS
    <2>2. Resolved(Reached(o)) = Reached(o)
      BY <2>1, TreeAssumption DEF Resolved
    <2>3. QED
      BY <1>2, <1>4, <1>5, <2>1, <2>2, AloneIs
  <1>7. Reached(o) \in Measured
    BY <1>4, <1>6 DEF Measured
  <1>8. Source(o) = Resolved(Last(o))
    BY <1>2, StatIs DEF Source
  <1>9. Weight(Here, Reached(o)) = Size[Source(o)]
    BY <1>1, <1>4, WeightOfFile
  <1>10. copied[Copy(o)] \in 0..Size[Source(o)]
    <2>1. Copy(o)[2] = o
      BY DEF Copy
    <2>2. QED
      BY <1>1, <1>8, <2>1 DEF CopiesOK
  <1>11. QED
    BY <1>1, <1>3, <1>7, <1>8, <1>9, <1>10

LEMMA OpenedFits ==
  ASSUME PlainTree, OpenedOK, CopiesOK
  PROVE  FitsIn(Chunked, job.opened, Weights, Measured, Nodewise)
  <1>1. Chunked \in [job.opened -> Nat] /\ Weights \in [Measured -> Nat]
    BY ChunkedIs, MeasuredIs
  <1>2. Nodewise \in [job.opened -> Measured]
    BY OpenedIs DEF Nodewise
  <1>3. OneToOne(Nodewise, job.opened)
    <2>1. SUFFICES ASSUME NEW x \in job.opened, NEW y \in job.opened, Reached(x) = Reached(y)
                   PROVE  x = y
      BY DEF OneToOne, Nodewise
    <2>2. QED
      BY <2>1, OpenedIs, OneWay
  <1>4. ASSUME NEW o \in job.opened PROVE Chunked[o] <= Weights[Nodewise[o]]
    <2>1. /\ Reached(o) \in Measured /\ Weight(Here, Reached(o)) = Size[Source(o)]
          /\ copied[Copy(o)] \in 0..Size[Source(o)] /\ Source(o) \in Files
      BY OpenedIs
    <2>2. Size[Source(o)] \in Nat
      BY <2>1, TreeAssumption DEF Nodes
    <2>3. QED
      BY <2>1, <2>2 DEF Chunked, Weights, Nodewise
  <1>5. QED
    BY <1>1, <1>2, <1>3, <1>4 DEF FitsIn

(* Nothing that has a weight is left out. *)
LEMMA OpenedFills ==
  ASSUME JobTypeOK, PlainTree, WalkInv, CopyingInv, NothingLeft,
         {Copy(path) : path \in job.opened} \cap excused = {}
  PROVE  Fills(Chunked, job.opened, Weights, Measured, Nodewise)
  <1>0. OpenedOK /\ CopiesOK /\ Met
    BY DEF CopyingInv, WalkInv, WalkOK
  <1>1. /\ job.phase = "copying" /\ job.file = NoFile /\ ToSet(job.todo) = {}
    BY DEF NothingLeft, ToSet
  <1>2. ASSUME NEW o \in job.opened PROVE Chunked[o] = Weights[Nodewise[o]]
    <2>1. /\ IsWay(o) /\ Reached(o) \in Measured /\ Source(o) = Resolved(Last(o))
          /\ Source(o) \in Files /\ Weight(Here, Reached(o)) = Size[Source(o)]
      BY <1>0, OpenedIs
    <2>2. o \in Seq(Nodes) /\ IsPath(o) /\ Head(o) = job.top /\ Source(o) # Nowhere
      BY <2>1, TreeAssumption DEF IsWay, IsPath, Nodes
    <2>3. Whole(job.kind, o)
      BY <1>1, <2>2 DEF WalkInv, Visited, Pending, Done
    <2>4. Copy(o) \notin excused /\ Copy(o) = <<job.kind, o>>
      BY DEF Copy
    <2>5. copied[Copy(o)] = Size[Source(o)]
      BY <2>1, <2>3, <2>4, TreeAssumption DEF Whole
    <2>6. QED
      BY <2>1, <2>5 DEF Chunked, Weights, Nodewise
  <1>3. ASSUME NEW n \in Measured, Weights[n] # 0
        PROVE  \E o \in job.opened : Nodewise[o] = n
    <2>1. n \in Inside[Root] /\ n \notin Dirs /\ (Here = "remote" => n \notin gone) /\ n \in Nodes
      BY RootIs DEF Measured
    <2>2. PICK p \in Seq(Nodes) : IsWay(p) /\ Reached(p) = n
      BY <2>1, WayTo
    <2>3. Source(p) = Stat(Here, <<n>>)
      BY <2>2, SourceOfWay
    <2>4. Stat(Here, <<n>>) \notin Dirs
      <3>1. SUFFICES ASSUME Stat(Here, <<n>>) \in Dirs PROVE FALSE
        OBVIOUS
      <3>2. n \in Links
        <4>1. n \notin Links => Stat(Here, <<n>>) \in {n, Nowhere}
          BY <2>1, AloneIs DEF Resolved
        <4>2. QED
          BY <2>1, <3>1, <4>1, TreeAssumption DEF Nodes
      <3>3. LinkedDirectory
        BY <2>1, <3>1, <3>2 DEF LinkedDirectory, Source, Here, Root
      <3>4. QED
        BY <3>3 DEF PlainTree
    <2>5. Due(p)
      <3>1. CASE Stat(Here, <<n>>) \in Files
        BY <2>2, <2>3, <3>1 DEF Due, IsWay
      <3>2. CASE Stat(Here, <<n>>) \notin Files
        <4>1. Here # "local"
          BY <1>3, <3>2, WeightOfNoFile DEF Weights
        <4>2. Here = "remote"
          BY <4>1, SideIs DEF Here
        <4>3. Stat(Here, <<n>>) = Nowhere
          BY <2>1, <2>4, <3>2, AloneIs, ResolvedIs
        <4>4. QED
          BY <2>2, <2>3, <4>2, <4>3 DEF Due, IsWay, Free, Here
      <3>3. QED
        BY <3>1, <3>2
    <2>6. p \in job.opened
      BY <1>0, <1>1, <2>5 DEF Met, Pending
    <2>7. QED
      BY <2>2, <2>6 DEF Nodewise
  <1>4. ASSUME NEW n \in Measured PROVE Weights[n] = 0 \/ \E o \in job.opened : Nodewise[o] = n
    BY <1>3
  <1>5. QED
    BY <1>2, <1>4 DEF Fills

LEMMA ProgressShows ==
  ASSUME JobTypeOK, GoneOK, WalkInv, ProgressInv
  PROVE  ProgressIsTrue
  <1> SUFFICES ASSUME job.phase = "copying"
               PROVE  /\ job.moved = TotalOf(Chunked)
                      /\ ~LinkedDirectory =>
                           /\ job.moved <= job.total
                           /\ NothingLeft /\ {Copy(path) : path \in job.opened} \cap excused = {} =>
                                job.moved = job.total
    BY DEF ProgressIsTrue, Chunked
  <1>1. CopyingInv /\ CopiesOK /\ OpenedOK
    BY DEF ProgressInv, CopyingInv, WalkInv, WalkOK
  <1>2. job.moved = TotalOf(Chunked)
    BY <1>1 DEF CopyingInv, MovedIs
  <1>3. ASSUME ~LinkedDirectory
        PROVE  /\ job.moved <= job.total
               /\ NothingLeft /\ {Copy(path) : path \in job.opened} \cap excused = {} =>
                    job.moved = job.total
    <2>1. PlainTree
      BY <1>1, <1>3, CopyingIs DEF PlainTree, CopyingInv, TotalKnown, Root
    <2>2. job.total = TotalOf(Weights)
      BY <1>1, <2>1, MeasuredIs DEF CopyingInv, TotalKnown, Here
    <2>3. FitsIn(Chunked, job.opened, Weights, Measured, Nodewise)
      BY <1>1, <2>1, OpenedFits
    <2>4. IsFiniteSet(Measured) /\ IsFiniteSet(job.opened) /\ Weights \in [Measured -> Nat]
      BY <1>1, <2>1, MeasuredIs DEF OpenedOK
    <2>5. /\ TotalOf(Chunked) <= TotalOf(Weights)
          /\ Fills(Chunked, job.opened, Weights, Measured, Nodewise) =>
               TotalOf(Chunked) = TotalOf(Weights)
      BY <2>3, <2>4, Compared
    <2>6. QED
      BY <1>1, <1>2, <2>1, <2>2, <2>5, OpenedFills
  <1>4. QED
    BY <1>2, <1>3

(***************************************************************************)
(* Whatever the tree, what is announced as moved is what lies at the other *)
(* end; it never exceeds the announced total and reaches it, but for trees *)
(* with linked directories and files that SCP ended early                  *)
(* (SftpSession.cpp:445, 603).                                             *)
(***************************************************************************)
THEOREM ProgressIsTrueCorrect == Spec => []ProgressIsTrue
  <1>1. Init => ProgressInv
    BY DEF Init, NoJob, ProgressInv
  <1>2. IInv /\ ProgressInv /\ [Next]_vars => ProgressInv'
    BY ProgressKeeps DEF IInv, RemovalInv
  <1>3. IInv /\ ProgressInv => ProgressIsTrue
    BY ProgressShows DEF IInv, RemovalInv
  <1>4. QED
    BY <1>1, <1>2, <1>3, Invariance, PTL DEF Spec

-----------------------------------------------------------------------------
(***************************************************************************)
(* The pipe that is served.  What waits of it is what was posted, but for  *)
(* the shutdown.                                                           *)
(***************************************************************************)
Stopping(posted) == posted # <<>> /\ Last(posted).kind = "shutdown"

Waiting(posted) ==
  LET requests == IF Stopping(posted) THEN Front(posted) ELSE posted
  IN  [i \in DOMAIN requests |-> PipeCall(requests[i])]

WaitingLen(posted) == IF Stopping(posted) THEN Len(posted) - 1 ELSE Len(posted)

LEMMA PipeCallsAre ==
  PipeCalls = IF job.phase = "removing" THEN <<PipeCall(job)>> \o Waiting(calls) ELSE Waiting(calls)
  BY DEF PipeCalls, Waiting, Stopping

LEMMA PipeCallIs ==
  ASSUME NEW call, call.id \in Nat
  PROVE  /\ PipeCall(call) \in Pipe!CallSet
         /\ PipeCall(call).id = call.id
         /\ call.kind = "remove" => PipeCall(call).kind = "mutate"
         /\ call.kind # "remove" => PipeCall(call).kind = "transfer"
  BY DEF PipeCall, Pipe!CallSet, Pipe!RequestKinds

LEMMA WaitingIs ==
  ASSUME NEW posted \in Seq(Requests)
  PROVE  /\ Waiting(posted) \in Seq(Pipe!CallSet)
         /\ WaitingLen(posted) \in Nat /\ WaitingLen(posted) <= Len(posted)
         /\ Len(Waiting(posted)) = WaitingLen(posted)
         /\ \A i \in 1..WaitingLen(posted) : Waiting(posted)[i] = PipeCall(posted[i])
  <1> DEFINE requests == IF Stopping(posted) THEN Front(posted) ELSE posted
             n        == WaitingLen(posted)
  <1>1. Len(posted) \in Nat
    OBVIOUS
  <1>2. /\ requests \in Seq(Requests) /\ Len(requests) = n
        /\ n \in Nat /\ n <= Len(posted)
        /\ \A i \in 1..n : requests[i] = posted[i]
    <2>1. CASE Stopping(posted)
      <3>1. Len(posted) - 1 \in Nat /\ n = Len(posted) - 1
        BY <1>1, <2>1 DEF Stopping, WaitingLen
      <3>2. requests = SubSeq(posted, 1, Len(posted) - 1)
        BY <2>1 DEF Front
      <3>3. PICK k \in Nat : k = Len(posted) - 1 /\ k <= Len(posted)
        BY <1>1, <3>1
      <3>4. /\ SubSeq(posted, 1, k) \in Seq(Requests) /\ Len(SubSeq(posted, 1, k)) = k
            /\ \A i \in 1..k : SubSeq(posted, 1, k)[i] = posted[i]
        BY <3>3
      <3> HIDE DEF requests, n
      <3>5. QED
        BY <3>1, <3>2, <3>3, <3>4
    <2>2. CASE ~Stopping(posted)
      BY <1>1, <2>2 DEF WaitingLen
    <2>3. QED
      BY <2>1, <2>2
  <1>3. Waiting(posted) = [i \in DOMAIN requests |-> PipeCall(requests[i])]
    BY DEF Waiting
  <1> HIDE DEF requests, n
  <1>4. DOMAIN requests = 1..n
    BY <1>2
  <1>5. ASSUME NEW i \in 1..n
        PROVE  PipeCall(requests[i]) \in Pipe!CallSet
    <2>1. requests[i] \in Requests
      BY <1>2
    <2>2. requests[i].id \in Nat
      BY <2>1 DEF Requests, RequestSet
    <2>3. QED
      BY <2>2, PipeCallIs
  <1>6. Waiting(posted) \in [1..n -> Pipe!CallSet]
    BY <1>3, <1>4, <1>5
  <1>7. Waiting(posted) \in Seq(Pipe!CallSet) /\ Len(Waiting(posted)) = n
    BY <1>2, <1>6
  <1>8. QED
    BY <1>2, <1>3, <1>4, <1>7 DEF n

(* Taking a request from the worker's queue takes it from the pipe. *)
LEMMA TakenWaited ==
  ASSUME NEW posted \in Seq(Requests), posted # <<>>, Head(posted).kind # "shutdown",
         NEW rest, rest = Tail(posted)
  PROVE  /\ Waiting(posted) # <<>> /\ Head(Waiting(posted)) = PipeCall(Head(posted))
         /\ Tail(Waiting(posted)) = Waiting(rest)
         /\ <<PipeCall(Head(posted))>> \o Waiting(rest) = Waiting(posted)
  <1> DEFINE n == WaitingLen(posted)
             w == Waiting(posted)
             v == Waiting(rest)
  <1>1. Len(posted) \in Nat \ {0} /\ Head(posted) = posted[1]
    OBVIOUS
  <1>2. /\ rest \in Seq(Requests) /\ Len(rest) = Len(posted) - 1
        /\ \A i \in 1..(Len(posted) - 1) : rest[i] = posted[i + 1]
    BY <1>1
  <1>3. Len(posted) = 1 => ~Stopping(posted) /\ ~Stopping(rest)
    <2>1. ASSUME Len(posted) = 1 PROVE Last(posted) = Head(posted) /\ rest = <<>>
      BY <1>1, <1>2, <2>1, LastIs
    <2>2. QED
      BY <2>1 DEF Stopping
  <1>4. Len(posted) # 1 => (Stopping(posted) <=> Stopping(rest))
    <2>1. SUFFICES ASSUME Len(posted) # 1 PROVE Last(rest) = Last(posted) /\ rest # <<>>
      BY DEF Stopping
    <2>2. Len(rest) \in Nat \ {0} /\ Len(posted) - 1 \in 1..(Len(posted) - 1)
      BY <1>1, <1>2, <2>1
    <2>3. Last(posted) = posted[Len(posted)]
      BY <1>1, LastIs
    <2>4. rest # <<>>
      BY <2>2
    <2>5. Last(rest) = rest[Len(rest)]
      BY <1>2, <2>4, LastIs
    <2>6. rest[Len(posted) - 1] = posted[(Len(posted) - 1) + 1] /\ (Len(posted) - 1) + 1 = Len(posted)
      BY <1>1, <1>2, <2>2
    <2>7. QED
      BY <1>2, <2>3, <2>4, <2>5, <2>6
  <1>5. WaitingLen(rest) = n - 1 /\ n \in Nat \ {0}
    <2>1. CASE Len(posted) = 1
      BY <1>1, <1>2, <1>3, <2>1 DEF WaitingLen
    <2>2. CASE Len(posted) # 1
      BY <1>1, <1>2, <1>4, <2>2 DEF WaitingLen
    <2>3. QED
      BY <2>1, <2>2
  <1>6. /\ w \in Seq(Pipe!CallSet) /\ Len(w) = n /\ n <= Len(posted)
        /\ \A i \in 1..n : w[i] = PipeCall(posted[i])
    BY WaitingIs
  <1>7. /\ v \in Seq(Pipe!CallSet) /\ Len(v) = WaitingLen(rest)
        /\ \A i \in 1..WaitingLen(rest) : v[i] = PipeCall(rest[i])
    BY <1>2, WaitingIs
  <1> HIDE DEF n, w, v
  <1>8. ASSUME NEW i \in 1..(n - 1)
        PROVE  v[i] = w[i + 1]
    <2>1. i \in 1..(Len(posted) - 1) /\ i + 1 \in 1..n
      BY <1>1, <1>5, <1>6
    <2>2. rest[i] = posted[i + 1]
      BY <1>2, <2>1
    <2>3. v[i] = PipeCall(rest[i]) /\ w[i + 1] = PipeCall(posted[i + 1])
      BY <1>5, <1>6, <1>7, <2>1
    <2>4. QED
      BY <2>2, <2>3
  <1>9. w # <<>> /\ Head(w) = w[1] /\ w[1] = PipeCall(Head(posted))
    BY <1>1, <1>5, <1>6
  <1>10. Tail(w) = v
    <2>1. /\ Tail(w) \in Seq(Pipe!CallSet) /\ Len(Tail(w)) = n - 1
          /\ \A i \in 1..(n - 1) : Tail(w)[i] = w[i + 1]
      BY <1>5, <1>6, <1>9
    <2>2. QED
      BY <1>5, <1>7, <1>8, <2>1
  <1>11. w = <<Head(w)>> \o Tail(w)
    BY <1>6, <1>9
  <1>12. QED
    BY <1>9, <1>10, <1>11 DEF w, v
(* The worker of the pipe, in the words of the job. *)
LEMMA PipeWorkerIs ==
  ASSUME JobTypeOK
  PROVE  /\ PipeWorker \in Pipe!WorkerSet
         /\ PipeWorker.phase = PipePhase /\ PipeWorker.moved = job.moved
         /\ PipeWorker.total = job.total
         /\ PipePhase # "idle" => PipeWorker.id = job.id
         /\ job.phase \in {"idle", "removing"} => PipePhase = "idle" /\ PipeWorker.id = 0
         /\ job.phase = "sizing" => PipePhase = "sizing"
         /\ job.phase = "copying" /\ NothingLeft => PipePhase = "closing"
         /\ job.phase = "copying" /\ ~NothingLeft => PipePhase = "moving"
  <1>1. job.moved \in Nat /\ job.total \in Nat /\ job.id \in Nat
        /\ job.phase \in {"idle", "removing", "sizing", "copying"}
    BY JobIs DEF Removals, Transfers, JobSet, NoJob
  <1>2. PipePhase \in {"idle", "sizing", "moving", "closing"}
    BY DEF PipePhase
  <1>3. PipeWorker \in Pipe!WorkerSet
    BY <1>1, <1>2 DEF PipeWorker, Pipe!WorkerSet
  <1>4. /\ PipeWorker.phase = PipePhase /\ PipeWorker.moved = job.moved
        /\ PipeWorker.total = job.total
        /\ PipePhase # "idle" => PipeWorker.id = job.id
        /\ PipePhase = "idle" => PipeWorker.id = 0
    BY DEF PipeWorker
  <1>5. /\ job.phase \in {"idle", "removing"} => PipePhase = "idle"
        /\ job.phase = "sizing" => PipePhase = "sizing"
        /\ job.phase = "copying" /\ NothingLeft => PipePhase = "closing"
        /\ job.phase = "copying" /\ ~NothingLeft => PipePhase = "moving"
    BY DEF PipePhase, NothingLeft
  <1>6. QED
    BY <1>3, <1>4, <1>5

LEMMA SameWorker ==
  ASSUME NEW v \in Pipe!WorkerSet, NEW w \in Pipe!WorkerSet,
         v.phase = w.phase, v.id = w.id, v.moved = w.moved, v.total = w.total
  PROVE  v = w
  BY DEF Pipe!WorkerSet

LEMMA PhaseUpdates ==
  ASSUME NEW w \in Pipe!WorkerSet, NEW v \in Pipe!WorkerSet, NEW phase,
         v.id = w.id, v.moved = w.moved, v.total = w.total, v.phase = phase
  PROVE  v = [w EXCEPT !.phase = phase]
  BY DEF Pipe!WorkerSet

LEMMA TotalUpdates ==
  ASSUME NEW w \in Pipe!WorkerSet, NEW v \in Pipe!WorkerSet, NEW phase, NEW total,
         v.id = w.id, v.moved = w.moved, v.phase = phase, v.total = total
  PROVE  v = [w EXCEPT !.phase = phase, !.total = total]
  BY DEF Pipe!WorkerSet

LEMMA MovedUpdates ==
  ASSUME NEW w \in Pipe!WorkerSet, NEW v \in Pipe!WorkerSet,
         v.id = w.id, v.phase = w.phase, v.total = w.total, v.moved = w.moved + 1
  PROVE  v = [w EXCEPT !.moved = @ + 1]
  BY DEF Pipe!WorkerSet

LEMMA IdleIs ==
  /\ Pipe!Idle \in Pipe!WorkerSet
  /\ Pipe!Idle.phase = "idle" /\ Pipe!Idle.id = 0 /\ Pipe!Idle.moved = 0 /\ Pipe!Idle.total = 0
  BY DEF Pipe!Idle, Pipe!WorkerSet

LEMMA IdleUpdates ==
  ASSUME NEW v \in Pipe!WorkerSet, v.moved = 0, v.total = 0
  PROVE  v = [Pipe!Idle EXCEPT !.phase = v.phase, !.id = v.id]
  <1>1. PICK w \in Pipe!WorkerSet : w = Pipe!Idle /\ w.moved = 0 /\ w.total = 0
    BY IdleIs
  <1>2. v = [w EXCEPT !.phase = v.phase, !.id = v.id]
    BY <1>1 DEF Pipe!WorkerSet
  <1>3. QED
    BY <1>1, <1>2

-----------------------------------------------------------------------------
(***************************************************************************)
(* An id names one request.  So no removal is ever cancelled, and a        *)
(* removal, which moves nothing, is one step of the pipe.                  *)
(***************************************************************************)
Asked == awaited \cup {call \in ToSet(calls) : call.kind # "shutdown"}

IdsOK ==
  /\ nextRequestId <= MaxRequests + 1
  /\ \A call \in Asked : call.id < nextRequestId
  /\ \A one, other \in Asked : one.id = other.id => one.kind = other.kind
  /\ \A call \in ToSet(calls) : call.kind = "remove" => call.id \notin cancelRequests
  /\ \A id \in cancelRequests : id < nextRequestId
  /\ job.phase # "idle" => job.id \in 1..MaxRequests

MovesNothing == job.phase = "removing" => job.moved = 0 /\ job.total = 0

PipeInv == IdsOK /\ MovesNothing

LEMMA IdsShrink ==
  ASSUME IdsOK, ToSet(calls') \subseteq ToSet(calls), awaited' \subseteq awaited,
         cancelRequests' \subseteq cancelRequests, nextRequestId' = nextRequestId,
         job'.phase # "idle" => job'.id \in 1..MaxRequests
  PROVE  IdsOK'
  <1>1. Asked' \subseteq Asked
    BY DEF Asked
  <1>2. QED
    BY <1>1 DEF IdsOK

LEMMA WorkerIds ==
  ASSUME QueueTypeOK, JobTypeOK, IdsOK, WorkerStep
  PROVE  IdsOK'
  <1>1. CASE Ends
    <2>1. /\ job' = NoJob /\ cancelRequests' = cancelRequests \ {job.id}
          /\ UNCHANGED <<calls, awaited, nextRequestId>>
      BY <1>1 DEF Ends, End, guiVars
    <2>2. job'.phase = "idle"
      BY <2>1 DEF NoJob
    <2>3. QED
      BY <2>1, <2>2, IdsShrink
  <1>2. CASE Starts
    <2>1. /\ calls # <<>> /\ calls' = Tail(calls) /\ Head(calls).kind \in Kinds
          /\ UNCHANGED <<awaited, nextRequestId, cancelRequests>>
      BY <1>2 DEF Starts, guiVars
    <2>2. job'.id = Head(calls).id
      BY <1>2 DEF Starts, Began
    <2>3. ToSet(calls) = {Head(calls)} \cup ToSet(calls') /\ Head(calls) \in Requests
      BY <2>1, HeadIs
    <2>4. Head(calls) \in Asked
      BY <2>1, <2>3 DEF Asked, Kinds
    <2>5. Head(calls).id \in Nat \ {0} /\ nextRequestId \in Nat
      BY <2>3 DEF Requests, RequestSet, QueueTypeOK
    <2>6. Head(calls).id < nextRequestId /\ nextRequestId <= MaxRequests + 1
      BY <2>4 DEF IdsOK
    <2>7. Head(calls).id \in 1..MaxRequests
      BY <2>5, <2>6, TreeAssumption
    <2>8. QED
      BY <2>1, <2>2, <2>3, <2>7, IdsShrink
  <1>3. CASE RefuseRemoval \/ Shutdown
    <2>1. /\ calls # <<>> /\ calls' = Tail(calls) /\ job' = job
          /\ UNCHANGED <<awaited, nextRequestId, cancelRequests>>
      BY <1>3 DEF RefuseRemoval, Shutdown, Takes, guiVars
    <2>2. ToSet(calls) = {Head(calls)} \cup ToSet(calls')
      BY <2>1, HeadIs
    <2>3. job'.phase # "idle" => job'.id \in 1..MaxRequests
      BY <2>1 DEF IdsOK
    <2>4. QED
      BY <2>1, <2>2, <2>3, IdsShrink
  <1>4. CASE GoesOn
    <2>1. UNCHANGED <<calls, awaited, nextRequestId, cancelRequests>>
      BY <1>4 DEF GoesOn, guiVars
    <2>2. job'.phase # "idle" => job'.id \in 1..MaxRequests
      BY <1>4 DEF GoesOn, IdsOK
    <2>3. QED
      BY <2>1, <2>2, IdsShrink
  <1>5. QED
    BY <1>1, <1>2, <1>3, <1>4, StepIs

LEMMA GuiIds ==
  ASSUME QueueTypeOK, JobTypeOK, IdsOK, GuiStep
  PROVE  IdsOK'
  <1>0. /\ calls \in Seq(Requests) /\ nextRequestId \in Nat /\ job' = job
        /\ awaited \subseteq Requests /\ \A call \in Requests : call.id \in Nat
    BY GuiTyped DEF QueueTypeOK, Requests, RequestSet
  <1>00. ToSet(calls) \subseteq Requests
    BY <1>0 DEF ToSet
  <1>1. CASE Post
    <2>1. PICK wish \in Wishes :
            /\ calls' = Append(calls, [kind |-> wish[1], id |-> nextRequestId, top |-> wish[2]])
            /\ awaited' = awaited \cup {[kind |-> wish[1], id |-> nextRequestId, top |-> wish[2]]}
      BY <1>1 DEF Post
    <2> DEFINE call == [kind |-> wish[1], id |-> nextRequestId, top |-> wish[2]]
    <2>2. /\ nextRequestId' = nextRequestId + 1 /\ nextRequestId <= MaxRequests
          /\ cancelRequests' = cancelRequests
      BY <1>1 DEF Post
    <2>3. call.id = nextRequestId
      OBVIOUS
    <2>4. ToSet(calls') = ToSet(calls) \cup {call}
      BY <1>0, <2>1, ToSetOfAppend
    <2>5. awaited' = awaited \cup {call}
      BY <2>1
    <2> HIDE DEF call
    <2>6. Asked' \subseteq Asked \cup {call}
      BY <2>4, <2>5 DEF Asked
    <2>7. \A old \in Asked : old.id < nextRequestId
      BY DEF IdsOK
    <2>8. nextRequestId' <= MaxRequests + 1
      BY <1>0, <2>2, TreeAssumption
    <2>9. \A new \in Asked' : new.id < nextRequestId'
      <3>1. \A old \in Asked : old.id \in Nat
        BY <1>0, <1>00 DEF Asked
      <3>2. QED
        BY <1>0, <2>2, <2>3, <2>6, <2>7, <3>1
    <2>10. \A one, other \in Asked' : one.id = other.id => one.kind = other.kind
      <3>1. \A old \in Asked : old.id # call.id
        BY <1>0, <2>3, <2>7
      <3>2. QED
        BY <2>6, <3>1 DEF IdsOK
    <2>11. \A c \in ToSet(calls') : c.kind = "remove" => c.id \notin cancelRequests'
      <3>1. call.id \notin cancelRequests
        BY <1>0, <2>3 DEF IdsOK
      <3>2. QED
        BY <2>2, <2>4, <3>1 DEF IdsOK
    <2>12. \A id \in cancelRequests' : id < nextRequestId'
      <3>1. cancelRequests \subseteq Nat
        BY DEF QueueTypeOK
      <3>2. QED
        BY <1>0, <2>2, <3>1 DEF IdsOK
    <2>13. QED
      BY <1>0, <2>8, <2>9, <2>10, <2>11, <2>12 DEF IdsOK
  <1>2. CASE RequestCancel
    <2>1. PICK call \in awaited :
            call.kind # "remove" /\ cancelRequests' = cancelRequests \cup {call.id}
      BY <1>2 DEF RequestCancel
    <2>2. UNCHANGED <<calls, awaited, nextRequestId>>
      BY <1>2 DEF RequestCancel, guiVars
    <2>3. call \in Asked
      BY DEF Asked
    <2>4. \A c \in ToSet(calls) : c.kind = "remove" => c.id # call.id
      BY <2>1, <2>3 DEF IdsOK, Asked
    <2>5. Asked' = Asked
      BY <2>2 DEF Asked
    <2>6. QED
      BY <1>0, <2>1, <2>2, <2>3, <2>4, <2>5 DEF IdsOK
  <1>3. CASE Deliver
    <2>1. awaited' \subseteq awaited /\ UNCHANGED <<calls, nextRequestId, cancelRequests>>
      BY <1>3 DEF Deliver
    <2>2. job'.phase # "idle" => job'.id \in 1..MaxRequests
      BY <1>0 DEF IdsOK
    <2>3. QED
      BY <2>1, <2>2, IdsShrink
  <1>4. CASE BeginStop
    <2>1. /\ calls' = Append(calls, [kind |-> "shutdown", id |-> nextRequestId, top |-> Nowhere])
          /\ UNCHANGED <<awaited, nextRequestId, cancelRequests>>
      BY <1>4 DEF BeginStop
    <2> DEFINE call == [kind |-> "shutdown", id |-> nextRequestId, top |-> Nowhere]
    <2>2. call.kind = "shutdown"
      OBVIOUS
    <2>3. ToSet(calls') = ToSet(calls) \cup {call}
      BY <1>0, <2>1, ToSetOfAppend
    <2> HIDE DEF call
    <2>4. Asked' = Asked
      BY <2>1, <2>2, <2>3 DEF Asked
    <2>5. QED
      BY <1>0, <2>1, <2>2, <2>3, <2>4 DEF IdsOK
  <1>5. QED
    BY <1>1, <1>2, <1>3, <1>4 DEF GuiStep

LEMMA PipeInvKeeps ==
  ASSUME QueueTypeOK, JobTypeOK, PipeInv, [Next]_vars
  PROVE  PipeInv'
  <1>1. IdsOK'
    <2>1. CASE UNCHANGED vars
      BY <2>1 DEF PipeInv, IdsOK, Asked, vars
    <2>2. QED
      BY <2>1, WorkerIds, GuiIds DEF PipeInv, Next
  <1>2. MovesNothing'
    <2>1. CASE TakeRemoval
      BY <2>1 DEF TakeRemoval, Began, MovesNothing
    <2>2. CASE EnterRemoved \/ RemoveOne
      <3>1. job.phase = "removing" /\ job \in Removals
        BY <2>2, JobIs DEF EnterRemoved, RemoveOne, Removing
      <3>2. job'.moved = job.moved /\ job'.total = job.total
        BY <2>2, <3>1 DEF EnterRemoved, RemoveOne, Removals, JobSet
      <3>3. QED
        BY <3>1, <3>2 DEF PipeInv, MovesNothing
    <2>3. QED
      BY <2>1, <2>2, RemovalStepIs DEF PipeInv, MovesNothing
  <1>3. QED
    BY <1>1, <1>2 DEF PipeInv
WorkerShown ==
  /\ PipeWorker \in Pipe!WorkerSet
  /\ PipeWorker.moved = job.moved /\ PipeWorker.total = job.total
  /\ job.phase = "copying" =>
       /\ PipeWorker.id = job.id
       /\ NothingLeft => PipeWorker.phase = "closing"
       /\ ~NothingLeft => PipeWorker.phase = "moving"
  /\ job.phase = "sizing" => PipeWorker.phase = "sizing" /\ PipeWorker.id = job.id
  /\ job.phase \in {"idle", "removing"} => PipeWorker.phase = "idle" /\ PipeWorker.id = 0

LEMMA WorkerIsShown == JobTypeOK => WorkerShown
  BY PipeWorkerIs DEF WorkerShown

(* The same, and what the worker is, after a step. *)
LEMMA PipeWorkerNext ==
  ASSUME JobTypeOK'
  PROVE  /\ PipeWorker' \in Pipe!WorkerSet
         /\ PipeWorker'.moved = job'.moved /\ PipeWorker'.total = job'.total
         /\ job'.phase = "copying" =>
              /\ PipeWorker'.id = job'.id
              /\ NothingLeft' => PipeWorker'.phase = "closing"
              /\ ~NothingLeft' => PipeWorker'.phase = "moving"
         /\ job'.phase = "sizing" => PipeWorker'.phase = "sizing" /\ PipeWorker'.id = job'.id
         /\ job'.phase \in {"idle", "removing"} => PipeWorker'.phase = "idle" /\ PipeWorker'.id = 0
  <1>1. WorkerShown'
    BY WorkerIsShown, PTL
  <1>2. QED
    BY <1>1 DEF WorkerShown

LEMMA PipeIdleNext ==
  ASSUME JobTypeOK', job'.phase \in {"idle", "removing"}, job'.moved = 0, job'.total = 0
  PROVE  PipeWorker' = Pipe!Idle
  <1>1. /\ PipeWorker' \in Pipe!WorkerSet /\ PipeWorker'.phase = "idle" /\ PipeWorker'.id = 0
        /\ PipeWorker'.moved = 0 /\ PipeWorker'.total = 0
    BY PipeWorkerNext
  <1>2. QED
    BY <1>1, IdleIs, SameWorker
-----------------------------------------------------------------------------
(***************************************************************************)
(* Each step of the worker is one of the pipe, or none.                    *)
(***************************************************************************)
Bounded == job.moved <= MaxBytes /\ job.total <= MaxBytes

LEMMA BytesAre ==
  ASSUME IdsOK, job.phase # "idle"
  PROVE  Pipe!MaxBytesOf(job.id) = MaxBytes
  BY DEF IdsOK, Pipe!MaxBytesOf

(* While a transfer goes on, the pipe's queue is what waits. *)
LEMMA QueueSame ==
  ASSUME calls' = calls, job.phase # "removing", job'.phase # "removing"
  PROVE  PipeCalls' = PipeCalls
  <1>1. PipeCalls = Waiting(calls)
    BY PipeCallsAre
  <1>2. PipeCalls' = Waiting(calls)'
    BY DEF PipeCalls, Waiting, Stopping
  <1>3. QED
    BY <1>1, <1>2

(* A step within an entry, or to the next: nothing to see, or the end. *)
LEMMA WalkMaps ==
  ASSUME JobTypeOK, JobTypeOK', job.phase = "copying", job'.phase = "copying", ~NothingLeft,
         job'.id = job.id, job'.moved = job.moved, job'.total = job.total,
         UNCHANGED <<nextRequestId, calls, cancelRequests, signals>>
  PROVE  Pipe!ReachEnd \/ UNCHANGED Pipe!pipeVars
  <1>1. PipeCalls' = PipeCalls
    BY QueueSame
  <1>2. /\ PipeWorker \in Pipe!WorkerSet /\ PipeWorker.phase = "moving"
        /\ PipeWorker.id = job.id /\ PipeWorker.moved = job.moved /\ PipeWorker.total = job.total
    BY PipeWorkerIs
  <1>3. /\ PipeWorker' \in Pipe!WorkerSet
        /\ PipeWorker'.id = job'.id /\ PipeWorker'.moved = job'.moved
        /\ PipeWorker'.total = job'.total
        /\ PipeWorker'.phase = "moving" \/ PipeWorker'.phase = "closing"
    BY PipeWorkerNext
  <1>4. CASE PipeWorker'.phase = "moving"
    <2>1. PipeWorker' = PipeWorker
      BY <1>2, <1>3, <1>4, SameWorker
    <2>2. QED
      BY <1>1, <2>1 DEF Pipe!pipeVars
  <1>5. CASE PipeWorker'.phase = "closing"
    <2>1. PipeWorker' = [PipeWorker EXCEPT !.phase = "closing"]
      BY <1>2, <1>3, <1>5, PhaseUpdates
    <2>2. QED
      BY <1>1, <1>2, <2>1 DEF Pipe!ReachEnd
  <1>6. QED
    BY <1>3, <1>4, <1>5

LEMMA ReadChunkMaps ==
  ASSUME JobTypeOK, JobTypeOK', IdsOK, ReadChunk, Bounded'
  PROVE  Pipe!MoveChunk
  <1>1. /\ AtRead /\ job \in Transfers /\ job.phase = "copying" /\ job.file # NoFile
    BY AtFile DEF ReadChunk
  <1>2. /\ job'.phase = "copying" /\ job'.id = job.id /\ job'.moved = job.moved + 1
        /\ job'.total = job.total /\ job'.file.point = "check"
        /\ UNCHANGED <<nextRequestId, calls, cancelRequests>>
    BY <1>1 DEF ReadChunk, Transfers, JobSet, guiVars
  <1>3. \/ signals' = Append(signals, Pipe!Signal("transferProgress", job.id, job.moved + 1, job.total))
        \/ job.moved + 1 < job.total /\ signals' = signals
    BY DEF ReadChunk
  <1>4. ~NothingLeft /\ ~NothingLeft'
    BY <1>1, <1>2 DEF NothingLeft, NoFile
  <1>5. PipeCalls' = PipeCalls
    BY <1>1, <1>2, QueueSame
  <1>6. /\ PipeWorker \in Pipe!WorkerSet /\ PipeWorker.phase = "moving"
        /\ PipeWorker.id = job.id /\ PipeWorker.moved = job.moved /\ PipeWorker.total = job.total
    BY <1>1, <1>4, PipeWorkerIs
  <1>7. /\ PipeWorker' \in Pipe!WorkerSet /\ PipeWorker'.phase = "moving"
        /\ PipeWorker'.id = job'.id /\ PipeWorker'.moved = job'.moved
        /\ PipeWorker'.total = job'.total
    BY <1>2, <1>4, PipeWorkerNext
  <1>8. PipeWorker'.moved = PipeWorker.moved + 1
    BY <1>2, <1>6, <1>7
  <1>9. PipeWorker' = [PipeWorker EXCEPT !.moved = @ + 1]
    BY <1>2, <1>6, <1>7, <1>8, MovedUpdates
  <1>10. PipeWorker.moved < Pipe!MaxBytesOf(PipeWorker.id)
    <2>1. Pipe!MaxBytesOf(job.id) = MaxBytes
      BY <1>1, BytesAre
    <2>2. job.moved + 1 <= MaxBytes /\ job.moved \in Nat
      BY <1>1, <1>2 DEF Bounded, Transfers, JobSet
    <2>3. QED
      BY <1>6, <2>1, <2>2, TreeAssumption
  <1>11. \/ signals' = Append(signals, Pipe!Signal("transferProgress", PipeWorker.id,
                                                   PipeWorker.moved + 1, PipeWorker.total))
         \/ PipeWorker.moved + 1 < PipeWorker.total /\ signals' = signals
    BY <1>3, <1>6
  <1>12. QED
    BY <1>2, <1>5, <1>6, <1>9, <1>10, <1>11 DEF Pipe!MoveChunk

(* Every way out of a transfer. *)
LEMMA EndMaps ==
  ASSUME JobTypeOK, JobTypeOK', job.phase \in {"sizing", "copying"}, NEW answers, End(answers)
  PROVE  Pipe!AnswerTransfer(answers)
  <1>1. /\ job' = NoJob /\ cancelRequests' = cancelRequests \ {job.id}
        /\ signals' = signals \o answers /\ UNCHANGED <<nextRequestId, calls>>
    BY DEF End, guiVars
  <1>2. job'.phase = "idle" /\ job'.moved = 0 /\ job'.total = 0
    BY <1>1 DEF NoJob
  <1>3. PipeCalls' = PipeCalls
    BY <1>1, <1>2, QueueSame
  <1>4. PipeWorker.id = job.id
    BY PipeWorkerIs
  <1>5. PipeWorker' = Pipe!Idle
    BY <1>2, PipeIdleNext
  <1>6. QED
    BY <1>1, <1>3, <1>4, <1>5 DEF Pipe!AnswerTransfer

LEMMA StartCopyingMaps ==
  ASSUME JobTypeOK, JobTypeOK', IdsOK, StartCopying, Bounded'
  PROVE  Pipe!StartMoving
  <1> DEFINE total == TreeSize(Side(job.kind), job.top)
  <1>1. job.phase = "sizing" /\ job \in Transfers
    BY JobIs DEF StartCopying
  <1>2. /\ job'.phase = "copying" /\ job'.id = job.id /\ job'.moved = job.moved
        /\ job'.total = total /\ job'.todo = <<Top>>
        /\ signals' = Append(signals, Pipe!Signal("transferStarted", job.id, 0, total))
        /\ UNCHANGED <<nextRequestId, calls, cancelRequests>>
    BY <1>1 DEF StartCopying, Transfers, JobSet, guiVars
  <1>3. ~NothingLeft'
    BY <1>2 DEF NothingLeft
  <1>4. PipeCalls' = PipeCalls
    BY <1>1, <1>2, QueueSame
  <1>5. /\ PipeWorker \in Pipe!WorkerSet /\ PipeWorker.phase = "sizing"
        /\ PipeWorker.id = job.id /\ PipeWorker.moved = job.moved
    BY <1>1, PipeWorkerIs
  <1>6. /\ PipeWorker' \in Pipe!WorkerSet /\ PipeWorker'.phase = "moving"
        /\ PipeWorker'.id = job'.id /\ PipeWorker'.moved = job'.moved
        /\ PipeWorker'.total = job'.total
    BY <1>2, <1>3, PipeWorkerNext
  <1>7. job'.total \in Nat /\ job'.total <= MaxBytes
    <2>1. job' \in Transfers
      BY <1>2 DEF JobTypeOK, Transfers
    <2>2. QED
      BY <2>1 DEF Bounded, Transfers, JobSet
  <1> HIDE DEF total
  <1>8. total \in 0..Pipe!MaxBytesOf(PipeWorker.id)
    <2>1. Pipe!MaxBytesOf(job.id) = MaxBytes
      BY <1>1, BytesAre
    <2>2. QED
      BY <1>2, <1>5, <1>7, <2>1, TreeAssumption
  <1>9. PipeWorker' = [PipeWorker EXCEPT !.phase = "moving", !.total = total]
    <2>1. /\ PipeWorker'.id = PipeWorker.id /\ PipeWorker'.moved = PipeWorker.moved
          /\ PipeWorker'.phase = "moving" /\ PipeWorker'.total = total
      BY <1>2, <1>5, <1>6
    <2>2. PICK w, v, size : w = PipeWorker /\ v = PipeWorker' /\ size = total
      OBVIOUS
    <2>3. v = [w EXCEPT !.phase = "moving", !.total = size]
      <3>1. w \in Pipe!WorkerSet /\ v \in Pipe!WorkerSet
        BY <1>5, <1>6, <2>2
      <3>2. v.id = w.id /\ v.moved = w.moved /\ v.phase = "moving" /\ v.total = size
        BY <2>1, <2>2
      <3>3. QED
        BY <3>1, <3>2, TotalUpdates
    <2>4. QED
      BY <2>2, <2>3
  <1>10. QED
    BY <1>2, <1>4, <1>5, <1>8, <1>9 DEF Pipe!StartMoving
LEMMA TakeTransferMaps ==
  ASSUME QueueTypeOK, JobTypeOK, JobTypeOK', TakeTransfer
  PROVE  Pipe!TakeTransfer
  <1>1. /\ job = NoJob /\ calls # <<>> /\ Head(calls).kind \in {"download", "upload"}
        /\ calls' = Tail(calls) /\ job' = Began(Head(calls), "sizing", <<>>)
        /\ UNCHANGED <<nextRequestId, cancelRequests, signals>>
    BY DEF TakeTransfer, Takes, guiVars
  <1>2. /\ job.phase = "idle" /\ job'.phase = "sizing" /\ job'.id = Head(calls).id
        /\ job'.moved = 0 /\ job'.total = 0
    BY <1>1 DEF NoJob, Began
  <1>3. calls \in Seq(Requests) /\ Head(calls).id \in Nat
    BY <1>1, HeadIs DEF QueueTypeOK, Requests
  <1>4. /\ Waiting(calls) # <<>> /\ Head(Waiting(calls)) = PipeCall(Head(calls))
        /\ Tail(Waiting(calls)) = Waiting(calls')
    BY <1>1, <1>3, TakenWaited
  <1>5. PipeCalls = Waiting(calls)
    BY <1>2, PipeCallsAre
  <1>6. PipeCalls' = Waiting(calls')
    BY <1>2 DEF PipeCalls, Waiting, Stopping
  <1>7. PipeCall(Head(calls)).kind = "transfer" /\ PipeCall(Head(calls)).id = Head(calls).id
    BY <1>1, <1>3, PipeCallIs
  <1>8. PipeWorker.phase = "idle"
    BY <1>2, PipeWorkerIs
  <1>9. /\ PipeWorker' \in Pipe!WorkerSet /\ PipeWorker'.phase = "sizing"
        /\ PipeWorker'.id = Head(calls).id /\ PipeWorker'.moved = 0 /\ PipeWorker'.total = 0
    BY <1>2, PipeWorkerNext
  <1>10. PipeWorker' = [Pipe!Idle EXCEPT !.phase = "sizing", !.id = Head(PipeCalls).id]
    <2>1. PICK v, id : v = PipeWorker' /\ id = Head(calls).id
      OBVIOUS
    <2>2. v \in Pipe!WorkerSet /\ v.moved = 0 /\ v.total = 0 /\ v.phase = "sizing" /\ v.id = id
      BY <1>9, <2>1
    <2>3. v = [Pipe!Idle EXCEPT !.phase = "sizing", !.id = id]
      BY <2>2, IdleUpdates
    <2>4. Head(PipeCalls).id = id
      BY <1>4, <1>5, <1>7, <2>1
    <2>5. QED
      BY <2>1, <2>3, <2>4
  <1>11. QED
    BY <1>1, <1>4, <1>5, <1>6, <1>7, <1>8, <1>10 DEF Pipe!TakeTransfer, Pipe!Busy

(* A removal that is answered is served by the pipe in one step. *)
LEMMA ServedMaps ==
  ASSUME PipeWorker = Pipe!Idle, PipeWorker' = Pipe!Idle,
         PipeCalls # <<>>, NEW id, Head(PipeCalls).id = id, Head(PipeCalls).kind = "mutate",
         PipeCalls' = Tail(PipeCalls), cancelRequests' = cancelRequests \ {id},
         NEW kind \in {"operationFinished", "operationFailed"},
         signals' = Append(signals, Pipe!Answer(kind, id)), nextRequestId' = nextRequestId
  PROVE  Pipe!ServeMutation
  BY IdleIs DEF Pipe!ServeMutation, Pipe!Busy

LEMMA PipeIdle ==
  ASSUME JobTypeOK, MovesNothing, job.phase \in {"idle", "removing"}
  PROVE  PipeWorker = Pipe!Idle
  <1>1. job.moved = 0 /\ job.total = 0
    BY JobIs DEF MovesNothing, NoJob
  <1>2. /\ PipeWorker \in Pipe!WorkerSet /\ PipeWorker.phase = "idle" /\ PipeWorker.id = 0
        /\ PipeWorker.moved = 0 /\ PipeWorker.total = 0
    BY <1>1, PipeWorkerIs
  <1>3. QED
    BY <1>2, IdleIs, SameWorker

(* While a removal goes on, it stands before what waits. *)
LEMMA RemovingCalls ==
  ASSUME QueueTypeOK, JobTypeOK, job.phase = "removing"
  PROVE  /\ PipeCalls = <<PipeCall(job)>> \o Waiting(calls)
         /\ PipeCalls # <<>> /\ Head(PipeCalls) = PipeCall(job) /\ Tail(PipeCalls) = Waiting(calls)
         /\ PipeCall(job).kind = "mutate" /\ PipeCall(job).id = job.id
  <1>1. PipeCalls = <<PipeCall(job)>> \o Waiting(calls)
    BY PipeCallsAre
  <1>2. job.id \in Nat /\ job.kind = "remove"
    BY JobIs DEF Removals, JobSet
  <1>3. PipeCall(job) \in Pipe!CallSet /\ PipeCall(job).kind = "mutate" /\ PipeCall(job).id = job.id
    BY <1>2, PipeCallIs
  <1>4. Waiting(calls) \in Seq(Pipe!CallSet)
    BY WaitingIs DEF QueueTypeOK, Requests
  <1>5. PICK first \in Pipe!CallSet, rest \in Seq(Pipe!CallSet) :
          first = PipeCall(job) /\ rest = Waiting(calls)
    BY <1>3, <1>4
  <1>6. <<first>> \o rest # <<>> /\ Head(<<first>> \o rest) = first /\ Tail(<<first>> \o rest) = rest
    OBVIOUS
  <1>7. QED
    BY <1>1, <1>3, <1>5, <1>6

LEMMA RemovalEndMaps ==
  ASSUME QueueTypeOK, JobTypeOK, JobTypeOK', MovesNothing, job.phase = "removing",
         NEW kind \in {"operationFinished", "operationFailed"},
         End(<<Pipe!Answer(kind, job.id)>>)
  PROVE  Pipe!ServeMutation
  <1>1. /\ job' = NoJob /\ cancelRequests' = cancelRequests \ {job.id}
        /\ signals' = signals \o <<Pipe!Answer(kind, job.id)>>
        /\ UNCHANGED <<nextRequestId, calls>>
    BY DEF End, guiVars
  <1>2. job'.phase = "idle" /\ job'.moved = 0 /\ job'.total = 0
    BY <1>1 DEF NoJob
  <1>3. PipeWorker = Pipe!Idle /\ PipeWorker' = Pipe!Idle
    BY <1>2, PipeIdle, PipeIdleNext
  <1>4. /\ PipeCalls # <<>> /\ Head(PipeCalls).id = job.id /\ Head(PipeCalls).kind = "mutate"
        /\ Tail(PipeCalls) = Waiting(calls)
    BY RemovingCalls
  <1>5. PipeCalls' = Waiting(calls)
    BY <1>1, <1>2 DEF PipeCalls, Waiting, Stopping
  <1>6. signals' = Append(signals, Pipe!Answer(kind, job.id))
    <2>1. job.id \in Nat /\ signals \in Seq(Pipe!SignalSet)
      BY JobIs DEF QueueTypeOK
    <2>2. Pipe!Answer(kind, job.id) \in Pipe!SignalSet
      BY <2>1, AnswerIs DEF AnswerKinds
    <2>3. PICK a \in Pipe!SignalSet : a = Pipe!Answer(kind, job.id)
      BY <2>2
    <2>4. signals \o <<a>> = Append(signals, a)
      BY <2>1
    <2>5. QED
      BY <1>1, <2>3, <2>4
  <1>7. QED
    BY <1>1, <1>3, <1>4, <1>5, <1>6, ServedMaps

LEMMA RefuseRemovalMaps ==
  ASSUME QueueTypeOK, JobTypeOK, JobTypeOK', PipeInv, RefuseRemoval
  PROVE  Pipe!ServeMutation
  <1>1. /\ job = NoJob /\ calls # <<>> /\ Head(calls).kind = "remove"
        /\ calls' = Tail(calls) /\ job' = job /\ cancelRequests' = cancelRequests
        /\ signals' = Append(signals, Pipe!Answer("operationFailed", Head(calls).id))
        /\ nextRequestId' = nextRequestId
    BY DEF RefuseRemoval, Takes, guiVars
  <1>2. /\ job.phase = "idle" /\ job'.phase = "idle" /\ job'.moved = 0 /\ job'.total = 0
    BY <1>1 DEF NoJob
  <1>3. PipeWorker = Pipe!Idle /\ PipeWorker' = Pipe!Idle
    BY <1>2, PipeIdle, PipeIdleNext DEF PipeInv
  <1>4. calls \in Seq(Requests) /\ Head(calls).id \in Nat /\ Head(calls) \in ToSet(calls)
    BY <1>1, HeadIs DEF QueueTypeOK, Requests
  <1>5. /\ Waiting(calls) # <<>> /\ Head(Waiting(calls)) = PipeCall(Head(calls))
        /\ Tail(Waiting(calls)) = Waiting(calls')
    BY <1>1, <1>4, TakenWaited
  <1>6. PipeCalls = Waiting(calls)
    BY <1>2, PipeCallsAre
  <1>7. PipeCalls' = Waiting(calls')
    BY <1>2 DEF PipeCalls, Waiting, Stopping
  <1>8. PipeCall(Head(calls)).kind = "mutate" /\ PipeCall(Head(calls)).id = Head(calls).id
    BY <1>1, <1>4, PipeCallIs
  <1>9. cancelRequests' = cancelRequests \ {Head(calls).id}
    BY <1>1, <1>4 DEF PipeInv, IdsOK
  <1>10. QED
    BY <1>1, <1>3, <1>5, <1>6, <1>7, <1>8, <1>9, ServedMaps

(* A removal is begun and goes on, and the thread ends, unseen by the pipe. *)
LEMMA UnseenMaps ==
  ASSUME QueueTypeOK, JobTypeOK, JobTypeOK', PipeInv, PipeInv',
         TakeRemoval \/ EnterRemoved \/ RemoveOne
  PROVE  UNCHANGED Pipe!pipeVars
  <1>1. CASE TakeRemoval
    <2>1. /\ job = NoJob /\ calls # <<>> /\ Head(calls).kind = "remove" /\ calls' = Tail(calls)
          /\ UNCHANGED <<nextRequestId, cancelRequests, signals>>
          /\ \E todo : job' = Began(Head(calls), "removing", todo)
      BY <1>1 DEF TakeRemoval, Takes, guiVars
    <2>2. /\ job.phase = "idle" /\ job'.phase = "removing" /\ job'.moved = 0 /\ job'.total = 0
          /\ job'.id = Head(calls).id /\ job'.kind = Head(calls).kind
      BY <2>1 DEF NoJob, Began
    <2>3. PipeWorker' = PipeWorker
      BY <2>2, PipeIdle, PipeIdleNext DEF PipeInv
    <2>4. calls \in Seq(Requests)
      BY DEF QueueTypeOK, Requests
    <2>5. <<PipeCall(Head(calls))>> \o Waiting(calls') = Waiting(calls)
      BY <2>1, <2>4, TakenWaited
    <2>6. PipeCalls = Waiting(calls)
      BY <2>2, PipeCallsAre
    <2>7. PipeCalls' = <<PipeCall(job)'>> \o Waiting(calls')
      BY <2>2 DEF PipeCalls, Waiting, Stopping
    <2>8. PipeCall(job)' = PipeCall(Head(calls))
      BY <2>2 DEF PipeCall
    <2>9. QED
      BY <2>1, <2>3, <2>5, <2>6, <2>7, <2>8 DEF Pipe!pipeVars
  <1>2. CASE EnterRemoved \/ RemoveOne
    <2>1. job.phase = "removing" /\ job \in Removals
      BY <1>2, JobIs DEF EnterRemoved, RemoveOne, Removing
    <2>2. /\ job'.phase = "removing" /\ job'.id = job.id /\ job'.kind = job.kind
          /\ UNCHANGED <<calls, nextRequestId, cancelRequests, signals>>
      BY <1>2, <2>1 DEF EnterRemoved, RemoveOne, Removals, JobSet, guiVars
    <2>3. job'.moved = 0 /\ job'.total = 0
      BY <2>2 DEF PipeInv, MovesNothing
    <2>4. PipeWorker' = PipeWorker
      BY <2>1, <2>2, <2>3, PipeIdle, PipeIdleNext DEF PipeInv
    <2>5. PipeCalls' = PipeCalls
      BY <2>1, <2>2 DEF PipeCalls, PipeCall
    <2>6. QED
      BY <2>2, <2>4, <2>5 DEF Pipe!pipeVars
  <1>3. QED
    BY <1>1, <1>2

LEMMA ShutdownMaps ==
  ASSUME QueueTypeOK, JobTypeOK, JobTypeOK', AnswerInv, PipeInv, Shutdown
  PROVE  UNCHANGED Pipe!pipeVars
  <1>1. /\ job = NoJob /\ calls # <<>> /\ Head(calls).kind = "shutdown" /\ calls' = Tail(calls)
        /\ job' = job /\ UNCHANGED <<nextRequestId, cancelRequests, signals>>
    BY DEF Shutdown, Takes
  <1>2. job.phase = "idle" /\ job'.phase = "idle"
    BY <1>1 DEF NoJob
  <1>3. calls \in Seq(Requests) /\ Len(calls) \in Nat \ {0} /\ Head(calls) = calls[1]
    BY <1>1 DEF QueueTypeOK, Requests
  <1>4. Len(calls) = 1
    <2>1. 1 \in DOMAIN calls
      BY <1>3
    <2>2. QED
      BY <1>1, <1>3, <2>1 DEF AnswerInv, ShutdownIsLast
  <1>5. calls' = <<>> /\ Last(calls) = Head(calls)
    BY <1>1, <1>3, <1>4, LastIs
  <1>6. Front(calls) = <<>>
    BY <1>3, <1>4 DEF Front
  <1>7. PipeCalls' = PipeCalls
    BY <1>1, <1>2, <1>5, <1>6 DEF PipeCalls
  <1>8. PipeWorker' = PipeWorker
    BY <1>1 DEF PipeWorker, PipePhase, NothingLeft
  <1>9. QED
    BY <1>1, <1>7, <1>8 DEF Pipe!pipeVars

LEMMA CopyStepsMap ==
  ASSUME JobTypeOK, JobTypeOK',
         EnterDirectory \/ OpenFile \/ CheckFile \/ EndFile \/ EndFileEarly
  PROVE  Pipe!ReachEnd \/ UNCHANGED Pipe!pipeVars
  <1>1. /\ job \in Transfers /\ job.phase = "copying" /\ ~NothingLeft
    <2>1. CASE EnterDirectory \/ OpenFile
      BY <2>1, AtEntryIs DEF EnterDirectory, OpenFile, NothingLeft
    <2>2. CASE CheckFile \/ EndFile \/ EndFileEarly
      BY <2>2, AtFile DEF CheckFile, EndFile, EndFileEarly, NothingLeft
    <2>3. QED
      BY <2>1, <2>2
  <1>2. /\ job'.phase = "copying" /\ job'.id = job.id /\ job'.moved = job.moved
        /\ job'.total = job.total
        /\ UNCHANGED <<nextRequestId, calls, cancelRequests, signals>>
    <2>1. CASE EnterDirectory
      BY <1>1, <2>1 DEF EnterDirectory, Transfers, JobSet, guiVars
    <2>2. CASE OpenFile
      BY <1>1, <2>2 DEF OpenFile, Transfers, JobSet, guiVars
    <2>3. CASE CheckFile
      BY <1>1, <2>3 DEF CheckFile, Transfers, JobSet, guiVars
    <2>4. CASE EndFile
      BY <1>1, <2>4 DEF EndFile, Transfers, JobSet, guiVars
    <2>5. CASE EndFileEarly
      BY <1>1, <2>5 DEF EndFileEarly, Transfers, JobSet, guiVars
    <2>6. QED
      BY <2>1, <2>2, <2>3, <2>4, <2>5
  <1>3. QED
    BY <1>1, <1>2, WalkMaps

LEMMA TransferEndsMap ==
  ASSUME JobTypeOK, JobTypeOK',
         NoticeCancel \/ EntryFails \/ ReadFails \/ FlushFails \/ Finish \/ SizingFails
  PROVE  Pipe!WorkerStep
  <1>1. CASE NoticeCancel
    <2>1. Cancelled /\ End(<<Pipe!Answer("operationCancelled", job.id)>>) /\ (AtEntry \/ AtCheck)
      BY <1>1 DEF NoticeCancel
    <2>2. job.phase = "copying" /\ ~NothingLeft
      BY <2>1, AtEntryIs, AtFile DEF NothingLeft
    <2>3. PipeWorker.phase = "moving" /\ PipeWorker.id = job.id
      BY <2>2, PipeWorkerIs
    <2>4. Pipe!AnswerTransfer(<<Pipe!Answer("operationCancelled", job.id)>>)
      BY <2>1, <2>2, EndMaps
    <2>5. Pipe!NoticeCancel
      BY <2>1, <2>3, <2>4 DEF Pipe!NoticeCancel, Cancelled
    <2>6. QED
      BY <2>5 DEF Pipe!WorkerStep
  <1>2. CASE EntryFails \/ ReadFails \/ FlushFails
    <2>1. Fail /\ (AtEntry \/ AtRead)
      BY <1>2 DEF EntryFails, ReadFails, FlushFails
    <2>2. job.phase = "copying" /\ ~NothingLeft
      BY <2>1, AtEntryIs, AtFile DEF NothingLeft
    <2>3. PipeWorker.phase = "moving" /\ PipeWorker.id = job.id
      BY <2>2, PipeWorkerIs
    <2>4. Pipe!AnswerTransfer(<<Pipe!Answer("operationFailed", job.id)>>)
      BY <2>1, <2>2, EndMaps DEF Fail
    <2>5. Pipe!MovingFails
      BY <2>3, <2>4 DEF Pipe!MovingFails
    <2>6. QED
      BY <2>5 DEF Pipe!WorkerStep
  <1>3. CASE Finish
    <2> DEFINE answers == <<Pipe!Signal("transferProgress", job.id, job.total, job.total),
                            Pipe!Answer("transferFinished", job.id)>>
    <2>1. NothingLeft /\ job.phase = "copying" /\ End(answers)
      BY <1>3 DEF Finish, NothingLeft
    <2>2. PipeWorker.phase = "closing" /\ PipeWorker.id = job.id /\ PipeWorker.total = job.total
      BY <2>1, PipeWorkerIs
    <2>3. Pipe!AnswerTransfer(answers)
      BY <2>1, EndMaps
    <2>4. Pipe!FinishTransfer
      BY <2>2, <2>3 DEF Pipe!FinishTransfer
    <2>5. QED
      BY <2>4 DEF Pipe!WorkerStep
  <1>4. CASE SizingFails
    <2>1. Fail /\ job.phase = "sizing"
      BY <1>4 DEF SizingFails
    <2>2. PipeWorker.phase = "sizing" /\ PipeWorker.id = job.id
      BY <2>1, PipeWorkerIs
    <2>3. Pipe!AnswerTransfer(<<Pipe!Answer("operationFailed", job.id)>>)
      BY <2>1, EndMaps DEF Fail
    <2>4. Pipe!SizingFails
      BY <2>2, <2>3 DEF Pipe!SizingFails
    <2>5. QED
      BY <2>4 DEF Pipe!WorkerStep
  <1>5. QED
    BY <1>1, <1>2, <1>3, <1>4

LEMMA StepMaps ==
  ASSUME IInv, JobTypeOK', PipeInv, PipeInv', Bounded', [Next]_vars
  PROVE  [Pipe!WorkerStep \/ GuiStep]_(Pipe!pipeVars)
  <1>0. QueueTypeOK /\ JobTypeOK /\ AnswerInv /\ IdsOK /\ MovesNothing
    BY DEF IInv, PipeInv
  <1>1. CASE UNCHANGED vars
    BY <1>1 DEF vars, Pipe!pipeVars, PipeCalls, PipeWorker, PipePhase, NothingLeft, PipeCall
  <1>2. CASE GuiStep
    BY <1>2
  <1>3. CASE TakeRemoval \/ EnterRemoved \/ RemoveOne
    BY <1>0, <1>3, UnseenMaps
  <1>4. CASE Shutdown
    BY <1>0, <1>4, ShutdownMaps
  <1>5. CASE RefuseRemoval
    BY <1>0, <1>5, RefuseRemovalMaps DEF Pipe!WorkerStep
  <1>6. CASE RemovalFails
    BY <1>0, <1>6, RemovalEndMaps DEF RemovalFails, Fail, Pipe!WorkerStep
  <1>7. CASE RemovalDone
    BY <1>0, <1>7, RemovalEndMaps DEF RemovalDone, Pipe!WorkerStep
  <1>8. CASE TakeTransfer
    BY <1>0, <1>8, TakeTransferMaps DEF Pipe!WorkerStep
  <1>9. CASE StartCopying
    BY <1>0, <1>9, StartCopyingMaps DEF Pipe!WorkerStep
  <1>10. CASE ReadChunk
    BY <1>0, <1>10, ReadChunkMaps DEF Pipe!WorkerStep
  <1>11. CASE EnterDirectory \/ OpenFile \/ CheckFile \/ EndFile \/ EndFileEarly
    BY <1>0, <1>11, CopyStepsMap DEF Pipe!WorkerStep
  <1>12. CASE NoticeCancel \/ EntryFails \/ ReadFails \/ FlushFails \/ Finish \/ SizingFails
    BY <1>0, <1>12, TransferEndsMap
  <1>13. QED
    BY <1>1, <1>2, <1>3, <1>4, <1>5, <1>6, <1>7, <1>8, <1>9, <1>10, <1>11, <1>12
       DEF Next, WorkerStep

LEMMA InitMaps ==
  ASSUME Init
  PROVE  PipeInv /\ Pipe!PipeInit
  <1>1. job.phase = "idle" /\ job.moved = 0 /\ job.total = 0 /\ IInv
    BY InitHolds DEF Init, NoJob
  <1>2. MovesNothing /\ JobTypeOK
    BY <1>1 DEF MovesNothing, IInv
  <1>3. IdsOK
    <2>1. ToSet(calls) = {}
      BY DEF Init, ToSet
    <2>2. QED
      BY <1>1, <2>1, TreeAssumption DEF Init, IdsOK, Asked
  <1>4. PipeWorker = Pipe!Idle
    BY <1>1, <1>2, PipeIdle
  <1>5. PipeCalls = <<>>
    BY <1>1 DEF Init, PipeCalls
  <1>6. QED
    BY <1>2, <1>3, <1>4, <1>5 DEF Init, PipeInv, Pipe!PipeInit

(***************************************************************************)
(* As long as no transfer is larger than the pipe of SftpSession allows,   *)
(* the worker that walks the trees is the worker of that pipe, step for    *)
(* step: one request at a time and in order, each answered once, progress  *)
(* only between the start of a transfer and its answer.  It is the safety  *)
(* of ServesAsPipe (SftpSession.cpp:352, 488, 615).                        *)
(***************************************************************************)
THEOREM ImplementsPipe ==
  Spec /\ []Bounded => Pipe!PipeInit /\ [][Pipe!WorkerStep \/ GuiStep]_(Pipe!pipeVars)
  <1>1. Init => PipeInv
    BY InitMaps
  <1>2. IInv /\ PipeInv /\ [Next]_vars => PipeInv'
    BY PipeInvKeeps DEF IInv
  <1>3. Spec => []PipeInv
    BY <1>1, <1>2, Invariance, PTL DEF Spec
  <1>4. IInv /\ IInv' /\ PipeInv /\ PipeInv' /\ Bounded' /\ [Next]_vars
          => [Pipe!WorkerStep \/ GuiStep]_(Pipe!pipeVars)
    BY StepMaps DEF IInv
  <1>5. Init => Pipe!PipeInit
    BY InitMaps
  <1>6. QED
    BY <1>3, <1>4, <1>5, Invariance, PTL DEF Spec

=============================================================================
