------------------------- MODULE ShellChannelProofs -------------------------
(***************************************************************************)
(* Proofs about ShellChannel for any sizes, windows, numbers of writes and *)
(* packets.                                                                *)
(*                                                                         *)
(* Of is recursive.  What it gives for every sequence is proved here by    *)
(* induction: an operator cannot be handed to a lemma, but the set of the  *)
(* numbers for which something holds can (Induct), and a set of numbers    *)
(* has a least element because < is well-founded on them.                  *)
(***************************************************************************)
EXTENDS ShellChannel, TLAPS, WellFoundedInduction

-----------------------------------------------------------------------------
(***************************************************************************)
(* Induction and recursion.                                                *)
(***************************************************************************)
(* Every set of natural numbers but the empty one has a least element. *)
LEMMA Least ==
  ASSUME NEW T, T \subseteq Nat, T # {}
  PROVE  \E x \in T : \A y \in T : ~(y < x)
  <1>1. PICK x \in T : \A y \in T : ~(<<y, x>> \in OpToRel(<, Nat))
    BY NatLessThanWellFounded, WFMin
  <1>2. \A y \in T : ~(y < x)
    <2>1. ASSUME NEW y \in T, y < x PROVE <<y, x>> \in OpToRel(<, Nat)
      BY <2>1 DEF OpToRel
    <2>2. QED
      BY <1>1, <2>1
  <1>3. QED
    BY <1>2

(* Induction, over a set. *)
LEMMA Induct ==
  ASSUME NEW S, 0 \in S, \A n \in Nat : n \in S => n + 1 \in S
  PROVE  Nat \subseteq S
  <1> SUFFICES ASSUME Nat \ S # {} PROVE FALSE
    OBVIOUS
  <1>1. PICK x \in Nat \ S : \A y \in Nat \ S : ~(y < x)
    BY Least
  <1>2. x - 1 \in Nat /\ x - 1 < x /\ x = (x - 1) + 1
    BY <1>1
  <1>3. QED
    BY <1>1, <1>2

(* A table filled row by row, each row from the one before. *)
IsTable(T, base, step, n, f) ==
  /\ f \in [0..n -> T]
  /\ f[0] = base
  /\ \A i \in 1..n : f[i] = step[i][f[i - 1]]

LEMMA Recursion ==
  ASSUME NEW T, NEW base \in T, NEW step \in [Nat -> [T -> T]], NEW n \in Nat
  PROVE  \E f : IsTable(T, base, step, n, f)
  <1> DEFINE S == {m \in Nat : \E f : IsTable(T, base, step, m, f)}
  <1>1. 0 \in S
    <2>1. IsTable(T, base, step, 0, [i \in 0..0 |-> base])
      BY DEF IsTable
    <2>2. QED
      BY <2>1
  <1>2. ASSUME NEW m \in Nat, m \in S
        PROVE  m + 1 \in S
    <2>1. PICK f : IsTable(T, base, step, m, f)
      BY <1>2
    <2> DEFINE g == [i \in 0..(m + 1) |-> IF i = m + 1 THEN step[m + 1][f[m]] ELSE f[i]]
    <2>2. g \in [0..(m + 1) -> T] /\ g[0] = base
      BY <2>1 DEF IsTable
    <2>3. \A i \in 1..(m + 1) : g[i] = step[i][g[i - 1]]
      BY <2>1 DEF IsTable
    <2>4. IsTable(T, base, step, m + 1, g)
      <3> HIDE DEF g
      <3>1. QED
        BY <2>2, <2>3 DEF IsTable
    <2>5. QED
      BY <2>4
  <1>3. Nat \subseteq S
    <2> HIDE DEF S
    <2>1. QED
      BY <1>1, <1>2, Induct
  <1>4. QED
    BY <1>3

-----------------------------------------------------------------------------
(***************************************************************************)
(* The packets of a stream.                                                *)
(***************************************************************************)
(* The table that Of is read from. *)
OfRows(s, stream, of) ==
  /\ of[0] = <<>>
  /\ \A i \in 1..Len(s) :
       of[i] = IF s[i].stream = stream THEN Append(of[i - 1], s[i]) ELSE of[i - 1]

LEMMA OfTable ==
  ASSUME NEW P, NEW s \in Seq(P), NEW stream
  PROVE  \E of \in [0..Len(s) -> Seq(P)] :
           OfRows(s, stream, of) /\ Of(s, stream) = of[Len(s)]
  <1> DEFINE T == Seq(P)
             base == <<>>
             step == [i \in Nat |-> [v \in T |->
                IF i \in 1..Len(s) /\ s[i].stream = stream THEN Append(v, s[i]) ELSE v]]
             Row(of, i) == IF i = 0 THEN <<>>
                           ELSE IF s[i].stream = stream THEN Append(of[i - 1], s[i]) ELSE of[i - 1]
             Table(of) == of = [i \in 0..Len(s) |-> Row(of, i)]
  <1>0. Len(s) \in Nat
    OBVIOUS
  <1>1. base \in T /\ step \in [Nat -> [T -> T]]
    OBVIOUS
  <1>2. PICK f : IsTable(T, base, step, Len(s), f)
    <2> HIDE DEF step, T, base
    <2>1. QED
      BY <1>0, <1>1, Recursion
  <1>3. f \in [0..Len(s) -> Seq(P)] /\ f[0] = <<>>
    BY <1>2 DEF IsTable
  <1>4. ASSUME NEW i \in 1..Len(s)
        PROVE  f[i] = Row(f, i)
    <2>1. f[i - 1] \in Seq(P) /\ i \in Nat /\ i # 0
      BY <1>0, <1>3, SMTT(30)
    <2>2. step[i][f[i - 1]] = Row(f, i)
      BY <2>1
    <2>3. QED
      BY <1>2, <2>2 DEF IsTable
  <1>5. Table(f)
    <2>1. f = [i \in 0..Len(s) |-> f[i]]
      BY <1>3
    <2>2. \A i \in 0..Len(s) : i = 0 \/ i \in 1..Len(s)
      BY <1>0
    <2>3. f[0] = Row(f, 0)
      BY <1>3
    <2>4. \A i \in 0..Len(s) : f[i] = Row(f, i)
      <3> HIDE DEF Row
      <3>1. QED
        BY <1>4, <2>2, <2>3
    <2> HIDE DEF Row
    <2>5. QED
      BY <2>1, <2>4
  <1> DEFINE of == CHOOSE g : Table(g)
  <1>6. Table(of)
    <2> HIDE DEF Table
    <2>1. QED
      BY <1>5
  <1>7. Of(s, stream) = of[Len(s)]
    BY DEF Of
  <1> HIDE DEF of
  <1>8. \A i \in 0..Len(s) : of[i] = Row(of, i)
    BY <1>6
  <1>9. OfRows(s, stream, of)
    <2>1. of[0] = <<>>
      BY <1>0, <1>8
    <2>2. ASSUME NEW i \in 1..Len(s)
          PROVE  of[i] = Row(of, i) /\ i # 0
      BY <1>0, <1>8
    <2>3. QED
      BY <2>1, <2>2 DEF OfRows
  <1>10. of \in [0..Len(s) -> Seq(P)]
    <2> DEFINE S == {n \in Nat : n <= Len(s) => of[n] \in Seq(P)}
    <2>1. 0 \in S
      <3>1. of[0] = <<>> /\ <<>> \in Seq(P)
        BY <1>9 DEF OfRows
      <3> HIDE DEF of
      <3>2. QED
        BY <3>1
    <2>2. ASSUME NEW n \in Nat, n \in S
          PROVE  n + 1 \in S
      <3>1. ASSUME n + 1 <= Len(s)
            PROVE  of[n + 1] \in Seq(P)
        <4>1. n + 1 \in 1..Len(s) /\ of[n] \in Seq(P) /\ s[n + 1] \in P
          BY <1>0, <2>2, <3>1
        <4>2. of[n + 1] = IF s[n + 1].stream = stream THEN Append(of[n], s[n + 1]) ELSE of[n]
          BY <1>9, <4>1 DEF OfRows
        <4>3. QED
          BY <4>1, <4>2
      <3>2. QED
        BY <3>1
    <2>3. Nat \subseteq S
      <3> HIDE DEF S
      <3>1. QED
        BY <2>1, <2>2, Induct
    <2>4. \A i \in 0..Len(s) : of[i] \in Seq(P)
      BY <1>0, <2>3
    <2>5. of = [i \in 0..Len(s) |-> of[i]]
      <3> HIDE DEF Row
      <3>1. QED
        BY <1>6
    <2>6. QED
      BY <2>4, <2>5
  <1>11. QED
    BY <1>7, <1>9, <1>10

LEMMA OfEmpty ==
  ASSUME NEW stream
  PROVE  Of(<<>>, stream) = <<>>
  <1> DEFINE s == <<>>
  <1>1. s \in Seq({0}) /\ Len(s) = 0
    OBVIOUS
  <1>2. PICK of \in [0..Len(s) -> Seq({0})] :
          OfRows(s, stream, of) /\ Of(s, stream) = of[Len(s)]
    <2> HIDE DEF s
    <2>1. QED
      BY <1>1, OfTable, ZenonT(40)
  <1>3. QED
    BY <1>1, <1>2 DEF OfRows

(* Two tables for sequences that begin alike begin alike. *)
LEMMA SameRows ==
  ASSUME NEW P, NEW s \in Seq(P), NEW t \in Seq(P), NEW stream, NEW m \in Nat,
         m <= Len(s), m <= Len(t), \A i \in 1..m : s[i] = t[i],
         NEW f, OfRows(s, stream, f), NEW g, OfRows(t, stream, g)
  PROVE  f[m] = g[m]
  <1> DEFINE S == {n \in Nat : n <= m => f[n] = g[n]}
  <1>1. 0 \in S
    BY DEF OfRows
  <1>2. ASSUME NEW n \in Nat, n \in S
        PROVE  n + 1 \in S
    <2>1. CASE n + 1 <= m
      <3>1. /\ n + 1 \in 1..Len(s) /\ n + 1 \in 1..Len(t) /\ n + 1 \in 1..m
            /\ f[n] = g[n] /\ (n + 1) - 1 = n
        BY <1>2, <2>1
      <3>2. QED
        BY <3>1 DEF OfRows
    <2>2. QED
      BY <2>1
  <1>3. Nat \subseteq S
    <2> HIDE DEF S
    <2>1. QED
      BY <1>1, <1>2, Induct
  <1>4. QED
    BY <1>3

LEMMA OfAppend ==
  ASSUME NEW P, NEW s \in Seq(P), NEW p \in P, NEW stream
  PROVE  /\ Of(s, stream) \in Seq(P)
         /\ Of(Append(s, p), stream) =
              IF p.stream = stream THEN Append(Of(s, stream), p) ELSE Of(s, stream)
  <1> DEFINE t == Append(s, p)
  <1>1. /\ t \in Seq(P) /\ Len(s) \in Nat /\ Len(t) = Len(s) + 1 /\ t[Len(t)] = p
        /\ \A i \in 1..Len(s) : s[i] = t[i]
    OBVIOUS
  <1> HIDE DEF t
  <1>2. PICK f \in [0..Len(s) -> Seq(P)] : OfRows(s, stream, f) /\ Of(s, stream) = f[Len(s)]
    BY OfTable
  <1>3. PICK g \in [0..Len(t) -> Seq(P)] : OfRows(t, stream, g) /\ Of(t, stream) = g[Len(t)]
    BY <1>1, OfTable
  <1>4. f[Len(s)] = g[Len(s)]
    BY <1>1, <1>2, <1>3, SameRows, SMTT(30)
  <1>5. g[Len(t)] = IF p.stream = stream THEN Append(g[Len(s)], p) ELSE g[Len(s)]
    BY <1>1, <1>3 DEF OfRows
  <1>6. QED
    BY <1>1, <1>2, <1>3, <1>4, <1>5 DEF t

(* Of goes through a sequence from the front. *)
LEMMA PrefixGrows ==
  ASSUME NEW P, NEW s \in Seq(P), NEW n \in Nat, n + 1 <= Len(s)
  PROVE  /\ SubSeq(s, 1, n) \in Seq(P) /\ s[n + 1] \in P
         /\ SubSeq(s, 1, n + 1) = Append(SubSeq(s, 1, n), s[n + 1])
  OBVIOUS

LEMMA OfConcat ==
  ASSUME NEW P, NEW s \in Seq(P), NEW t \in Seq(P), NEW stream
  PROVE  Of(s \o t, stream) = Of(s, stream) \o Of(t, stream)
  <1> DEFINE At(n) == SubSeq(t, 1, n)
             S == {n \in Nat : n <= Len(t) =>
                     Of(s \o At(n), stream) = Of(s, stream) \o Of(At(n), stream)}
  <1>0. Of(s, stream) \in Seq(P)
    BY OfTable
  <1>1. 0 \in S
    <2>1. At(0) = <<>> /\ s \o <<>> = s /\ Of(s, stream) \o <<>> = Of(s, stream)
      BY <1>0
    <2>2. QED
      BY <2>1, OfEmpty
  <1>2. ASSUME NEW n \in Nat, n \in S
        PROVE  n + 1 \in S
    <2>1. ASSUME n + 1 <= Len(t)
          PROVE  Of(s \o At(n + 1), stream) = Of(s, stream) \o Of(At(n + 1), stream)
      <3>1. At(n) \in Seq(P) /\ t[n + 1] \in P /\ At(n + 1) = Append(At(n), t[n + 1])
        BY <2>1, PrefixGrows
      <3> DEFINE before == At(n)  p == t[n + 1]
      <3>2. Of(s \o before, stream) = Of(s, stream) \o Of(before, stream)
        BY <1>2, <2>1
      <3>3. before \in Seq(P) /\ p \in P /\ At(n + 1) = Append(before, p)
        BY <3>1
      <3> HIDE DEF At, before, p
      <3>4. s \o Append(before, p) = Append(s \o before, p) /\ s \o before \in Seq(P)
        BY <3>3
      <3>5. /\ Of(before, stream) \in Seq(P)
            /\ Of(Append(before, p), stream) =
                 IF p.stream = stream THEN Append(Of(before, stream), p) ELSE Of(before, stream)
        BY <3>3, OfAppend
      <3>6. Of(Append(s \o before, p), stream) =
              IF p.stream = stream THEN Append(Of(s \o before, stream), p)
              ELSE Of(s \o before, stream)
        <4> DEFINE whole == s \o before
        <4>1. whole \in Seq(P) /\ p \in P
          BY <3>3, <3>4
        <4> HIDE DEF whole
        <4>2. Of(Append(whole, p), stream) =
                IF p.stream = stream THEN Append(Of(whole, stream), p) ELSE Of(whole, stream)
          BY <4>1, OfAppend
        <4>3. QED
          BY <4>2 DEF whole
      <3>7. Append(Of(s, stream) \o Of(before, stream), p)
              = Of(s, stream) \o Append(Of(before, stream), p)
        <4> DEFINE u == Of(s, stream)  v == Of(before, stream)
        <4>1. u \in Seq(P) /\ v \in Seq(P)
          BY <1>0, <3>5
        <4> HIDE DEF u, v
        <4>2. u \o Append(v, p) = Append(u \o v, p)
          BY <3>3, <4>1
        <4>3. QED
          BY <4>2 DEF u, v
      <3>8. QED
        BY <3>2, <3>3, <3>4, <3>5, <3>6, <3>7
    <2>2. QED
      BY <2>1
  <1>3. Nat \subseteq S
    <2> HIDE DEF S
    <2>1. QED
      BY <1>1, <1>2, Induct
  <1>4. At(Len(t)) = t /\ Len(t) \in Nat /\ Len(t) <= Len(t)
    OBVIOUS
  <1>5. Len(t) \in S
    <2> HIDE DEF S
    <2>1. QED
      BY <1>3, <1>4
  <1>6. Of(s \o At(Len(t)), stream) = Of(s, stream) \o Of(At(Len(t)), stream)
    BY <1>4, <1>5
  <1>7. QED
    BY <1>4, <1>6

LEMMA OfOne ==
  ASSUME NEW p, NEW stream
  PROVE  Of(<<p>>, stream) = IF p.stream = stream THEN <<p>> ELSE <<>>
  <1> DEFINE P == {p}  s == <<>>
  <1>1. p \in P /\ s \in Seq(P)
    OBVIOUS
  <1>2. Append(s, p) = <<p>>
    OBVIOUS
  <1>3. Of(s, stream) = s
    BY OfEmpty
  <1>4. Of(Append(s, p), stream) = IF p.stream = stream THEN Append(Of(s, stream), p)
                                   ELSE Of(s, stream)
    <2> HIDE DEF P, s
    <2>1. QED
      BY <1>1, OfAppend
  <1>5. QED
    BY <1>2, <1>3, <1>4

(* What is of one stream is all of that stream. *)
LEMMA OfOf ==
  ASSUME NEW P, NEW s \in Seq(P), NEW a, NEW b
  PROVE  Of(Of(s, a), b) = IF a = b THEN Of(s, a) ELSE <<>>
  <1> DEFINE At(n) == SubSeq(s, 1, n)
             S == {n \in Nat : n <= Len(s) =>
                     Of(Of(At(n), a), b) = IF a = b THEN Of(At(n), a) ELSE <<>>}
  <1>1. 0 \in S
    <2>1. At(0) = <<>>
      OBVIOUS
    <2>2. QED
      BY <2>1, OfEmpty
  <1>2. ASSUME NEW n \in Nat, n \in S
        PROVE  n + 1 \in S
    <2>1. ASSUME n + 1 <= Len(s)
          PROVE  Of(Of(At(n + 1), a), b) = IF a = b THEN Of(At(n + 1), a) ELSE <<>>
      <3> DEFINE before == At(n)  p == s[n + 1]
      <3>1. before \in Seq(P) /\ p \in P /\ At(n + 1) = Append(before, p)
        BY <2>1, PrefixGrows
      <3>2. Of(Of(before, a), b) = IF a = b THEN Of(before, a) ELSE <<>>
        BY <1>2, <2>1
      <3> HIDE DEF At, before, p
      <3>3. /\ Of(before, a) \in Seq(P)
            /\ Of(Append(before, p), a) =
                 IF p.stream = a THEN Append(Of(before, a), p) ELSE Of(before, a)
        BY <3>1, OfAppend
      <3>4. Of(Append(Of(before, a), p), b) =
              IF p.stream = b THEN Append(Of(Of(before, a), b), p) ELSE Of(Of(before, a), b)
        BY <3>1, <3>3, OfAppend
      <3>5. QED
        BY <3>1, <3>2, <3>3, <3>4
    <2>2. QED
      BY <2>1
  <1>3. Nat \subseteq S
    <2> HIDE DEF S
    <2>1. QED
      BY <1>1, <1>2, Induct
  <1>4. At(Len(s)) = s /\ Len(s) \in Nat /\ Len(s) <= Len(s)
    OBVIOUS
  <1>5. Len(s) \in S
    <2> HIDE DEF S
    <2>1. QED
      BY <1>3, <1>4
  <1>6. Of(Of(At(Len(s)), a), b) = IF a = b THEN Of(At(Len(s)), a) ELSE <<>>
    BY <1>4, <1>5
  <1>7. QED
    BY <1>4, <1>6

(* What Of finds is there. *)
LEMMA OfFinds ==
  ASSUME NEW P, NEW s \in Seq(P), NEW a
  PROVE  \A i \in 1..Len(Of(s, a)) :
           Of(s, a)[i].stream = a /\ \E j \in 1..Len(s) : Of(s, a)[i] = s[j]
  <1> DEFINE At(n) == SubSeq(s, 1, n)
             Found(t) == \A i \in 1..Len(t) : t[i].stream = a /\ \E j \in 1..Len(s) : t[i] = s[j]
             S == {n \in Nat : n <= Len(s) => Found(Of(At(n), a))}
  <1>1. 0 \in S
    <2>1. At(0) = <<>> /\ Found(<<>>)
      OBVIOUS
    <2> HIDE DEF Found
    <2>2. QED
      BY <2>1, OfEmpty
  <1>2. ASSUME NEW n \in Nat, n \in S
        PROVE  n + 1 \in S
    <2>1. ASSUME n + 1 <= Len(s)
          PROVE  Found(Of(At(n + 1), a))
      <3> DEFINE before == At(n)  p == s[n + 1]
      <3>1. before \in Seq(P) /\ p \in P /\ At(n + 1) = Append(before, p)
        BY <2>1, PrefixGrows
      <3>2. Found(Of(before, a))
        BY <1>2, <2>1
      <3>3. \E j \in 1..Len(s) : p = s[j]
        BY <2>1
      <3> HIDE DEF At, before, p
      <3>4. /\ Of(before, a) \in Seq(P)
            /\ Of(Append(before, p), a) =
                 IF p.stream = a THEN Append(Of(before, a), p) ELSE Of(before, a)
        BY <3>1, OfAppend
      <3>5. p.stream = a => Found(Append(Of(before, a), p))
        <4> DEFINE t == Of(before, a)
        <4>1. t \in Seq(P) /\ Found(t)
          BY <3>2, <3>4
        <4> HIDE DEF t
        <4>2. p.stream = a => Found(Append(t, p))
          BY <3>1, <3>3, <4>1
        <4>3. QED
          BY <4>2 DEF t
      <3> HIDE DEF Found
      <3>6. QED
        BY <3>1, <3>2, <3>4, <3>5
    <2> HIDE DEF Found
    <2>2. QED
      BY <2>1
  <1>3. Nat \subseteq S
    <2> HIDE DEF S
    <2>1. QED
      BY <1>1, <1>2, Induct
  <1>4. At(Len(s)) = s /\ Len(s) \in Nat /\ Len(s) <= Len(s)
    OBVIOUS
  <1>5. Len(s) \in S
    <2> HIDE DEF S
    <2>1. QED
      BY <1>3, <1>4
  <1>6. Found(Of(At(Len(s)), a))
    <2> HIDE DEF Found
    <2>1. QED
      BY <1>4, <1>5
  <1>7. Found(Of(s, a))
    <2> HIDE DEF Found
    <2>1. QED
      BY <1>4, <1>6
  <1>8. QED
    BY <1>7

LEMMA OfNone ==
  ASSUME NEW P, NEW s \in Seq(P), NEW a, \A i \in 1..Len(s) : s[i].stream # a
  PROVE  Of(s, a) = <<>>
  <1>1. Of(s, a) \in Seq(P)
    BY OfTable
  <1>2. ASSUME Of(s, a) # <<>>
        PROVE  FALSE
    <2>1. 1 \in 1..Len(Of(s, a))
      BY <1>1, <1>2
    <2>2. QED
      BY <2>1, OfFinds
  <1>3. QED
    BY <1>2

-----------------------------------------------------------------------------
(***************************************************************************)
(* Bytes, and the writes that are still posted.                            *)
(***************************************************************************)
LEMMA BytesTyped ==
  ASSUME NEW i \in Nat, NEW j \in Nat, i <= j
  PROVE  /\ Bytes(i, j) \in Seq(Nat) /\ Len(Bytes(i, j)) = j - i
         /\ \A k \in 1..(j - i) : Bytes(i, j)[k] = i + k
  BY DEF Bytes

LEMMA JoinedAt ==
  ASSUME NEW S, NEW x \in Seq(S), NEW y \in Seq(S), NEW n \in 1..(Len(x) + Len(y))
  PROVE  (x \o y)[n] = IF n <= Len(x) THEN x[n] ELSE y[n - Len(x)]
  OBVIOUS

LEMMA SameSequence ==
  ASSUME NEW S, NEW x \in Seq(S), NEW y \in Seq(S), Len(x) = Len(y),
         \A i \in 1..Len(x) : x[i] = y[i]
  PROVE  x = y
  OBVIOUS

LEMMA BytesJoin ==
  ASSUME NEW i \in Nat, NEW j \in Nat, NEW k \in Nat, i <= j, j <= k
  PROVE  Bytes(i, j) \o Bytes(j, k) = Bytes(i, k)
  <1> DEFINE x == Bytes(i, j)  y == Bytes(j, k)  z == Bytes(i, k)
  <1>1. x \in Seq(Nat) /\ Len(x) = j - i /\ \A n \in 1..(j - i) : x[n] = i + n
    BY BytesTyped
  <1>2. y \in Seq(Nat) /\ Len(y) = k - j /\ \A n \in 1..(k - j) : y[n] = j + n
    BY BytesTyped
  <1>3. i <= k
    OBVIOUS
  <1>4. z \in Seq(Nat) /\ Len(z) = k - i /\ \A n \in 1..(k - i) : z[n] = i + n
    BY <1>3, BytesTyped
  <1> HIDE DEF x, y, z
  <1>5. x \o y \in Seq(Nat) /\ Len(x \o y) = Len(z)
    BY <1>1, <1>2, <1>4
  <1>6. ASSUME NEW n \in 1..Len(z)
        PROVE  (x \o y)[n] = z[n]
    <2>0. x \in Seq(Nat) /\ y \in Seq(Nat) /\ n \in 1..(Len(x) + Len(y))
      BY <1>1, <1>2, <1>4
    <2>1. (x \o y)[n] = IF n <= Len(x) THEN x[n] ELSE y[n - Len(x)]
      BY <2>0, JoinedAt
    <2>2. z[n] = i + n
      BY <1>4
    <2>3. n \in Nat /\ n >= 1 /\ n <= k - i
      BY <1>4
    <2>4. ASSUME n > Len(x)
          PROVE  y[n - Len(x)] = i + n
      <3>1. n - Len(x) \in 1..(k - j) /\ j + (n - Len(x)) = i + n
        BY <1>1, <2>3, <2>4
      <3>2. QED
        BY <1>2, <3>1
    <2>5. ASSUME n <= Len(x)
          PROVE  x[n] = i + n
      BY <1>1, <2>3, <2>5
    <2>6. QED
      BY <1>1, <2>1, <2>2, <2>3, <2>4, <2>5
  <1>7. x \o y = z
    BY <1>4, <1>5, <1>6, SameSequence
  <1>8. QED
    BY <1>7 DEF x, y, z

LEMMA BytesSplit ==
  ASSUME NEW i \in Nat, NEW j \in Nat, NEW n \in 1..(j - i)
  PROVE  /\ SubSeq(Bytes(i, j), 1, n) = Bytes(i, i + n)
         /\ SubSeq(Bytes(i, j), n + 1, j - i) = Bytes(i + n, j)
  <1> DEFINE x == Bytes(i, j)  y == Bytes(i, i + n)  z == Bytes(i + n, j)
  <1>1. x \in Seq(Nat) /\ Len(x) = j - i /\ \A k \in 1..(j - i) : x[k] = i + k
    BY BytesTyped
  <1>2. y \in Seq(Nat) /\ Len(y) = n /\ \A k \in 1..n : y[k] = i + k
    <2>1. i + n \in Nat /\ i <= i + n /\ (i + n) - i = n
      OBVIOUS
    <2>2. QED
      BY <2>1, BytesTyped
  <1>3. /\ z \in Seq(Nat) /\ Len(z) = (j - i) - n
        /\ \A k \in 1..((j - i) - n) : z[k] = (i + n) + k
    <2>1. i + n \in Nat /\ i + n <= j /\ j - (i + n) = (j - i) - n
      OBVIOUS
    <2>2. QED
      BY <2>1, BytesTyped
  <1> HIDE DEF x, y, z
  <1>4. SubSeq(x, 1, n) = y
    BY <1>1, <1>2
  <1>5. SubSeq(x, n + 1, j - i) = z
    <2>1. n + 1 \in Nat /\ j - i \in Nat
      OBVIOUS
    <2>2. /\ SubSeq(x, n + 1, j - i) \in Seq(Nat)
          /\ Len(SubSeq(x, n + 1, j - i)) = (j - i) - n
          /\ \A k \in 1..((j - i) - n) : SubSeq(x, n + 1, j - i)[k] = x[n + k]
      BY <1>1, <2>1
    <2>3. QED
      BY <1>1, <1>3, <2>2
  <1>6. QED
    BY <1>4, <1>5 DEF x, y, z

PostSet ==
  [call : {"start", "shutdown"}]
  \cup [call : {"write"}, data : Seq(Nat)]
  \cup [call : {"resize"}, size : Sizes]

(* The posted writes take up where the bytes up to `from` end and come to `to`. *)
Leads(post, from, to) ==
  IF post.call = "write" THEN to = from + WriteSize /\ post.data = Bytes(from, to)
  ELSE to = from

IsChain(ps, from, to, marks) ==
  /\ marks \in [1..(Len(ps) + 1) -> Nat]
  /\ marks[1] = from /\ marks[Len(ps) + 1] = to
  /\ \A i \in 1..Len(ps) : Leads(ps[i], marks[i], marks[i + 1])

Chain(ps, from, to) == \E marks : IsChain(ps, from, to, marks)

LEMMA ChainEmpty ==
  ASSUME NEW n \in Nat
  PROVE  Chain(<<>>, n, n)
  <1>1. IsChain(<<>>, n, n, [i \in 1..1 |-> n])
    BY DEF IsChain
  <1>2. QED
    BY <1>1 DEF Chain

LEMMA ChainAppend ==
  ASSUME NEW ps \in Seq(PostSet), NEW post \in PostSet, NEW from, NEW mid, NEW to \in Nat,
         Chain(ps, from, mid), Leads(post, mid, to)
  PROVE  Chain(Append(ps, post), from, to)
  <1>1. PICK marks : IsChain(ps, from, mid, marks)
    BY DEF Chain
  <1> DEFINE more == [i \in 1..(Len(ps) + 2) |-> IF i = Len(ps) + 2 THEN to ELSE marks[i]]
             qs == Append(ps, post)
  <1>2. /\ Len(ps) \in Nat /\ Len(qs) = Len(ps) + 1 /\ qs[Len(ps) + 1] = post
        /\ \A i \in 1..Len(ps) : qs[i] = ps[i]
    OBVIOUS
  <1>3. more \in [1..(Len(qs) + 1) -> Nat] /\ more[1] = from /\ more[Len(qs) + 1] = to
    BY <1>1, <1>2 DEF IsChain
  <1>4. ASSUME NEW i \in 1..Len(qs)
        PROVE  Leads(qs[i], more[i], more[i + 1])
    <2>1. CASE i = Len(ps) + 1
      BY <1>1, <1>2, <2>1 DEF IsChain
    <2>2. CASE i \in 1..Len(ps)
      <3>1. more[i] = marks[i] /\ more[i + 1] = marks[i + 1] /\ qs[i] = ps[i]
        BY <1>2, <2>2
      <3>2. Leads(ps[i], marks[i], marks[i + 1])
        BY <1>1, <2>2 DEF IsChain
      <3>3. QED
        BY <3>1, <3>2
    <2>3. QED
      BY <1>2, <2>1, <2>2
  <1> HIDE DEF more, qs
  <1>5. IsChain(qs, from, to, more)
    BY <1>3, <1>4 DEF IsChain
  <1>6. QED
    BY <1>5 DEF Chain, qs

LEMMA ChainTail ==
  ASSUME NEW ps \in Seq(PostSet), ps # <<>>, NEW from, NEW to, Chain(ps, from, to)
  PROVE  \E mid \in Nat : Leads(Head(ps), from, mid) /\ Chain(Tail(ps), mid, to)
  <1>1. PICK marks : IsChain(ps, from, to, marks)
    BY DEF Chain
  <1> DEFINE less == [i \in 1..Len(ps) |-> marks[i + 1]]
             qs == Tail(ps)
  <1>2. /\ Len(ps) \in Nat /\ Len(ps) > 0 /\ Len(qs) + 1 = Len(ps) /\ Head(ps) = ps[1]
        /\ Len(qs) \in Nat /\ \A i \in 1..Len(qs) : qs[i] = ps[i + 1]
    OBVIOUS
  <1>3. marks[2] \in Nat /\ Leads(ps[1], from, marks[2])
    BY <1>1, <1>2 DEF IsChain
  <1>4. /\ less \in [1..(Len(qs) + 1) -> Nat]
        /\ less[1] = marks[2] /\ less[Len(qs) + 1] = to
    BY <1>1, <1>2 DEF IsChain
  <1>5. ASSUME NEW i \in 1..Len(qs)
        PROVE  Leads(qs[i], less[i], less[i + 1])
    <2>1. less[i] = marks[i + 1] /\ less[i + 1] = marks[(i + 1) + 1] /\ i + 1 \in 1..Len(ps)
      BY <1>2
    <2>2. QED
      BY <1>1, <1>2, <2>1 DEF IsChain
  <1> HIDE DEF less, qs
  <1>6. IsChain(qs, marks[2], to, less)
    BY <1>4, <1>5 DEF IsChain
  <1>7. QED
    BY <1>2, <1>3, <1>6 DEF Chain, qs

(* Without a write among them nothing lies between. *)
LEMMA ChainQuiet ==
  ASSUME NEW ps \in Seq(PostSet), NEW from, NEW to, Chain(ps, from, to),
         \A i \in 1..Len(ps) : ps[i].call # "write"
  PROVE  from = to
  <1>1. PICK marks : IsChain(ps, from, to, marks)
    BY DEF Chain
  <1> DEFINE S == {n \in Nat : n <= Len(ps) => marks[n + 1] = from}
  <1>2. 0 \in S
    BY <1>1 DEF IsChain
  <1>3. ASSUME NEW n \in Nat, n \in S
        PROVE  n + 1 \in S
    <2>1. ASSUME n + 1 <= Len(ps)
          PROVE  marks[(n + 1) + 1] = from
      <3>1. n + 1 \in 1..Len(ps) /\ marks[n + 1] = from
        BY <1>3, <2>1
      <3>2. Leads(ps[n + 1], marks[n + 1], marks[(n + 1) + 1])
        BY <1>1, <3>1 DEF IsChain
      <3>3. QED
        BY <3>1, <3>2 DEF Leads
    <2>2. QED
      BY <2>1
  <1>4. Nat \subseteq S
    <2> HIDE DEF S
    <2>1. QED
      BY <1>2, <1>3, Induct
  <1>5. Len(ps) \in Nat /\ Len(ps) <= Len(ps)
    OBVIOUS
  <1>6. Len(ps) \in S
    <2> HIDE DEF S
    <2>1. QED
      BY <1>4, <1>5
  <1>7. QED
    BY <1>1, <1>5, <1>6 DEF IsChain

-----------------------------------------------------------------------------
(***************************************************************************)
(* The inductive invariant, part by part.                                  *)
(***************************************************************************)
PacketSet == [stream : {"out", "err", "close", "none"}, n : Nat]

SignalSet ==
  [kind : {"data"}, packet : PacketSet]
  \cup [kind : {"connected", "failed", "closed"}, packet : {NoPacket}]

SessionSet ==
  [state : States, channel : BOOLEAN, watching : BOOLEAN, pendingSize : Sizes,
   pendingWrite : {<<>>}]

TaskSet ==
  [in : {"idle", "open", "drain"}]
  \cup [in : {"write"}, data : Seq(Nat), waits : Nat, drains : BOOLEAN]
  \cup [in : {"close"}, cause : {"open", "shutdown", "write", "error", "end"},
        state : Over, kind : Ends]

PeerSet ==
  [link : {"up", "broken", "wedged"}, input : Seq(Nat), room : Nat, size : Sizes,
   refused : BOOLEAN, printed : Seq(PacketSet), wire : Seq(PacketSet), seen : Nat]

GuiSet ==
  [phase : {"new", "open", "stopping", "gone"}, size : Sizes, resizes : Nat, typed : Nat,
   shellReady : BOOLEAN, screen : Seq(PacketSet), ended : Nat]

Types ==
  /\ posts \in Seq(PostSet)
  /\ signals \in Seq(SignalSet)
  /\ session \in SessionSet
  /\ task \in TaskSet
  /\ peer \in PeerSet
  /\ gui \in GuiSet

(* What the worker is in the middle of, and the state of the session. *)
Life ==
  /\ task.in = "open" => session.state = "Authenticating"
  /\ task.in \in {"write", "drain"} => session.state = "Ready"
  /\ task.in = "close" =>
       session.channel /\ session.state \in {"Authenticating", "Ready", "Closing"}
  /\ task.in = "idle" => session.state \in {"Idle", "Ready"} \cup Over
  /\ session.watching => session.channel /\ session.state = "Ready"
  /\ session.state = "Ready" => session.channel
  /\ session.state \in Over \cup {"Idle"} => ~session.channel /\ ~session.watching
  /\ task.in = "write" => task.waits < MaxWaits /\ task.data # <<>>

(* The shutdown is the last post, and nothing is done behind it. *)
Stops ==
  /\ \A i \in 1..Len(posts) : posts[i].call = "shutdown" =>
       i = Len(posts) /\ gui.phase = "stopping"
  /\ task.in = "close" /\ task.cause = "shutdown" => posts = <<>> /\ gui.phase = "stopping"
  /\ gui.phase = "gone" => posts = <<>> /\ task = Idle /\ session.state \in Over

(* The start is posted before the first write. *)
Starts ==
  /\ gui.phase = "new" =>
       session.state = "Idle" /\ \A i \in 1..Len(posts) : posts[i].call = "resize"
  /\ session.state = "Idle" /\ gui.phase # "new" => Posted("start")
  /\ session.state = "Idle" =>
       \A i \in 1..Len(posts) : posts[i].call = "write" =>
         \E j \in 1..Len(posts) : j < i /\ posts[j].call = "start"

(* The bytes the channel has got, those being written and those posted are
   what was typed, one behind the other. *)
Taking == session.state \in {"Idle", "Authenticating", "Ready"} /\ task.in # "close"

Taken ==
  IF session.state # "Ready" THEN Startup
  ELSE IF task.in = "write" THEN Len(peer.input) + Len(task.data)
  ELSE Len(peer.input)

Input ==
  /\ peer.input = Bytes(0, Len(peer.input))
  /\ task.in = "write" =>
       task.data = Bytes(Len(peer.input), Len(peer.input) + Len(task.data))
  /\ session.state \in {"Idle", "Authenticating"} => peer.input = <<>>
  /\ Taking => Chain(posts, Taken, Startup + gui.typed)

(* The last size that was asked for is the terminal's. *)
Sizing ==
  /\ \A i \in 1..Len(posts) :
       /\ posts[i].call = "resize"
       /\ \A j \in 1..Len(posts) : j > i => posts[j].call # "resize"
       => posts[i].size = gui.size
  /\ ~Posted("resize") => session.pendingSize = gui.size
  /\ session.state = "Ready" => peer.refused \/ peer.size = session.pendingSize

(* Of each stream, what was emitted and what is still to be read is what was
   printed; once the connection has been given up, what was emitted is the
   front of it. *)
Lossy == peer.link = "broken" /\ (task.in = "close" \/ session.state \in Over)

Flow(stream) ==
  IF Lossy THEN Begins(Of(Emitted, stream), Of(peer.printed, stream))
  ELSE Of(Emitted, stream) \o Of(peer.wire, stream) = Of(peer.printed, stream)

Output ==
  /\ \A i \in 1..Len(peer.wire) : peer.wire[i].stream = "close" => i = Len(peer.wire)
  /\ peer.seen <= Len(peer.wire)
  /\ \A stream \in {"out", "err"} : Flow(stream)
  /\ task.in = "close" /\ task.cause = "end" =>
       /\ HasClosed
       /\ \A stream \in {"out", "err"} : Of(Emitted, stream) = Of(peer.printed, stream)

Inv == Types /\ Life /\ Stops /\ Starts /\ Input /\ Sizing /\ Output /\ EndsOnce

-----------------------------------------------------------------------------
(***************************************************************************)
(* What has been emitted.                                                  *)
(***************************************************************************)
PacketsOf(sent) == [i \in 1..Len(sent) |-> sent[i].packet]

LEMMA PacketsTyped ==
  ASSUME NEW sent \in Seq(SignalSet)
  PROVE  PacketsOf(sent) \in Seq(PacketSet) /\ Len(PacketsOf(sent)) = Len(sent)
  <1>1. \A i \in 1..Len(sent) : sent[i].packet \in PacketSet
    BY DEF SignalSet, NoPacket, PacketSet
  <1>2. QED
    BY <1>1 DEF PacketsOf

LEMMA Packets ==
  ASSUME NEW a \in Seq(PacketSet), NEW b \in Seq(PacketSet)
  PROVE  a \o b \in Seq(PacketSet) /\ Len(a \o b) = Len(a) + Len(b)
  OBVIOUS

LEMMA PacketsAssociate ==
  ASSUME NEW a \in Seq(PacketSet), NEW b \in Seq(PacketSet), NEW c \in Seq(PacketSet)
  PROVE  (a \o b) \o c = a \o (b \o c)
  OBVIOUS

LEMMA OfTyped ==
  ASSUME NEW s \in Seq(PacketSet), NEW stream
  PROVE  Of(s, stream) \in Seq(PacketSet)
  <1> DEFINE P == PacketSet
  <1>1. s \in Seq(P)
    OBVIOUS
  <1> HIDE DEF P
  <1>2. PICK of \in [0..Len(s) -> Seq(P)] : Of(s, stream) = of[Len(s)]
    BY <1>1, OfTable
  <1>3. Len(s) \in 0..Len(s)
    BY <1>1
  <1>4. Of(s, stream) \in Seq(P)
    BY <1>2, <1>3
  <1>5. QED
    BY <1>4 DEF P

LEMMA OfJoins ==
  ASSUME NEW s \in Seq(PacketSet), NEW t \in Seq(PacketSet), NEW stream
  PROVE  Of(s \o t, stream) = Of(s, stream) \o Of(t, stream)
  <1> DEFINE P == PacketSet
  <1>1. s \in Seq(P) /\ t \in Seq(P)
    OBVIOUS
  <1> HIDE DEF P
  <1>2. QED
    BY <1>1, OfConcat

LEMMA PacketsJoin ==
  ASSUME NEW a \in Seq(SignalSet), NEW b \in Seq(SignalSet)
  PROVE  PacketsOf(a \o b) = PacketsOf(a) \o PacketsOf(b)
  <1> DEFINE x == PacketsOf(a)  y == PacketsOf(b)  z == PacketsOf(a \o b)
  <1>1. x \in Seq(PacketSet) /\ Len(x) = Len(a) /\ \A i \in 1..Len(a) : x[i] = a[i].packet
    BY PacketsTyped DEF PacketsOf
  <1>2. y \in Seq(PacketSet) /\ Len(y) = Len(b) /\ \A i \in 1..Len(b) : y[i] = b[i].packet
    BY PacketsTyped DEF PacketsOf
  <1>3. a \o b \in Seq(SignalSet) /\ Len(a \o b) = Len(a) + Len(b)
        /\ Len(a) \in Nat /\ Len(b) \in Nat
    OBVIOUS
  <1>4. z \in Seq(PacketSet) /\ Len(z) = Len(a) + Len(b)
    BY <1>3, PacketsTyped
  <1>5. \A i \in 1..(Len(a) + Len(b)) : z[i] = (a \o b)[i].packet
    BY <1>3 DEF PacketsOf
  <1> HIDE DEF x, y, z
  <1>6. x \o y \in Seq(PacketSet) /\ Len(x \o y) = Len(z)
    <2>1. x \in Seq(PacketSet) /\ y \in Seq(PacketSet) /\ Len(x) + Len(y) = Len(z)
      BY <1>1, <1>2, <1>4
    <2>2. QED
      BY <2>1, Packets
  <1>7. ASSUME NEW i \in 1..Len(z)
        PROVE  z[i] = (x \o y)[i]
    <2>1. i \in 1..(Len(a) + Len(b)) /\ i \in 1..(Len(x) + Len(y)) /\ i \in Nat
      BY <1>1, <1>2, <1>3, <1>4
    <2>2. (a \o b)[i] = IF i <= Len(a) THEN a[i] ELSE b[i - Len(a)]
      BY <2>1, JoinedAt
    <2>3. (x \o y)[i] = IF i <= Len(x) THEN x[i] ELSE y[i - Len(x)]
      BY <1>1, <1>2, <2>1, JoinedAt
    <2>4. i <= Len(a) => i \in 1..Len(a)
      BY <1>3, <2>1
    <2>5. ~(i <= Len(a)) => i - Len(a) \in 1..Len(b)
      BY <1>3, <2>1
    <2>6. QED
      BY <1>1, <1>2, <1>5, <2>1, <2>2, <2>3, <2>4, <2>5
  <1>8. z = x \o y
    BY <1>4, <1>6, <1>7, SameSequence
  <1>9. QED
    BY <1>8 DEF x, y, z

LEMMA DataPackets ==
  ASSUME NEW ps \in Seq(PacketSet)
  PROVE  /\ Data(ps) \in Seq(SignalSet) /\ PacketsOf(Data(ps)) = ps
         /\ \A i \in 1..Len(Data(ps)) : Data(ps)[i].kind = "data"
  <1>1. /\ Data(ps) \in Seq(SignalSet) /\ Len(Data(ps)) = Len(ps)
        /\ \A i \in 1..Len(ps) : Data(ps)[i].kind = "data" /\ Data(ps)[i].packet = ps[i]
    BY DEF Data, SignalSet
  <1>2. PacketsOf(Data(ps)) = [i \in 1..Len(ps) |-> ps[i]]
    BY <1>1 DEF PacketsOf
  <1>3. QED
    BY <1>1, <1>2

LEMMA EmitPackets ==
  ASSUME NEW kind \in {"connected", "failed", "closed"}
  PROVE  /\ Emit(kind) \in SignalSet /\ Emit(kind).kind = kind
         /\ PacketsOf(<<Emit(kind)>>) = <<NoPacket>>
  BY DEF Emit, SignalSet, PacketsOf

(* A signal that is no data shows nothing of a stream. *)
LEMMA NothingShown ==
  ASSUME NEW stream \in {"out", "err"}
  PROVE  Of(<<NoPacket>>, stream) = <<>> /\ Of(<<>>, stream) = <<>>
  BY OfOne, OfEmpty DEF NoPacket

LEMMA EmittedTyped ==
  ASSUME Types
  PROVE  /\ Emitted = gui.screen \o PacketsOf(signals) /\ Emitted \in Seq(PacketSet)
         /\ gui.screen \in Seq(PacketSet) /\ PacketsOf(signals) \in Seq(PacketSet)
         /\ peer.wire \in Seq(PacketSet) /\ peer.printed \in Seq(PacketSet)
  <1>1. gui.screen \in Seq(PacketSet) /\ peer.wire \in Seq(PacketSet)
        /\ peer.printed \in Seq(PacketSet) /\ signals \in Seq(SignalSet)
    BY DEF Types, GuiSet, PeerSet
  <1>2. PacketsOf(signals) \in Seq(PacketSet)
    BY <1>1, PacketsTyped
  <1>3. Emitted = gui.screen \o PacketsOf(signals)
    BY DEF Emitted, PacketsOf
  <1>4. QED
    BY <1>1, <1>2, <1>3

(* Signals that are added behind. *)
LEMMA EmittedGrows ==
  ASSUME Types, NEW more \in Seq(SignalSet), signals' = signals \o more,
         gui'.screen = gui.screen, NEW stream
  PROVE  Of(Emitted, stream)' = Of(Emitted, stream) \o Of(PacketsOf(more), stream)
  <1>1. signals \in Seq(SignalSet)
    BY DEF Types
  <1>2. PacketsOf(signals') = PacketsOf(signals) \o PacketsOf(more)
    BY <1>1, PacketsJoin
  <1>3. Emitted' = gui.screen \o PacketsOf(signals')
    BY DEF Emitted, PacketsOf
  <1> DEFINE a == gui.screen  b == PacketsOf(signals)  c == PacketsOf(more)
  <1>4. a \in Seq(PacketSet) /\ b \in Seq(PacketSet) /\ c \in Seq(PacketSet)
    BY EmittedTyped, PacketsTyped
  <1>5. Emitted = a \o b /\ Emitted' = a \o (b \o c)
    BY <1>2, <1>3, EmittedTyped
  <1> HIDE DEF a, b, c
  <1>6. a \o (b \o c) = (a \o b) \o c /\ a \o b \in Seq(PacketSet)
    BY <1>4
  <1>7. Of((a \o b) \o c, stream) = Of(a \o b, stream) \o Of(c, stream)
    BY <1>4, <1>6, OfJoins
  <1>8. QED
    BY <1>5, <1>6, <1>7 DEF c

(* A signal that is handled: its packet is on the screen. *)
LEMMA EmittedStays ==
  ASSUME Types, signals # <<>>, signals' = Tail(signals),
         \/ Head(signals).kind = "data" /\ gui'.screen = Append(gui.screen, Head(signals).packet)
         \/ Head(signals).kind # "data" /\ gui'.screen = gui.screen,
         NEW stream \in {"out", "err"}
  PROVE  Of(Emitted, stream)' = Of(Emitted, stream)
  <1> DEFINE first == Head(signals).packet  rest == PacketsOf(Tail(signals))
  <1>1. /\ signals \in Seq(SignalSet) /\ Head(signals) \in SignalSet
        /\ Tail(signals) \in Seq(SignalSet) /\ signals = <<Head(signals)>> \o Tail(signals)
        /\ <<Head(signals)>> \in Seq(SignalSet)
    BY DEF Types
  <1>2. PacketsOf(signals) = PacketsOf(<<Head(signals)>>) \o rest
    BY <1>1, PacketsJoin
  <1>3. PacketsOf(<<Head(signals)>>) = <<first>>
    BY DEF PacketsOf
  <1>4. /\ first \in PacketSet /\ rest \in Seq(PacketSet)
        /\ Head(signals).kind # "data" => first = NoPacket
    <2>1. rest \in Seq(PacketSet)
      BY <1>1, PacketsTyped
    <2>2. \A sent \in SignalSet :
            sent.packet \in PacketSet /\ (sent.kind # "data" => sent.packet = NoPacket)
      BY DEF SignalSet, NoPacket, PacketSet
    <2>3. QED
      BY <1>1, <2>1, <2>2
  <1>5. Emitted' = gui'.screen \o rest
    BY DEF Emitted, PacketsOf
  <1> DEFINE a == gui.screen
  <1>6. a \in Seq(PacketSet) /\ Emitted = a \o (<<first>> \o rest)
    BY <1>2, <1>3, EmittedTyped
  <1>7. CASE Head(signals).kind = "data"
    <2>1. Emitted' = Append(a, first) \o rest
      BY <1>5, <1>7
    <2> HIDE DEF a, first, rest
    <2>2. Append(a, first) \o rest = a \o (<<first>> \o rest)
      BY <1>4, <1>6
    <2>3. QED
      BY <1>6, <2>1, <2>2
  <1>8. CASE Head(signals).kind # "data"
    <2>1. first = NoPacket /\ Emitted' = a \o rest
      BY <1>4, <1>5, <1>8
    <2> HIDE DEF a, first, rest
    <2>2. <<first>> \in Seq(PacketSet) /\ <<first>> \o rest \in Seq(PacketSet)
      BY <1>4
    <2>3. Of(a \o (<<first>> \o rest), stream) = Of(a, stream) \o Of(<<first>> \o rest, stream)
      BY <1>6, <2>2, OfJoins
    <2>4. Of(<<first>> \o rest, stream) = Of(<<first>>, stream) \o Of(rest, stream)
      BY <1>4, <2>2, OfJoins, ZenonT(40)
    <2>5. Of(<<first>>, stream) = <<>>
      BY <2>1, NothingShown
    <2>6. Of(rest, stream) \in Seq(PacketSet)
      BY <1>4, OfTyped
    <2>7. <<>> \o Of(rest, stream) = Of(rest, stream)
      BY <2>6
    <2>8. Of(a \o rest, stream) = Of(a, stream) \o Of(rest, stream)
      BY <1>4, <1>6, OfJoins
    <2>9. QED
      BY <1>6, <2>1, <2>3, <2>4, <2>5, <2>7, <2>8
  <1>9. QED
    BY <1>7, <1>8

LEMMA SameEmitted ==
  ASSUME signals' = signals, gui'.screen = gui.screen
  PROVE  Emitted' = Emitted
  BY DEF Emitted

-----------------------------------------------------------------------------
(***************************************************************************)
(* The GUI thread.                                                         *)
(***************************************************************************)
LEMMA Appended ==
  ASSUME NEW S, NEW s \in Seq(S), NEW e \in S
  PROVE  /\ Append(s, e) \in Seq(S) /\ Len(Append(s, e)) = Len(s) + 1 /\ Len(s) \in Nat
         /\ \A i \in 1..Len(s) : Append(s, e)[i] = s[i]
         /\ Append(s, e)[Len(s) + 1] = e
         /\ \A i \in 1..(Len(s) + 1) : i \in 1..Len(s) \/ i = Len(s) + 1
  OBVIOUS

(* A post disturbs nothing of what the worker and the peer have. *)
LEMMA PostFrame ==
  ASSUME Inv, UNCHANGED <<signals, session, task, peer>>,
         gui'.screen = gui.screen, gui'.ended = gui.ended
  PROVE  Life' /\ Output' /\ EndsOnce'
  <1>1. Emitted' = Emitted
    BY SameEmitted
  <1>2. Life'
    BY DEF Inv, Life
  <1>3. Output'
    BY <1>1 DEF Inv, Output, Flow, Lossy, HasClosed
  <1>4. EndsOnce'
    BY DEF Inv, EndsOnce, EndIsNext
  <1>5. QED
    BY <1>2, <1>3, <1>4

(* A post that is no write and no resize. *)
LEMMA Calls ==
  ASSUME Inv, NEW post \in PostSet, Post(post), post.call \in {"start", "shutdown"},
         UNCHANGED <<session, task, peer>>,
         gui'.size = gui.size, gui'.typed = gui.typed
  PROVE  Input' /\ Sizing'
  <1>1. posts \in Seq(PostSet) /\ posts' = Append(posts, post)
    BY DEF Inv, Types, Post
  <1>2. /\ Len(posts') = Len(posts) + 1 /\ Len(posts) \in Nat
        /\ \A i \in 1..Len(posts) : posts'[i] = posts[i]
        /\ posts'[Len(posts) + 1] = post
        /\ \A i \in 1..Len(posts') : i \in 1..Len(posts) \/ i = Len(posts) + 1
    BY <1>1, Appended
  <1>3. ASSUME Chain(posts, Taken, Startup + gui.typed)
        PROVE  Chain(posts', Taken, Startup + gui.typed)
    <2> DEFINE from == Taken  to == Startup + gui.typed
    <2>1. to \in Nat
      BY ShellAssumption DEF Inv, Types, GuiSet
    <2>2. Leads(post, to, to)
      BY DEF Leads
    <2>3. Chain(posts, from, to)
      BY <1>3
    <2> HIDE DEF from, to
    <2>4. Chain(Append(posts, post), from, to)
      BY <1>1, <2>1, <2>2, <2>3, ChainAppend
    <2>5. QED
      BY <1>1, <2>4 DEF from, to
  <1>4. Input'
    BY <1>3 DEF Inv, Input, Taking, Taken
  <1>5. Sizing'
    <2>1. \A i \in 1..Len(posts') : posts'[i].call = "resize" =>
            i \in 1..Len(posts) /\ posts'[i] = posts[i]
      BY <1>2
    <2>2. \A j \in 1..Len(posts) : j \in 1..Len(posts') /\ posts'[j] = posts[j]
      BY <1>2
    <2>3. Posted("resize") => Posted("resize")'
      BY <2>2 DEF Posted
    <2>4. QED
      BY <2>1, <2>2, <2>3 DEF Inv, Sizing
  <1>6. QED
    BY <1>4, <1>5

LEMMA ConnectToHostInv ==
  ASSUME Inv, ConnectToHost
  PROVE  Inv'
  <1> DEFINE post == [call |-> "start"]
  <1>1. /\ posts \in Seq(PostSet) /\ gui \in GuiSet /\ gui.phase = "new"
        /\ posts' = Append(posts, post) /\ Post(post)
        /\ gui' = [gui EXCEPT !.phase = "open"]
        /\ UNCHANGED <<signals, session, task, peer>>
    BY DEF Inv, Types, ConnectToHost, Post
  <1>2. post \in PostSet /\ post.call = "start"
    BY DEF PostSet
  <1>3. /\ gui' \in GuiSet /\ gui'.phase = "open" /\ gui'.size = gui.size
        /\ gui'.typed = gui.typed /\ gui'.screen = gui.screen /\ gui'.ended = gui.ended
    BY <1>1 DEF GuiSet
  <1> HIDE DEF post
  <1>4. /\ posts' \in Seq(PostSet) /\ Len(posts') = Len(posts) + 1 /\ Len(posts) \in Nat
        /\ \A i \in 1..Len(posts) : posts'[i] = posts[i]
        /\ posts'[Len(posts) + 1] = post
        /\ \A i \in 1..Len(posts') : i \in 1..Len(posts) \/ i = Len(posts) + 1
    BY <1>1, <1>2, Appended
  <1>5. Types'
    BY <1>1, <1>3, <1>4 DEF Inv, Types
  <1>6. Life' /\ Output' /\ EndsOnce'
    BY <1>1, <1>3, PostFrame
  <1>7. Input' /\ Sizing'
    BY <1>1, <1>2, <1>3, Calls
  <1>8. \A i \in 1..Len(posts) : posts[i].call = "resize"
    BY <1>1 DEF Inv, Starts
  <1>9. Stops'
    BY <1>1, <1>2, <1>3, <1>4, <1>8 DEF Inv, Stops
  <1>10. Starts'
    <2>1. Posted("start")'
      BY <1>2, <1>4 DEF Posted
    <2>2. QED
      BY <1>2, <1>3, <1>4, <1>8, <2>1 DEF Starts
  <1>11. QED
    BY <1>5, <1>6, <1>7, <1>9, <1>10 DEF Inv

LEMMA StopInv ==
  ASSUME Inv, Stop
  PROVE  Inv'
  <1> DEFINE post == [call |-> "shutdown"]
  <1>1. /\ posts \in Seq(PostSet) /\ gui \in GuiSet /\ gui.phase = "open"
        /\ posts' = Append(posts, post) /\ Post(post)
        /\ gui' = [gui EXCEPT !.phase = "stopping"]
        /\ UNCHANGED <<signals, session, task, peer>>
    BY DEF Inv, Types, Stop, Post
  <1>2. post \in PostSet /\ post.call = "shutdown"
    BY DEF PostSet
  <1>3. /\ gui' \in GuiSet /\ gui'.phase = "stopping" /\ gui'.size = gui.size
        /\ gui'.typed = gui.typed /\ gui'.screen = gui.screen /\ gui'.ended = gui.ended
    BY <1>1 DEF GuiSet
  <1> HIDE DEF post
  <1>4. /\ posts' \in Seq(PostSet) /\ Len(posts') = Len(posts) + 1 /\ Len(posts) \in Nat
        /\ \A i \in 1..Len(posts) : posts'[i] = posts[i]
        /\ posts'[Len(posts) + 1] = post
        /\ \A i \in 1..Len(posts') : i \in 1..Len(posts) \/ i = Len(posts) + 1
    BY <1>1, <1>2, Appended
  <1>5. Types'
    BY <1>1, <1>3, <1>4 DEF Inv, Types
  <1>6. Life' /\ Output' /\ EndsOnce'
    BY <1>1, <1>3, PostFrame
  <1>7. Input' /\ Sizing'
    BY <1>1, <1>2, <1>3, Calls
  <1>9. Stops'
    BY <1>1, <1>2, <1>3, <1>4 DEF Inv, Stops
  <1>10. Starts'
    <2>1. \A j \in 1..Len(posts) : j \in 1..Len(posts') /\ posts'[j] = posts[j]
      BY <1>4
    <2>2. Posted("start") => Posted("start")'
      BY <2>1 DEF Posted
    <2>3. \A i \in 1..Len(posts') : posts'[i].call = "write" =>
            i \in 1..Len(posts) /\ posts[i].call = "write"
      BY <1>2, <1>4
    <2>4. session.state = "Idle" =>
            \A i \in 1..Len(posts) : posts[i].call = "write" =>
              \E j \in 1..Len(posts) : j < i /\ posts[j].call = "start"
      BY DEF Inv, Starts
    <2>5. session.state = "Idle" =>
            \A i \in 1..Len(posts') : posts'[i].call = "write" =>
              \E j \in 1..Len(posts') : j < i /\ posts'[j].call = "start"
      BY <2>1, <2>3, <2>4
    <2>6. QED
      BY <1>1, <1>3, <2>2, <2>5 DEF Inv, Starts
  <1>11. QED
    BY <1>5, <1>6, <1>7, <1>9, <1>10 DEF Inv

LEMMA TypeInv ==
  ASSUME Inv, Type
  PROVE  Inv'
  <1> DEFINE mid == Startup + gui.typed
             to == Startup + gui.typed + WriteSize
             post == [call |-> "write", data |-> Bytes(mid, to)]
  <1>1. /\ posts \in Seq(PostSet) /\ gui \in GuiSet /\ gui.phase = "open"
        /\ posts' = Append(posts, post)
        /\ gui' = [gui EXCEPT !.typed = @ + WriteSize]
        /\ UNCHANGED <<signals, session, task, peer>>
    BY DEF Inv, Types, Type, Post
  <1>2. gui.typed \in Nat /\ mid \in Nat /\ to \in Nat /\ to = mid + WriteSize /\ mid <= to
    BY <1>1, ShellAssumption, SMTT(30) DEF GuiSet
  <1>3. /\ gui' \in GuiSet /\ gui'.phase = "open" /\ gui'.size = gui.size
        /\ gui'.typed = gui.typed + WriteSize
        /\ gui'.screen = gui.screen /\ gui'.ended = gui.ended
    <2>1. gui \in GuiSet /\ gui.phase = "open" /\ gui' = [gui EXCEPT !.typed = @ + WriteSize]
      BY <1>1
    <2>2. gui.typed + WriteSize \in Nat
      BY <1>2, ShellAssumption
    <2>3. QED
      BY <2>1, <2>2 DEF GuiSet
  <1>4. to = Startup + gui'.typed
    BY <1>2, <1>3, ShellAssumption
  <1>5. post \in PostSet /\ post.call = "write" /\ post.data = Bytes(mid, to)
    <2>1. Bytes(mid, to) \in Seq(Nat)
      BY <1>2, BytesTyped
    <2>2. QED
      BY <2>1 DEF PostSet
  <1>6. mid = Startup + gui.typed
    OBVIOUS
  <1> HIDE DEF post, mid, to
  <1>7. /\ posts' \in Seq(PostSet) /\ Len(posts') = Len(posts) + 1 /\ Len(posts) \in Nat
        /\ \A i \in 1..Len(posts) : posts'[i] = posts[i]
        /\ posts'[Len(posts) + 1] = post
        /\ \A i \in 1..Len(posts') : i \in 1..Len(posts) \/ i = Len(posts) + 1
    BY <1>1, <1>5, Appended
  <1>8. Types'
    BY <1>1, <1>3, <1>7 DEF Inv, Types
  <1>9. Life' /\ Output' /\ EndsOnce'
    BY <1>1, <1>3, PostFrame
  <1>10. Stops'
    BY <1>1, <1>3, <1>5, <1>7 DEF Inv, Stops
  <1>11. Starts'
    <2>1. \A j \in 1..Len(posts) : j \in 1..Len(posts') /\ posts'[j] = posts[j]
      BY <1>7
    <2>2. session.state = "Idle" => Posted("start")
      BY <1>1 DEF Inv, Starts
    <2>3. session.state = "Idle" => Posted("start")'
      BY <2>1, <2>2 DEF Posted
    <2>4. ASSUME session.state = "Idle", NEW i \in 1..Len(posts'), posts'[i].call = "write"
          PROVE  \E j \in 1..Len(posts') : j < i /\ posts'[j].call = "start"
      <3>1. CASE i \in 1..Len(posts)
        <4>1. PICK j \in 1..Len(posts) : j < i /\ posts[j].call = "start"
          BY <2>4, <3>1, <2>1 DEF Inv, Starts
        <4>2. QED
          BY <2>1, <4>1
      <3>2. CASE i = Len(posts) + 1
        <4>1. PICK j \in 1..Len(posts) : posts[j].call = "start"
          BY <2>2, <2>4 DEF Posted
        <4>2. QED
          BY <1>7, <2>1, <3>2, <4>1
      <3>3. QED
        BY <1>7, <3>1, <3>2
    <2>5. QED
      BY <1>1, <1>3, <2>3, <2>4 DEF Starts
  <1>12. Input'
    <2>1. ASSUME Taking
          PROVE  Chain(posts', Taken, to)
      <3> DEFINE from == Taken
      <3>1. Chain(posts, from, mid)
        BY <1>6, <2>1 DEF Inv, Input
      <3>2. Leads(post, mid, to)
        BY <1>2, <1>5 DEF Leads
      <3> HIDE DEF from
      <3>3. Chain(Append(posts, post), from, to)
        BY <1>1, <1>2, <1>5, <3>1, <3>2, ChainAppend
      <3>4. QED
        BY <1>1, <3>3 DEF from
    <2>2. Taking' = Taking /\ Taken' = Taken
      BY <1>1 DEF Taking, Taken
    <2>3. QED
      BY <1>1, <1>4, <2>1, <2>2 DEF Inv, Input
  <1>13. Sizing'
    <2>1. \A i \in 1..Len(posts') : posts'[i].call = "resize" =>
            i \in 1..Len(posts) /\ posts'[i] = posts[i]
      BY <1>5, <1>7
    <2>2. \A j \in 1..Len(posts) : j \in 1..Len(posts') /\ posts'[j] = posts[j]
      BY <1>7
    <2>3. Posted("resize") => Posted("resize")'
      BY <2>2 DEF Posted
    <2>4. QED
      BY <1>1, <1>3, <2>1, <2>2, <2>3 DEF Inv, Sizing
  <1>14. QED
    BY <1>8, <1>9, <1>10, <1>11, <1>12, <1>13 DEF Inv

(* The terminal's size is posted: by the user's change of it, or when the session *)
(* is connected.                                                                 *)
LEMMA SizePosted ==
  ASSUME Inv, NEW post \in PostSet, post.call = "resize", post.size = gui'.size,
         posts' = Append(posts, post), signals' \in Seq(SignalSet), gui' \in GuiSet,
         gui'.phase = gui.phase, gui.phase \in {"new", "open"}, gui'.typed = gui.typed,
         UNCHANGED <<session, task, peer>>
  PROVE  Types' /\ Input' /\ Stops' /\ Starts' /\ Sizing'
  <1>1. posts \in Seq(PostSet)
    BY DEF Inv, Types
  <1>2. /\ posts' \in Seq(PostSet) /\ Len(posts') = Len(posts) + 1 /\ Len(posts) \in Nat
        /\ \A i \in 1..Len(posts) : posts'[i] = posts[i]
        /\ posts'[Len(posts) + 1] = post
        /\ \A i \in 1..Len(posts') : i \in 1..Len(posts) \/ i = Len(posts) + 1
    BY <1>1, Appended
  <1>3. \A j \in 1..Len(posts) : j \in 1..Len(posts') /\ posts'[j] = posts[j]
    BY <1>2
  <1>4. Types'
    BY <1>2 DEF Inv, Types
  <1>5. Stops'
    BY <1>2 DEF Inv, Stops
  <1>6. Starts'
    <2>1. Posted("start") => Posted("start")'
      BY <1>3 DEF Posted
    <2>2. \A i \in 1..Len(posts') : posts'[i].call = "write" =>
            i \in 1..Len(posts) /\ posts[i].call = "write"
      BY <1>2
    <2>3. session.state = "Idle" =>
            \A i \in 1..Len(posts) : posts[i].call = "write" =>
              \E j \in 1..Len(posts) : j < i /\ posts[j].call = "start"
      BY DEF Inv, Starts
    <2>4. session.state = "Idle" =>
            \A i \in 1..Len(posts') : posts'[i].call = "write" =>
              \E j \in 1..Len(posts') : j < i /\ posts'[j].call = "start"
      BY <1>3, <2>2, <2>3
    <2>5. gui.phase = "new" => \A i \in 1..Len(posts') : posts'[i].call = "resize"
      BY <1>2 DEF Inv, Starts
    <2>6. QED
      BY <2>1, <2>4, <2>5 DEF Inv, Starts
  <1>7. Input'
    <2>1. ASSUME Taking
          PROVE  Chain(posts', Taken, Startup + gui.typed)
      <3> DEFINE from == Taken  to == Startup + gui.typed
      <3>1. to \in Nat
        BY ShellAssumption DEF Inv, Types, GuiSet
      <3>2. Leads(post, to, to)
        BY DEF Leads
      <3>3. Chain(posts, from, to)
        BY <2>1 DEF Inv, Input
      <3> HIDE DEF from, to
      <3>4. Chain(Append(posts, post), from, to)
        BY <1>1, <3>1, <3>2, <3>3, ChainAppend
      <3>5. QED
        BY <3>4 DEF from, to
    <2>2. Taking' = Taking /\ Taken' = Taken
      BY DEF Taking, Taken
    <2>3. QED
      BY <2>1, <2>2 DEF Inv, Input
  <1>8. Sizing'
    <2>1. Len(posts') \in 1..Len(posts') /\ posts'[Len(posts')].call = "resize"
      BY <1>2
    <2>2. Posted("resize")'
      BY <2>1 DEF Posted
    <2>3. ASSUME NEW i \in 1..Len(posts'),
                 \A j \in 1..Len(posts') : j > i => posts'[j].call # "resize"
          PROVE  posts'[i].size = gui'.size
      <3>1. i = Len(posts) + 1
        BY <1>2, <2>1, <2>3
      <3>2. QED
        BY <1>2, <3>1
    <2>4. QED
      BY <2>2, <2>3 DEF Inv, Sizing
  <1>9. QED
    BY <1>4, <1>5, <1>6, <1>7, <1>8

LEMMA ResizeTerminalInv ==
  ASSUME Inv, NEW size \in Sizes, ResizeTerminal(size)
  PROVE  Inv'
  <1> DEFINE post == [call |-> "resize", size |-> size]
  <1>1. /\ posts \in Seq(PostSet) /\ gui \in GuiSet /\ gui.phase \in {"new", "open"}
        /\ posts' = Append(posts, post)
        /\ gui' = [gui EXCEPT !.size = size, !.resizes = @ + 1]
        /\ UNCHANGED <<signals, session, task, peer>>
    BY DEF Inv, Types, ResizeTerminal, Post
  <1>2. post \in PostSet /\ post.call = "resize" /\ post.size = size
    BY DEF PostSet
  <1> HIDE DEF post
  <1>3. /\ gui' \in GuiSet /\ gui'.phase = gui.phase /\ gui'.size = size
        /\ gui'.typed = gui.typed /\ gui'.screen = gui.screen /\ gui'.ended = gui.ended
    <2>1. gui \in GuiSet /\ gui' = [gui EXCEPT !.size = size, !.resizes = @ + 1]
      BY <1>1
    <2>2. gui.resizes + 1 \in Nat
      BY <2>1 DEF GuiSet
    <2>3. QED
      BY <2>1, <2>2 DEF GuiSet
  <1>4. Types' /\ Input' /\ Stops' /\ Starts' /\ Sizing'
    <2>1. signals' \in Seq(SignalSet)
      BY <1>1 DEF Inv, Types
    <2>2. QED
      BY <1>1, <1>2, <1>3, <2>1, SizePosted
  <1>5. Life' /\ Output' /\ EndsOnce'
    BY <1>1, <1>3, PostFrame
  <1>6. QED
    BY <1>4, <1>5 DEF Inv

LEMMA Removed ==
  ASSUME NEW S, NEW s \in Seq(S), s # <<>>
  PROVE  /\ Head(s) \in S /\ Head(s) = s[1] /\ Tail(s) \in Seq(S)
         /\ Len(Tail(s)) \in Nat /\ Len(s) = Len(Tail(s)) + 1
         /\ \A i \in 1..Len(Tail(s)) : Tail(s)[i] = s[i + 1] /\ i + 1 \in 1..Len(s)
         /\ \A i \in 1..Len(s) : i = 1 \/ i - 1 \in 1..Len(Tail(s))
         /\ (Len(s) = 1 => Tail(s) = <<>>) /\ (Len(s) # 1 => Tail(s) # <<>>)
  <1>1. /\ Head(s) \in S /\ Head(s) = s[1] /\ Tail(s) \in Seq(S)
        /\ Len(Tail(s)) \in Nat /\ Len(s) = Len(Tail(s)) + 1
    OBVIOUS
  <1>2. \A i \in 1..Len(Tail(s)) : Tail(s)[i] = s[i + 1] /\ i + 1 \in 1..Len(s)
    OBVIOUS
  <1>3. \A i \in 1..Len(s) : i = 1 \/ i - 1 \in 1..Len(Tail(s))
    BY <1>1
  <1> DEFINE t == Tail(s)
  <1>4. t \in Seq(S) /\ Len(s) = Len(t) + 1
    BY <1>1
  <1> HIDE DEF t
  <1>5. (Len(s) = 1 => t = <<>>) /\ (Len(s) # 1 => t # <<>>)
    BY <1>4
  <1>6. QED
    BY <1>1, <1>2, <1>3, <1>5 DEF t

(* A signal is taken: an end was the only one, and any other leaves the last where it is. *)
LEMMA SignalTaken ==
  ASSUME Inv, signals # <<>>, signals' = Tail(signals), session' = session,
         gui'.ended = gui.ended + (IF Head(signals).kind \in Ends THEN 1 ELSE 0)
  PROVE  EndsOnce'
  <1>1. signals \in Seq(SignalSet) /\ gui.ended \in Nat
    BY DEF Inv, Types, GuiSet
  <1>2. /\ Head(signals) = signals[1] /\ Len(signals') \in Nat
        /\ Len(signals) = Len(signals') + 1
        /\ \A i \in 1..Len(signals') : signals'[i] = signals[i + 1]
        /\ (Len(signals) = 1 => signals' = <<>>) /\ (Len(signals) # 1 => signals' # <<>>)
    BY <1>1, Removed
  <1>3. /\ gui.ended = IF session.state \in Over /\ ~EndIsNext THEN 1 ELSE 0
        /\ EndIsNext => session.state \in Over
        /\ \A i \in 1..(Len(signals) - 1) : signals[i].kind \notin Ends
    BY DEF Inv, EndsOnce
  <1>4. CASE Len(signals) = 1
    <2>1. ~EndIsNext' /\ (EndIsNext <=> Head(signals).kind \in Ends)
      <3>1. signals' = <<>> /\ signals[Len(signals)] = Head(signals)
        BY <1>2, <1>4
      <3>2. QED
        BY <3>1 DEF EndIsNext
    <2>2. gui'.ended = IF session.state \in Over THEN 1 ELSE 0
      BY <1>1, <1>3, <2>1
    <2>3. \A i \in 1..(Len(signals') - 1) : FALSE
      BY <1>2, <1>4
    <2>4. gui'.ended = IF session'.state \in Over /\ ~EndIsNext' THEN 1 ELSE 0
      BY <2>1, <2>2
    <2>5. ~EndIsNext'
      BY <2>1
    <2>6. QED
      BY <2>3, <2>4, <2>5 DEF EndsOnce
  <1>5. CASE Len(signals) # 1
    <2>1. Len(signals') \in 1..Len(signals') /\ 1 \in 1..(Len(signals) - 1) /\ signals' # <<>>
      BY <1>2, <1>5
    <2>2. signals'[Len(signals')] = signals[Len(signals)]
      BY <1>2, <2>1
    <2>3. EndIsNext' <=> EndIsNext
      BY <1>1, <2>1, <2>2 DEF EndIsNext
    <2>4. Head(signals).kind \notin Ends
      BY <1>2, <1>3, <2>1
    <2>5. gui'.ended = gui.ended
      BY <1>1, <2>4
    <2>6. \A i \in 1..(Len(signals') - 1) :
            i + 1 \in 1..(Len(signals) - 1) /\ signals'[i] = signals[i + 1]
      BY <1>2
    <2>7. QED
      BY <1>3, <2>3, <2>5, <2>6 DEF EndsOnce
  <1>6. QED
    BY <1>4, <1>5

LEMMA DeliverInv ==
  ASSUME Inv, Deliver
  PROVE  Inv'
  <1>1. /\ posts \in Seq(PostSet) /\ signals \in Seq(SignalSet) /\ gui \in GuiSet
        /\ gui.phase = "open" /\ signals # <<>> /\ signals' = Tail(signals)
        /\ UNCHANGED <<session, task, peer>>
    BY DEF Inv, Types, Deliver
  <1>2. Head(signals) \in SignalSet /\ signals' \in Seq(SignalSet)
    BY <1>1, Removed
  <1>3. Head(signals).kind \in {"data", "connected", "failed", "closed"}
        /\ Head(signals).packet \in PacketSet
    BY <1>2 DEF SignalSet, NoPacket, PacketSet
  <1>4. ASSUME gui'.screen = IF Head(signals).kind = "data"
                             THEN Append(gui.screen, Head(signals).packet) ELSE gui.screen
        PROVE  Output'
    <2>1. ASSUME NEW stream \in {"out", "err"}
          PROVE  Of(Emitted, stream)' = Of(Emitted, stream)
      BY <1>1, <1>4, EmittedStays DEF Inv
    <2>2. \A stream \in {"out", "err"} : Of(Emitted', stream) = Of(Emitted, stream)
      BY <2>1
    <2>3. QED
      BY <1>1, <2>2 DEF Inv, Output, Flow, Lossy, HasClosed
  <1>5. Life'
    BY <1>1 DEF Inv, Life
  <1>6. CASE Head(signals).kind = "connected"
    <2> DEFINE post == [call |-> "resize", size |-> gui.size]
    <2>1. posts' = Append(posts, post) /\ gui' = [gui EXCEPT !.shellReady = TRUE]
      BY <1>6 DEF Deliver, Post
    <2>2. /\ gui' \in GuiSet /\ gui'.phase = "open" /\ gui'.size = gui.size
          /\ gui'.typed = gui.typed /\ gui'.screen = gui.screen
          /\ gui'.ended = gui.ended /\ gui.ended \in Nat /\ gui.size \in Sizes
      BY <1>1, <2>1 DEF GuiSet
    <2>3. post \in PostSet /\ post.call = "resize" /\ post.size = gui.size
      BY <2>2 DEF PostSet
    <2> HIDE DEF post
    <2>4. Types' /\ Input' /\ Stops' /\ Starts' /\ Sizing'
      BY <1>1, <1>2, <2>1, <2>2, <2>3, SizePosted
    <2>5. Output'
      BY <1>4, <1>6, <2>2
    <2>6. gui'.ended = gui.ended + (IF Head(signals).kind \in Ends THEN 1 ELSE 0)
      BY <1>6, <2>2 DEF Ends
    <2>7. EndsOnce'
      BY <1>1, <2>6, SignalTaken
    <2>8. QED
      BY <1>5, <2>4, <2>5, <2>7 DEF Inv
  <1>7. CASE Head(signals).kind # "connected"
    <2>1. /\ posts' = posts
          /\ \/ Head(signals).kind = "data"
                /\ gui' = [gui EXCEPT !.screen = Append(@, Head(signals).packet)]
             \/ Head(signals).kind \in Ends
                /\ gui' = [gui EXCEPT !.shellReady = FALSE, !.ended = @ + 1]
      BY <1>7 DEF Deliver, TabEnded, Ends
    <2>2. /\ gui' \in GuiSet /\ gui'.phase = "open" /\ gui'.size = gui.size
          /\ gui'.typed = gui.typed
          /\ gui'.screen = IF Head(signals).kind = "data"
                           THEN Append(gui.screen, Head(signals).packet) ELSE gui.screen
          /\ gui'.ended = gui.ended + (IF Head(signals).kind \in Ends THEN 1 ELSE 0)
      <3>1. CASE Head(signals).kind = "data"
        <4>1. gui' = [gui EXCEPT !.screen = Append(@, Head(signals).packet)]
          BY <2>1, <3>1 DEF Ends
        <4>2. Append(gui.screen, Head(signals).packet) \in Seq(PacketSet)
          BY <1>1, <1>3 DEF GuiSet
        <4>3. gui.ended + 0 = gui.ended
          BY <1>1 DEF GuiSet
        <4>4. QED
          BY <1>1, <3>1, <4>1, <4>2, <4>3 DEF GuiSet, Ends
      <3>2. CASE Head(signals).kind # "data"
        <4>1. gui' = [gui EXCEPT !.shellReady = FALSE, !.ended = @ + 1]
              /\ Head(signals).kind \in Ends
          BY <2>1, <3>2
        <4>2. gui \in GuiSet /\ gui.phase = "open" /\ gui.ended + 1 \in Nat
          BY <1>1 DEF GuiSet
        <4>3. QED
          BY <3>2, <4>1, <4>2 DEF GuiSet
      <3>3. QED
        BY <3>1, <3>2
    <2>3. Output'
      BY <1>4, <2>2
    <2>4. EndsOnce'
      BY <1>1, <2>2, SignalTaken
    <2>5. Types'
      BY <1>1, <1>2, <2>1, <2>2 DEF Inv, Types
    <2>6. Input' /\ Sizing'
      BY <1>1, <2>1, <2>2 DEF Inv, Input, Taking, Taken, Sizing, Posted
    <2>7. Stops' /\ Starts'
      BY <1>1, <2>1, <2>2 DEF Inv, Stops, Starts, Posted
    <2>8. QED
      BY <1>5, <2>3, <2>4, <2>5, <2>6, <2>7 DEF Inv
  <1>8. QED
    BY <1>6, <1>7

-----------------------------------------------------------------------------
(***************************************************************************)
(* The peer and the connection.                                            *)
(***************************************************************************)
LEMMA BeginsIfJoined ==
  ASSUME NEW e \in Seq(PacketSet), NEW w \in Seq(PacketSet), NEW p, e \o w = p
  PROVE  Begins(e, p)
  <1>1. Len(e) <= Len(p)
    OBVIOUS
  <1>2. e = SubSeq(p, 1, Len(e))
    OBVIOUS
  <1>3. QED
    BY <1>1, <1>2 DEF Begins

(* What flows whole begins right. *)
LEMMA FlowBegins ==
  ASSUME Inv, NEW stream \in {"out", "err"}
  PROVE  Begins(Of(Emitted, stream), Of(peer.printed, stream))
  <1> DEFINE e == Of(Emitted, stream)  w == Of(peer.wire, stream)  p == Of(peer.printed, stream)
  <1>1. e \in Seq(PacketSet) /\ w \in Seq(PacketSet)
    BY EmittedTyped, OfTyped DEF Inv
  <1>2. Begins(e, p) \/ e \o w = p
    BY DEF Inv, Output, Flow
  <1> HIDE DEF e, w, p
  <1>3. Begins(e, p)
    BY <1>1, <1>2, BeginsIfJoined
  <1>4. QED
    BY <1>3 DEF e, p

(* The peer moves: what is on the way changes, and nothing else of what it has. *)
LEMMA PeerFrame ==
  ASSUME Inv, UNCHANGED <<posts, signals, session, task, gui>>, peer' \in PeerSet,
         peer'.input = peer.input, peer'.size = peer.size, peer'.refused = peer.refused
  PROVE  Types' /\ Life' /\ Stops' /\ Starts' /\ Input' /\ Sizing' /\ EndsOnce' /\ Emitted' = Emitted
  <1>1. Types' /\ Life'
    BY DEF Inv, Types, Life
  <1>2. Stops' /\ Starts'
    BY DEF Inv, Stops, Starts, Posted
  <1>3. Input'
    BY DEF Inv, Input, Taking, Taken
  <1>4. Sizing'
    BY DEF Inv, Sizing, Posted
  <1>5. EndsOnce' /\ Emitted' = Emitted
    BY DEF Inv, EndsOnce, EndIsNext, Emitted
  <1>6. QED
    BY <1>1, <1>2, <1>3, <1>4, <1>5

(* A packet is sent on. *)
LEMMA OfGrows ==
  ASSUME NEW w \in Seq(PacketSet), NEW packet \in PacketSet, NEW stream
  PROVE  Of(Append(w, packet), stream) =
           IF packet.stream = stream THEN Append(Of(w, stream), packet) ELSE Of(w, stream)
  <1> DEFINE P == PacketSet
  <1>1. w \in Seq(P) /\ packet \in P
    OBVIOUS
  <1> HIDE DEF P
  <1>2. QED
    BY <1>1, OfAppend

LEMMA WireGrows ==
  ASSUME NEW e \in Seq(PacketSet), NEW w \in Seq(PacketSet), NEW packet \in PacketSet, NEW stream
  PROVE  e \o Of(Append(w, packet), stream) =
           IF packet.stream = stream THEN Append(e \o Of(w, stream), packet) ELSE e \o Of(w, stream)
  <1> DEFINE v == Of(w, stream)
  <1>2. Of(Append(w, packet), stream) = IF packet.stream = stream THEN Append(v, packet) ELSE v
    BY OfGrows
  <1>3. v \in Seq(PacketSet)
    BY OfTyped
  <1> HIDE DEF v
  <1>4. e \o Append(v, packet) = Append(e \o v, packet)
    BY <1>3
  <1>5. QED
    BY <1>2, <1>4 DEF v

LEMMA PrintsInv ==
  ASSUME Inv, NEW stream \in {"out", "err"}, Prints(stream)
  PROVE  Inv'
  <1> DEFINE packet == [stream |-> stream, n |-> Len(peer.printed) + 1]
  <1>1. /\ peer \in PeerSet /\ peer.link = "up" /\ ~HasClosed
        /\ peer' = [peer EXCEPT !.printed = Append(@, packet), !.wire = Append(@, packet)]
        /\ UNCHANGED <<posts, signals, session, task, gui>>
    BY DEF Inv, Types, Prints
  <1>2. packet \in PacketSet /\ packet.stream = stream
    BY <1>1 DEF PeerSet, PacketSet
  <1> HIDE DEF packet
  <1>3. /\ peer.wire \in Seq(PacketSet) /\ peer.printed \in Seq(PacketSet)
        /\ Append(peer.wire, packet) \in Seq(PacketSet)
        /\ Append(peer.printed, packet) \in Seq(PacketSet)
    BY <1>1, <1>2 DEF PeerSet
  <1>4. /\ peer' \in PeerSet /\ peer'.input = peer.input /\ peer'.size = peer.size
        /\ peer'.refused = peer.refused /\ peer'.link = "up" /\ peer'.seen = peer.seen
        /\ peer'.wire = Append(peer.wire, packet) /\ peer'.printed = Append(peer.printed, packet)
    BY <1>1, <1>3 DEF PeerSet
  <1>5. Types' /\ Life' /\ Stops' /\ Starts' /\ Input' /\ Sizing' /\ EndsOnce' /\ Emitted' = Emitted
    BY <1>1, <1>4, PeerFrame
  <1>6. /\ Len(peer'.wire) = Len(peer.wire) + 1 /\ Len(peer.wire) \in Nat
        /\ \A i \in 1..Len(peer.wire) : peer'.wire[i] = peer.wire[i]
        /\ peer'.wire[Len(peer.wire) + 1] = packet
        /\ \A i \in 1..Len(peer'.wire) : i \in 1..Len(peer.wire) \/ i = Len(peer.wire) + 1
    BY <1>2, <1>3, <1>4, Appended
  <1>7. \A i \in 1..Len(peer'.wire) : peer'.wire[i].stream # "close"
    BY <1>1, <1>2, <1>6 DEF HasClosed
  <1>8. peer'.seen <= Len(peer'.wire)
    BY <1>1, <1>4, <1>6 DEF Inv, Output, PeerSet
  <1>9. ASSUME NEW s \in {"out", "err"}
        PROVE  Flow(s)'
    <2> DEFINE e == Of(Emitted, s)  w == peer.wire  q == peer.printed
    <2>1. e \in Seq(PacketSet) /\ w \in Seq(PacketSet) /\ q \in Seq(PacketSet)
      BY <1>3, EmittedTyped, OfTyped DEF Inv
    <2>2. e \o Of(w, s) = Of(q, s)
      BY <1>1 DEF Inv, Output, Flow, Lossy
    <2> HIDE DEF e, w, q
    <2>3. e \o Of(Append(w, packet), s) =
            IF packet.stream = s THEN Append(e \o Of(w, s), packet) ELSE e \o Of(w, s)
      BY <1>2, <2>1, WireGrows
    <2>4. Of(Append(q, packet), s) = IF packet.stream = s THEN Append(Of(q, s), packet) ELSE Of(q, s)
      BY <1>2, <2>1, OfGrows
    <2>5. e \o Of(Append(w, packet), s) = Of(Append(q, packet), s)
      BY <2>2, <2>3, <2>4
    <2>6. e \o Of(peer'.wire, s) = Of(peer'.printed, s)
      BY <1>4, <2>5 DEF w, q
    <2>7. ~Lossy'
      BY <1>4 DEF Lossy
    <2>8. QED
      BY <1>5, <2>6, <2>7 DEF Flow, e
  <1>10. Output'
    <2>1. ~(task.in = "close" /\ task.cause = "end")
      BY <1>1 DEF Inv, Output
    <2>2. QED
      BY <1>1, <1>7, <1>8, <1>9, <2>1 DEF Output
  <1>11. QED
    BY <1>5, <1>10 DEF Inv

LEMMA ClosesInv ==
  ASSUME Inv, Closes
  PROVE  Inv'
  <1> DEFINE packet == [stream |-> "close", n |-> 0]
  <1>1. /\ peer \in PeerSet /\ peer.link = "up" /\ ~HasClosed
        /\ peer' = [peer EXCEPT !.wire = Append(@, packet)]
        /\ UNCHANGED <<posts, signals, session, task, gui>>
    BY DEF Inv, Types, Closes
  <1>2. packet \in PacketSet /\ packet.stream = "close"
    BY DEF PacketSet
  <1> HIDE DEF packet
  <1>3. peer.wire \in Seq(PacketSet) /\ Append(peer.wire, packet) \in Seq(PacketSet)
    BY <1>1, <1>2 DEF PeerSet
  <1>4. /\ peer' \in PeerSet /\ peer'.input = peer.input /\ peer'.size = peer.size
        /\ peer'.refused = peer.refused /\ peer'.link = "up" /\ peer'.seen = peer.seen
        /\ peer'.wire = Append(peer.wire, packet) /\ peer'.printed = peer.printed
    BY <1>1, <1>3 DEF PeerSet
  <1>5. Types' /\ Life' /\ Stops' /\ Starts' /\ Input' /\ Sizing' /\ EndsOnce' /\ Emitted' = Emitted
    BY <1>1, <1>4, PeerFrame
  <1>6. /\ Len(peer'.wire) = Len(peer.wire) + 1 /\ Len(peer.wire) \in Nat
        /\ \A i \in 1..Len(peer.wire) : peer'.wire[i] = peer.wire[i]
        /\ \A i \in 1..Len(peer'.wire) : i \in 1..Len(peer.wire) \/ i = Len(peer.wire) + 1
    BY <1>2, <1>3, <1>4, Appended
  <1>7. \A i \in 1..Len(peer'.wire) : peer'.wire[i].stream = "close" => i = Len(peer'.wire)
    BY <1>1, <1>6 DEF HasClosed
  <1>8. peer'.seen <= Len(peer'.wire)
    BY <1>1, <1>4, <1>6 DEF Inv, Output, PeerSet
  <1>9. ASSUME NEW s \in {"out", "err"}
        PROVE  Flow(s)'
    <2> DEFINE e == Of(Emitted, s)
    <2>1. e \in Seq(PacketSet)
      BY EmittedTyped, OfTyped DEF Inv
    <2>2. e \o Of(peer.wire, s) = Of(peer.printed, s)
      BY <1>1 DEF Inv, Output, Flow, Lossy
    <2> HIDE DEF e
    <2>3. e \o Of(Append(peer.wire, packet), s) =
            IF packet.stream = s THEN Append(e \o Of(peer.wire, s), packet) ELSE e \o Of(peer.wire, s)
      BY <1>2, <1>3, <2>1, WireGrows
    <2>4. packet.stream # s
      BY <1>2
    <2>5. e \o Of(peer'.wire, s) = Of(peer'.printed, s)
      BY <1>4, <2>2, <2>3, <2>4
    <2>6. ~Lossy'
      BY <1>4 DEF Lossy
    <2>7. QED
      BY <1>5, <2>5, <2>6 DEF Flow, e
  <1>10. Output'
    <2>1. ~(task.in = "close" /\ task.cause = "end")
      BY <1>1 DEF Inv, Output
    <2>2. QED
      BY <1>1, <1>7, <1>8, <1>9, <2>1 DEF Output
  <1>11. QED
    BY <1>5, <1>10 DEF Inv

LEMMA ReadsInv ==
  ASSUME Inv, Reads
  PROVE  Inv'
  <1>1. /\ peer \in PeerSet /\ peer' = [peer EXCEPT !.room = Room]
        /\ UNCHANGED <<posts, signals, session, task, gui>>
    BY DEF Inv, Types, Reads
  <1>2. /\ peer' \in PeerSet /\ peer'.input = peer.input /\ peer'.size = peer.size
        /\ peer'.refused = peer.refused /\ peer'.link = peer.link /\ peer'.seen = peer.seen
        /\ peer'.wire = peer.wire /\ peer'.printed = peer.printed
    BY <1>1, ShellAssumption DEF PeerSet
  <1>3. Types' /\ Life' /\ Stops' /\ Starts' /\ Input' /\ Sizing' /\ EndsOnce' /\ Emitted' = Emitted
    BY <1>1, <1>2, PeerFrame
  <1>4. Output'
    BY <1>1, <1>2, <1>3 DEF Inv, Output, Flow, Lossy, HasClosed
  <1>5. QED
    BY <1>3, <1>4 DEF Inv

LEMMA FailsInv ==
  ASSUME Inv, NEW link \in {"broken", "wedged"}, Fails(link)
  PROVE  Inv'
  <1>1. /\ peer \in PeerSet /\ peer' = [peer EXCEPT !.link = link] /\ peer.link = "up"
        /\ UNCHANGED <<posts, signals, session, task, gui>>
    BY DEF Inv, Types, Fails
  <1>2. /\ peer' \in PeerSet /\ peer'.input = peer.input /\ peer'.size = peer.size
        /\ peer'.refused = peer.refused /\ peer'.seen = peer.seen
        /\ peer'.wire = peer.wire /\ peer'.printed = peer.printed
    BY <1>1 DEF PeerSet
  <1>3. Types' /\ Life' /\ Stops' /\ Starts' /\ Input' /\ Sizing' /\ EndsOnce' /\ Emitted' = Emitted
    BY <1>1, <1>2, PeerFrame
  <1>4. ASSUME NEW s \in {"out", "err"}
        PROVE  Flow(s)'
    <2>1. Begins(Of(Emitted, s), Of(peer.printed, s))
      BY FlowBegins
    <2>2. Of(Emitted, s) \o Of(peer.wire, s) = Of(peer.printed, s)
      BY <1>1 DEF Inv, Output, Flow, Lossy
    <2>3. QED
      BY <1>2, <1>3, <2>1, <2>2 DEF Flow
  <1>5. Output'
    BY <1>1, <1>2, <1>3, <1>4 DEF Inv, Output, HasClosed
  <1>6. QED
    BY <1>3, <1>5 DEF Inv

-----------------------------------------------------------------------------
(***************************************************************************)
(* The ends of a session.                                                  *)
(***************************************************************************)
(* A session that is not over has emitted no end. *)
LEMMA NotYetOver ==
  ASSUME Inv, session.state \notin Over
  PROVE  gui.ended = 0 /\ \A i \in 1..Len(signals) : signals[i].kind \notin Ends
  <1>1. ~EndIsNext /\ gui.ended = 0 /\ signals \in Seq(SignalSet)
    BY DEF Inv, EndsOnce, Types
  <1>2. ASSUME NEW i \in 1..Len(signals)
        PROVE  signals[i].kind \notin Ends
    <2>1. CASE i = Len(signals)
      BY <1>1, <2>1 DEF EndIsNext
    <2>2. CASE i # Len(signals)
      <3>1. i \in 1..(Len(signals) - 1)
        BY <1>1, <2>2
      <3>2. QED
        BY <3>1 DEF Inv, EndsOnce
    <2>3. QED
      BY <2>1, <2>2
  <1>3. QED
    BY <1>1, <1>2

(* Signals that are no end, of a session that goes on. *)
LEMMA EndsQuiet ==
  ASSUME Inv, session.state \notin Over, session'.state \notin Over,
         NEW more \in Seq(SignalSet), signals' = signals \o more,
         \A i \in 1..Len(more) : more[i].kind \notin Ends, gui'.ended = gui.ended
  PROVE  EndsOnce' /\ signals' \in Seq(SignalSet)
  <1>1. signals \in Seq(SignalSet) /\ Len(signals) \in Nat /\ Len(more) \in Nat
    BY DEF Inv, Types
  <1>2. signals' \in Seq(SignalSet) /\ Len(signals') = Len(signals) + Len(more)
    BY <1>1
  <1>3. ASSUME NEW i \in 1..Len(signals')
        PROVE  signals'[i].kind \notin Ends
    <2>1. i \in 1..(Len(signals) + Len(more))
      BY <1>2
    <2>2. signals'[i] = IF i <= Len(signals) THEN signals[i] ELSE more[i - Len(signals)]
      BY <1>1, <2>1, JoinedAt
    <2>3. i <= Len(signals) => i \in 1..Len(signals)
      BY <1>1, <2>1
    <2>4. ~(i <= Len(signals)) => i - Len(signals) \in 1..Len(more)
      BY <1>1, <2>1
    <2>5. QED
      BY <2>2, <2>3, <2>4, NotYetOver
  <1>4. ~EndIsNext'
    <2>1. signals' # <<>> => Len(signals') \in 1..Len(signals')
      BY <1>2
    <2>2. QED
      BY <1>3, <2>1 DEF EndIsNext
  <1>5. \A i \in 1..(Len(signals') - 1) : i \in 1..Len(signals')
    BY <1>1, <1>2
  <1>6. gui'.ended = 0
    BY NotYetOver
  <1>7. QED
    BY <1>2, <1>3, <1>4, <1>5, <1>6 DEF EndsOnce

(* The end is emitted with the step into the last state. *)
LEMMA EndsNow ==
  ASSUME Inv, session.state \notin Over, session'.state \in Over,
         NEW kind \in Ends, signals' = Append(signals, Emit(kind)), gui'.ended = gui.ended
  PROVE  EndsOnce' /\ signals' \in Seq(SignalSet)
  <1>1. signals \in Seq(SignalSet) /\ Emit(kind) \in SignalSet /\ Emit(kind).kind = kind
    BY EmitPackets DEF Inv, Types, Ends
  <1> DEFINE signal == Emit(kind)
  <1> HIDE DEF signal
  <1>2. /\ signals' \in Seq(SignalSet) /\ Len(signals') = Len(signals) + 1 /\ Len(signals) \in Nat
        /\ \A i \in 1..Len(signals) : signals'[i] = signals[i]
        /\ signals'[Len(signals) + 1] = signal
    <2>1. signal \in SignalSet /\ signals' = Append(signals, signal)
      BY <1>1 DEF signal
    <2>2. QED
      BY <1>1, <2>1, Appended
  <1>3. signals' # <<>> /\ signals'[Len(signals')] = signal
    BY <1>2
  <1>4. EndIsNext'
    BY <1>1, <1>3 DEF EndIsNext, signal
  <1>5. \A i \in 1..(Len(signals') - 1) : i \in 1..Len(signals)
    BY <1>2
  <1>6. \A i \in 1..(Len(signals') - 1) : signals'[i].kind \notin Ends
    BY <1>2, <1>5, NotYetOver
  <1>7. gui'.ended = 0
    BY NotYetOver
  <1>8. QED
    BY <1>2, <1>4, <1>6, <1>7 DEF EndsOnce

(* Nothing that was emitted shows more of a stream, and the peer has what it had. *)
LEMMA OutputFrame ==
  ASSUME Inv, peer'.link = peer.link, peer'.wire = peer.wire, peer'.printed = peer.printed,
         peer'.seen \in {peer.seen, Len(peer.wire)},
         \A stream \in {"out", "err"} : Of(Emitted', stream) = Of(Emitted, stream),
         Lossy => Lossy',
         ~(task'.in = "close" /\ task'.cause = "end")
  PROVE  Output'
  <1>1. ASSUME NEW stream \in {"out", "err"}
        PROVE  Flow(stream)'
    <2>1. Begins(Of(Emitted, stream), Of(peer.printed, stream))
      BY FlowBegins
    <2>2. ~Lossy' => Of(Emitted, stream) \o Of(peer.wire, stream) = Of(peer.printed, stream)
      BY DEF Inv, Output, Flow
    <2>3. QED
      BY <2>1, <2>2 DEF Flow
  <1>2. peer'.seen <= Len(peer'.wire)
    <2>1. Len(peer.wire) \in Nat
      BY DEF Inv, Types, PeerSet
    <2>2. QED
      BY <2>1 DEF Inv, Output
  <1>3. QED
    BY <1>1, <1>2 DEF Inv, Output

(* Of the streams, a signal that is no data shows nothing. *)
LEMMA EmittedSignal ==
  ASSUME Inv, NEW kind \in {"connected", "failed", "closed"},
         signals' = Append(signals, Emit(kind)), gui'.screen = gui.screen
  PROVE  \A stream \in {"out", "err"} : Of(Emitted', stream) = Of(Emitted, stream)
  <1>1. signals \in Seq(SignalSet) /\ Emit(kind) \in SignalSet
        /\ PacketsOf(<<Emit(kind)>>) = <<NoPacket>>
    BY EmitPackets DEF Inv, Types
  <1> DEFINE more == <<Emit(kind)>>
  <1>2. more \in Seq(SignalSet) /\ signals' = signals \o more
    <2> DEFINE signal == Emit(kind)
    <2>1. signal \in SignalSet /\ signals' = Append(signals, signal)
      BY <1>1
    <2> HIDE DEF signal
    <2>2. <<signal>> \in Seq(SignalSet) /\ Append(signals, signal) = signals \o <<signal>>
      BY <1>1, <2>1
    <2>3. QED
      BY <2>1, <2>2 DEF signal
  <1>3. PacketsOf(more) = <<NoPacket>>
    BY <1>1
  <1> HIDE DEF more
  <1>4. ASSUME NEW stream \in {"out", "err"}
        PROVE  Of(Emitted, stream)' = Of(Emitted, stream)
    <2>1. Of(Emitted, stream)' = Of(Emitted, stream) \o Of(PacketsOf(more), stream)
      BY <1>2, EmittedGrows DEF Inv
    <2>2. Of(PacketsOf(more), stream) = <<>>
      BY <1>3, NothingShown
    <2>3. Of(Emitted, stream) \in Seq(PacketSet)
      BY EmittedTyped, OfTyped DEF Inv
    <2>4. Of(Emitted, stream) \o <<>> = Of(Emitted, stream)
      BY <2>3
    <2>5. QED
      BY <2>1, <2>2, <2>4
  <1>5. QED
    BY <1>4

LEMMA TornDown ==
  ASSUME Inv, NEW state \in Over, session' = AfterTeardown(state)
  PROVE  /\ session' \in SessionSet /\ session'.state = state
         /\ ~session'.channel /\ ~session'.watching /\ session'.pendingSize = session.pendingSize
  <1>1. session \in SessionSet
    BY DEF Inv, Types
  <1>2. state \in States
    BY DEF States, Over
  <1>3. QED
    BY <1>1, <1>2 DEF AfterTeardown, SessionSet

(* A session that is over takes no bytes and asks for no size. *)
LEMMA OverFrame ==
  ASSUME Inv, session'.state \in Over, session'.pendingSize = session.pendingSize,
         peer' = peer, posts' = posts, gui'.size = gui.size, gui'.phase \in {gui.phase, "gone"},
         session.state # "Idle", task'.in # "write"
  PROVE  Input' /\ Sizing' /\ Starts'
  <1>1. session'.state \notin {"Idle", "Authenticating", "Ready"}
    BY DEF Over
  <1>2. Input'
    BY <1>1 DEF Inv, Input, Taking
  <1>3. Sizing'
    BY <1>1 DEF Inv, Sizing, Posted
  <1>4. Starts'
    BY <1>1 DEF Inv, Starts
  <1>5. QED
    BY <1>2, <1>3, <1>4

LEMMA IdleTask ==
  Idle \in TaskSet /\ Idle.in = "idle"
  BY DEF Idle, TaskSet

LEMMA CloseReturnsInv ==
  ASSUME Inv, CloseReturns
  PROVE  Inv'
  <1>1. /\ task.in = "close" /\ task' = Idle /\ session' = AfterTeardown(task.state)
        /\ signals' = Append(signals, Emit(task.kind))
        /\ gui' = [gui EXCEPT !.phase = IF task.cause = "shutdown" THEN "gone" ELSE @]
        /\ posts' = posts /\ peer' = peer
    BY DEF CloseReturns
  <1>2. task \in TaskSet /\ gui \in GuiSet
    BY DEF Inv, Types
  <1>3. task.state \in Over /\ task.kind \in Ends
    BY <1>1, <1>2 DEF TaskSet
  <1>4. /\ session.state \in {"Authenticating", "Ready", "Closing"} /\ session.state \notin Over
        /\ session.state # "Idle"
    BY <1>1 DEF Inv, Life, Over
  <1>5. /\ session' \in SessionSet /\ session'.state = task.state
        /\ ~session'.channel /\ ~session'.watching /\ session'.pendingSize = session.pendingSize
    BY <1>1, <1>3, TornDown
  <1>6. /\ gui' \in GuiSet /\ gui'.size = gui.size /\ gui'.screen = gui.screen
        /\ gui'.ended = gui.ended
        /\ gui'.phase = IF task.cause = "shutdown" THEN "gone" ELSE gui.phase
    BY <1>1, <1>2 DEF GuiSet
  <1>7. EndsOnce' /\ signals' \in Seq(SignalSet)
    BY <1>1, <1>3, <1>4, <1>5, <1>6, EndsNow
  <1>8. task' \in TaskSet /\ task'.in = "idle"
    BY <1>1, IdleTask
  <1>9. Types'
    BY <1>1, <1>5, <1>6, <1>7, <1>8 DEF Inv, Types
  <1>10. Life'
    BY <1>3, <1>5, <1>8 DEF Life, Over
  <1>11. Stops'
    BY <1>1, <1>3, <1>4, <1>5, <1>6, <1>8, IdleTask DEF Inv, Stops
  <1>12. Input' /\ Sizing' /\ Starts'
    BY <1>1, <1>3, <1>4, <1>5, <1>6, <1>8, OverFrame
  <1>13. Output'
    <2>1. task.kind \in {"connected", "failed", "closed"}
      BY <1>3 DEF Ends
    <2>2. \A stream \in {"out", "err"} : Of(Emitted', stream) = Of(Emitted, stream)
      BY <1>1, <1>6, <2>1, EmittedSignal
    <2>3. Lossy => Lossy'
      BY <1>1, <1>3, <1>5 DEF Lossy
    <2>4. QED
      BY <1>1, <1>8, <2>2, <2>3, OutputFrame
  <1>14. QED
    BY <1>7, <1>9, <1>10, <1>11, <1>12, <1>13 DEF Inv

LEMMA OpenFailsInv ==
  ASSUME Inv, OpenFails
  PROVE  Inv'
  <1>1. /\ task.in = "open" /\ posts' = posts /\ peer' = peer /\ gui' = gui
        /\ session \in SessionSet /\ task \in TaskSet
    BY DEF OpenFails, Inv, Types
  <1>2. session.state = "Authenticating" /\ session.state \notin Over /\ session.state # "Idle"
    BY <1>1 DEF Inv, Life, Over
  <1>3. gui.phase # "gone"
    BY <1>1, IdleTask DEF Inv, Stops
  <1>4. CASE /\ task' = Idle /\ session' = AfterTeardown("Failed")
             /\ signals' = Append(signals, Emit("failed"))
    <2>1. "Failed" \in Over /\ "failed" \in Ends
      BY DEF Over, Ends
    <2>2. /\ session' \in SessionSet /\ session'.state = "Failed"
          /\ ~session'.channel /\ ~session'.watching /\ session'.pendingSize = session.pendingSize
      BY <1>4, <2>1, TornDown
    <2>3. EndsOnce' /\ signals' \in Seq(SignalSet)
      BY <1>1, <1>2, <1>4, <2>1, <2>2, EndsNow
    <2>4. task' \in TaskSet /\ task'.in = "idle"
      BY <1>4, IdleTask
    <2>5. Types'
      BY <1>1, <2>2, <2>3, <2>4 DEF Inv, Types
    <2>6. Life'
      BY <2>1, <2>2, <2>4 DEF Life
    <2>7. Stops'
      BY <1>1, <1>3, <2>4 DEF Inv, Stops
    <2>8. Input' /\ Sizing' /\ Starts'
      BY <1>1, <1>2, <2>1, <2>2, <2>4, OverFrame
    <2>9. Output'
      <3>1. \A stream \in {"out", "err"} : Of(Emitted', stream) = Of(Emitted, stream)
        BY <1>1, <1>4, EmittedSignal
      <3>2. Lossy => Lossy'
        BY <1>1, <1>2 DEF Lossy
      <3>3. QED
        BY <1>1, <2>4, <3>1, <3>2, OutputFrame
    <2>10. QED
      BY <2>3, <2>5, <2>6, <2>7, <2>8, <2>9 DEF Inv
  <1>5. CASE /\ session' = [session EXCEPT !.channel = TRUE]
             /\ task' = [in |-> "close", cause |-> "open", state |-> "Failed", kind |-> "failed"]
             /\ signals' = signals
    <2>1. /\ session' \in SessionSet /\ session'.state = "Authenticating" /\ session'.channel
          /\ session'.watching = session.watching /\ session'.pendingSize = session.pendingSize
      BY <1>1, <1>2, <1>5 DEF SessionSet
    <2>2. ~session.watching
      BY <1>2 DEF Inv, Life
    <2>3. task' \in TaskSet /\ task'.in = "close" /\ task'.cause = "open"
      BY <1>5 DEF TaskSet, Over, Ends
    <2>4. Types'
      BY <1>1, <1>5, <2>1, <2>3 DEF Inv, Types
    <2>5. Life'
      BY <2>1, <2>2, <2>3 DEF Life, Over
    <2>6. Stops'
      BY <1>1, <1>3, <2>3 DEF Inv, Stops
    <2>7. Starts'
      BY <1>1, <1>2, <2>1 DEF Inv, Starts
    <2>8. Input'
      BY <1>1, <1>2, <2>1, <2>3 DEF Inv, Input, Taking
    <2>9. Sizing'
      BY <1>1, <2>1 DEF Inv, Sizing, Posted
    <2>10. Output'
      <3>1. Emitted' = Emitted
        BY <1>1, <1>5, SameEmitted
      <3>2. Lossy => Lossy'
        BY <1>1, <1>2 DEF Lossy
      <3>3. QED
        BY <1>1, <2>3, <3>1, <3>2, OutputFrame
    <2>11. EndsOnce'
      BY <1>1, <1>2, <1>5, <2>1 DEF Inv, EndsOnce, EndIsNext
    <2>12. QED
      BY <2>4, <2>5, <2>6, <2>7, <2>8, <2>9, <2>10, <2>11 DEF Inv
  <1>6. QED
    BY <1>4, <1>5 DEF OpenFails

LEMMA OpenSucceedsInv ==
  ASSUME Inv, OpenSucceeds
  PROVE  Inv'
  <1> DEFINE start == Bytes(0, Startup)
  <1>1. /\ task.in = "open" /\ peer.link = "up" /\ posts' = posts /\ gui' = gui
        /\ session \in SessionSet /\ peer \in PeerSet
        /\ session' = [session EXCEPT !.state = "Ready", !.channel = TRUE,
                                      !.watching = TRUE, !.pendingWrite = <<>>]
        /\ peer' = [peer EXCEPT !.size = session.pendingSize]
        /\ signals' = Append(signals, Emit("connected"))
    BY DEF OpenSucceeds, Inv, Types
  <1>2. start \in Seq(Nat) /\ Len(start) = Startup /\ Startup \in Nat
    BY BytesTyped, ShellAssumption
  <1>3. task' = IF start = <<>> THEN [in |-> "drain"] ELSE Writing(start, TRUE)
    <2>1. session.pendingWrite = <<>>
      BY <1>1 DEF SessionSet
    <2>2. session.pendingWrite \o start = start
      BY <1>2, <2>1
    <2>3. QED
      BY <2>2 DEF OpenSucceeds
  <1>4. session.state = "Authenticating" /\ session.state \notin Over
    BY <1>1 DEF Inv, Life, Over
  <1>5. gui.phase # "gone"
    BY <1>1, IdleTask DEF Inv, Stops
  <1>6. /\ session' \in SessionSet /\ session'.state = "Ready" /\ session'.channel
        /\ session'.pendingSize = session.pendingSize /\ session.pendingSize \in Sizes
        /\ "Ready" \notin Over
    BY <1>1 DEF SessionSet, States, Over
  <1>7. /\ peer' \in PeerSet /\ peer'.size = session.pendingSize /\ peer'.link = peer.link
        /\ peer'.wire = peer.wire /\ peer'.printed = peer.printed /\ peer'.seen = peer.seen
        /\ peer'.input = peer.input
    BY <1>1, <1>6 DEF PeerSet
  <1> HIDE DEF start
  <1>8. /\ task' \in TaskSet
        /\ \/ task'.in = "drain" /\ start = <<>>
           \/ task'.in = "write" /\ task'.data = start /\ task'.waits = 0 /\ start # <<>>
    BY <1>2, <1>3 DEF TaskSet, Writing
  <1>9. EndsOnce' /\ signals' \in Seq(SignalSet)
    <2> DEFINE signal == Emit("connected")
    <2>1. signal \in SignalSet /\ signal.kind = "connected" /\ signals' = Append(signals, signal)
          /\ signals \in Seq(SignalSet)
      BY <1>1, EmitPackets DEF Inv, Types
    <2> HIDE DEF signal
    <2> DEFINE more == <<signal>>
    <2>2. /\ more \in Seq(SignalSet) /\ signals' = signals \o more
          /\ \A i \in 1..Len(more) : more[i].kind \notin Ends
      BY <2>1 DEF Ends
    <2> HIDE DEF more
    <2>3. QED
      BY <1>1, <1>4, <1>6, <2>2, EndsQuiet
  <1>10. Types'
    BY <1>1, <1>6, <1>7, <1>8, <1>9 DEF Inv, Types
  <1>11. Life'
    BY <1>6, <1>8, ShellAssumption DEF Life, Over
  <1>12. Stops'
    BY <1>1, <1>5, <1>8 DEF Inv, Stops
  <1>13. Starts'
    BY <1>1, <1>4, <1>6 DEF Inv, Starts
  <1>14. Input'
    <2>1. peer.input = <<>> /\ peer.input = Bytes(0, Len(peer.input)) /\ Len(peer.input) = 0
      BY <1>4 DEF Inv, Input
    <2>2. task'.in = "write" => task'.data = Bytes(0, 0 + Len(task'.data))
      BY <1>2, <1>8 DEF start
    <2>3. Chain(posts, Startup, Startup + gui.typed)
      BY <1>1, <1>4 DEF Inv, Input, Taking, Taken
    <2>4. Taken' = Startup
      <3>1. CASE task'.in = "write"
        BY <1>2, <1>6, <1>7, <1>8, <2>1, <3>1 DEF Taken
      <3>2. CASE task'.in # "write"
        <4>1. Startup = 0
          BY <1>2, <1>8, <3>2
        <4>2. QED
          BY <1>6, <1>7, <2>1, <3>2, <4>1 DEF Taken
      <3>3. QED
        BY <3>1, <3>2
    <2>5. QED
      BY <1>1, <1>6, <1>7, <2>1, <2>2, <2>3, <2>4 DEF Input
  <1>15. Sizing'
    BY <1>1, <1>6, <1>7 DEF Inv, Sizing, Posted
  <1>16. Output'
    <2>1. \A stream \in {"out", "err"} : Of(Emitted', stream) = Of(Emitted, stream)
      BY <1>1, EmittedSignal
    <2>2. Lossy => Lossy'
      BY <1>1 DEF Lossy
    <2>3. QED
      BY <1>7, <1>8, <2>1, <2>2, OutputFrame
  <1>17. QED
    BY <1>9, <1>10, <1>11, <1>12, <1>13, <1>14, <1>15, <1>16 DEF Inv

-----------------------------------------------------------------------------
(***************************************************************************)
(* Writing.                                                                *)
(***************************************************************************)
LEMMA NothingAdded ==
  ASSUME NEW S, NEW s \in Seq(S)
  PROVE  s \o <<>> = s
  OBVIOUS

(* A ready session has its channel closed before it is over. *)
LEMMA ClosesChannel ==
  ASSUME Inv, session.state = "Ready",
         NEW cause \in {"shutdown", "write", "error", "end"}, NEW state \in Over,
         NEW kind \in Ends, NEW more \in Seq(SignalSet),
         \A i \in 1..Len(more) : more[i].kind \notin Ends, TearDown(cause, state, kind, more)
  PROVE  /\ task' \in TaskSet /\ task'.in = "close" /\ task'.cause = cause
         /\ session' \in SessionSet /\ session'.pendingSize = session.pendingSize
         /\ session'.state = IF cause = "shutdown" THEN "Closing" ELSE "Ready"
         /\ gui' = gui /\ signals' = signals \o more /\ signals' \in Seq(SignalSet)
         /\ Life' /\ EndsOnce'
  <1>1. session.channel /\ session \in SessionSet
    BY DEF Inv, Types, Life
  <1>2. /\ task' = [in |-> "close", cause |-> cause, state |-> state, kind |-> kind]
        /\ session' = [session EXCEPT !.watching = FALSE,
                                      !.state = IF cause = "shutdown" THEN "Closing" ELSE @]
        /\ signals' = signals \o more /\ gui' = gui
    BY <1>1 DEF TearDown
  <1>3. task' \in TaskSet /\ task'.in = "close" /\ task'.cause = cause
    BY <1>2 DEF TaskSet
  <1>4. /\ session' \in SessionSet /\ session'.pendingSize = session.pendingSize
        /\ session'.state = IF cause = "shutdown" THEN "Closing" ELSE "Ready"
        /\ session'.channel /\ ~session'.watching
    BY <1>1, <1>2 DEF SessionSet, States
  <1>5. session.state \notin Over /\ session'.state \notin Over
    BY <1>4 DEF Over
  <1>6. Life'
    BY <1>3, <1>4, <1>5 DEF Life
  <1>7. EndsOnce' /\ signals' \in Seq(SignalSet)
    BY <1>2, <1>5, EndsQuiet
  <1>8. QED
    BY <1>2, <1>3, <1>4, <1>6, <1>7

(* The worker gives the channel up. *)
LEMMA GivesUp ==
  ASSUME Inv, session.state = "Ready",
         NEW cause \in {"write", "error", "end"}, NEW state \in Over,
         NEW kind \in Ends, NEW more \in Seq(SignalSet),
         \A i \in 1..Len(more) : more[i].kind \notin Ends, TearDown(cause, state, kind, more),
         posts' = posts, peer' \in PeerSet, peer'.input = peer.input,
         peer'.size = peer.size, peer'.refused = peer.refused
  PROVE  /\ Types' /\ Life' /\ Stops' /\ Starts' /\ Input' /\ Sizing' /\ EndsOnce'
         /\ gui' = gui /\ signals' = signals \o more /\ session'.state = "Ready"
         /\ task'.in = "close" /\ task'.cause = cause
  <1>1. /\ task' \in TaskSet /\ task'.in = "close" /\ task'.cause = cause
        /\ session' \in SessionSet /\ session'.pendingSize = session.pendingSize
        /\ session'.state = "Ready"
        /\ gui' = gui /\ signals' = signals \o more /\ signals' \in Seq(SignalSet)
        /\ Life' /\ EndsOnce'
    <2>1. cause \in {"shutdown", "write", "error", "end"} /\ cause # "shutdown"
      OBVIOUS
    <2>2. QED
      BY <2>1, ClosesChannel
  <1>2. Types'
    BY <1>1 DEF Inv, Types
  <1>3. gui.phase # "gone"
    BY DEF Inv, Stops, Over
  <1>4. Stops'
    BY <1>1, <1>3 DEF Inv, Stops
  <1>5. Starts'
    BY <1>1 DEF Inv, Starts
  <1>6. Input'
    BY <1>1 DEF Inv, Input, Taking
  <1>7. Sizing'
    BY <1>1 DEF Inv, Sizing, Posted
  <1>8. QED
    BY <1>1, <1>2, <1>4, <1>5, <1>6, <1>7

(* A write is given up: nothing was emitted with it. *)
LEMMA WriteGivenUp ==
  ASSUME Inv, task.in = "write", TearDown("write", "Failed", "failed", <<>>),
         posts' = posts, peer' = peer
  PROVE  Inv'
  <1> DEFINE more == <<>>
  <1>1. session.state = "Ready"
    BY DEF Inv, Life
  <1>2. /\ more \in Seq(SignalSet) /\ \A i \in 1..Len(more) : more[i].kind \notin Ends
        /\ TearDown("write", "Failed", "failed", more)
    OBVIOUS
  <1>3. "Failed" \in Over /\ "failed" \in Ends /\ peer \in PeerSet
    BY DEF Over, Ends, Inv, Types
  <1>4. signals \o more = signals
    BY NothingAdded DEF Inv, Types
  <1> HIDE DEF more
  <1>5. /\ Types' /\ Life' /\ Stops' /\ Starts' /\ Input' /\ Sizing' /\ EndsOnce'
        /\ gui' = gui /\ signals' = signals \o more /\ session'.state = "Ready"
        /\ task'.in = "close" /\ task'.cause = "write"
    BY <1>1, <1>2, <1>3, GivesUp
  <1>6. Output'
    <2>1. Emitted' = Emitted
      BY <1>4, <1>5, SameEmitted
    <2>2. Lossy => Lossy'
      BY <1>5 DEF Lossy
    <2>3. QED
      BY <1>5, <2>1, <2>2, OutputFrame
  <1>7. QED
    BY <1>5, <1>6 DEF Inv

LEMMA WriteFailsInv ==
  ASSUME Inv, WriteFails
  PROVE  Inv'
  BY WriteGivenUp DEF WriteFails

LEMMA WriteWaitsInv ==
  ASSUME Inv, WriteWaits
  PROVE  Inv'
  <1>1. task.in = "write" /\ posts' = posts /\ peer \in PeerSet /\ task \in TaskSet
    BY DEF WriteWaits, Inv, Types
  <1>2. session.state = "Ready"
    BY <1>1 DEF Inv, Life
  <1>3. CASE /\ peer' = [peer EXCEPT !.seen = Len(peer.wire)]
             /\ UNCHANGED <<task, signals, session, gui>>
    <2>1. Len(peer.wire) \in Nat
      BY <1>1 DEF PeerSet
    <2>2. /\ peer' \in PeerSet /\ peer'.input = peer.input /\ peer'.size = peer.size
          /\ peer'.refused = peer.refused /\ peer'.link = peer.link
          /\ peer'.wire = peer.wire /\ peer'.printed = peer.printed
          /\ peer'.seen = Len(peer.wire)
      BY <1>1, <1>3, <2>1 DEF PeerSet
    <2>3. /\ Types' /\ Life' /\ Stops' /\ Starts' /\ Input' /\ Sizing' /\ EndsOnce'
          /\ Emitted' = Emitted
      BY <1>1, <1>3, <2>2, PeerFrame
    <2>4. Lossy => Lossy'
      BY <1>3, <2>2 DEF Lossy
    <2>5. Output'
      BY <1>1, <1>3, <2>2, <2>3, <2>4, OutputFrame
    <2>6. QED
      BY <2>3, <2>5 DEF Inv
  <1>4. CASE /\ CountWait(task.waits) < MaxWaits
             /\ task' = [task EXCEPT !.waits = CountWait(task.waits)]
             /\ UNCHANGED <<signals, session, gui, peer>>
    <2>1. CountWait(task.waits) \in Nat
      BY <1>1 DEF TaskSet, CountWait
    <2>2. /\ task' \in TaskSet /\ task'.in = "write" /\ task'.data = task.data
          /\ task'.waits = CountWait(task.waits)
      <3>1. task \in [in : {"write"}, data : Seq(Nat), waits : Nat, drains : BOOLEAN]
        BY <1>1 DEF TaskSet
      <3>2. task' \in [in : {"write"}, data : Seq(Nat), waits : Nat, drains : BOOLEAN]
            /\ task'.data = task.data /\ task'.waits = CountWait(task.waits)
        BY <1>4, <2>1, <3>1
      <3>3. QED
        BY <3>2 DEF TaskSet
    <2>3. Types' /\ Life'
      BY <1>1, <1>2, <1>4, <2>2 DEF Inv, Types, Life
    <2>4. Stops' /\ Starts'
      BY <1>1, <1>4, <2>2, IdleTask DEF Inv, Stops, Starts, Posted
    <2>5. Input'
      BY <1>1, <1>2, <1>4, <2>2 DEF Inv, Input, Taking, Taken
    <2>6. Sizing' /\ EndsOnce'
      BY <1>1, <1>4 DEF Inv, Sizing, Posted, EndsOnce, EndIsNext
    <2>7. Output'
      <3>1. Emitted' = Emitted
        BY <1>4, SameEmitted
      <3>2. Lossy => Lossy'
        BY <1>1, <1>4 DEF Lossy
      <3>3. QED
        BY <1>4, <2>2, <3>1, <3>2, OutputFrame
    <2>8. QED
      BY <2>3, <2>4, <2>5, <2>6, <2>7 DEF Inv
  <1>5. CASE TearDown("write", "Failed", "failed", <<>>) /\ peer' = peer
    BY <1>1, <1>5, WriteGivenUp
  <1>6. QED
    BY <1>3, <1>4, <1>5 DEF WriteWaits

LEMMA WriteSomeInv ==
  ASSUME Inv, WriteSome
  PROVE  Inv'
  <1>1. /\ task.in = "write" /\ UNCHANGED <<posts, signals, session, gui>>
        /\ peer \in PeerSet /\ task \in TaskSet /\ session.state = "Ready"
    BY DEF WriteSome, Inv, Types, Life
  <1>2. task \in [in : {"write"}, data : Seq(Nat), waits : Nat, drains : BOOLEAN]
    BY <1>1 DEF TaskSet
  <1>3. PICK n \in 1..Len(task.data) :
          /\ n <= peer.room
          /\ peer' = [peer EXCEPT !.room = @ - n, !.input = @ \o SubSeq(task.data, 1, n)]
          /\ LET rest == Unwritten(task.data, n)
             IN  task' = IF rest # <<>> THEN [task EXCEPT !.data = rest, !.waits = 0]
                         ELSE IF task.drains THEN [in |-> "drain"] ELSE Idle
    BY DEF WriteSome
  <1> DEFINE data == task.data  old == peer.input  a == Len(old)  b == a + Len(data)
             got == SubSeq(data, 1, n)  rest == Unwritten(data, n)  new == old \o got
  <1>4. /\ data \in Seq(Nat) /\ old \in Seq(Nat) /\ a \in Nat /\ b \in Nat
        /\ Len(data) \in Nat /\ n \in Nat /\ n <= Len(data) /\ peer.room - n \in Nat
    BY <1>1, <1>2, <1>3 DEF PeerSet
  <1>5. old = Bytes(0, a) /\ data = Bytes(a, b)
    BY <1>1 DEF Inv, Input
  <1>6. got = Bytes(a, a + n) /\ rest = Bytes(a + n, b)
    <2>1. a <= b /\ n \in 1..(b - a) /\ b - a = Len(data)
      <3>1. b = a + Len(data) /\ n \in 1..Len(data)
        OBVIOUS
      <3> HIDE DEF a, b, data
      <3>2. QED
        BY <1>4, <3>1
    <2>2. /\ SubSeq(Bytes(a, b), 1, n) = Bytes(a, a + n)
          /\ SubSeq(Bytes(a, b), n + 1, b - a) = Bytes(a + n, b)
      <3> HIDE DEF a, b
      <3>1. QED
        BY <1>4, <2>1, BytesSplit
    <2>3. QED
      BY <1>5, <2>1, <2>2 DEF Unwritten
  <1>7. /\ new = Bytes(0, a + n) /\ new \in Seq(Nat) /\ Len(new) = a + n
        /\ rest \in Seq(Nat) /\ Len(rest) = Len(data) - n
    <2>1. /\ 0 <= a /\ a <= a + n /\ a + n <= b /\ a + n \in Nat /\ 0 \in Nat
          /\ b - (a + n) = Len(data) - n
      <3>1. b = a + Len(data)
        OBVIOUS
      <3> HIDE DEF a, b, data
      <3>2. QED
        BY <1>4, <3>1
    <2>2. Bytes(0, a) \o Bytes(a, a + n) = Bytes(0, a + n)
      <3> HIDE DEF a
      <3>1. QED
        BY <1>4, <2>1, BytesJoin
    <2>3. Bytes(0, a + n) \in Seq(Nat) /\ Len(Bytes(0, a + n)) = (a + n) - 0
      <3> DEFINE c == a + n
      <3>1. c \in Nat /\ 0 \in Nat /\ 0 <= c
        BY <2>1
      <3> HIDE DEF c
      <3>2. Bytes(0, c) \in Seq(Nat) /\ Len(Bytes(0, c)) = c - 0
        BY <3>1, BytesTyped
      <3>3. QED
        BY <3>2 DEF c
    <2>4. Bytes(a + n, b) \in Seq(Nat) /\ Len(Bytes(a + n, b)) = b - (a + n)
      <3> HIDE DEF a, b
      <3>1. QED
        BY <1>4, <2>1, BytesTyped
    <2>5. new = Bytes(0, a + n)
      BY <1>5, <1>6, <2>2
    <2>6. (a + n) - 0 = a + n
      BY <2>1
    <2>7. QED
      BY <1>6, <2>1, <2>3, <2>4, <2>5, <2>6
  <1>8. /\ peer' \in PeerSet /\ peer'.input = new /\ peer'.size = peer.size
        /\ peer'.refused = peer.refused /\ peer'.link = peer.link /\ peer'.seen = peer.seen
        /\ peer'.wire = peer.wire /\ peer'.printed = peer.printed
    <2>1. peer' = [peer EXCEPT !.room = peer.room - n, !.input = new]
      BY <1>3
    <2> HIDE DEF new
    <2>2. QED
      BY <1>1, <1>4, <1>7, <2>1 DEF PeerSet
  <1>9. /\ task' \in TaskSet
        /\ \/ task'.in = "write" /\ task'.data = rest /\ task'.waits = 0 /\ rest # <<>>
           \/ task'.in \in {"idle", "drain"} /\ rest = <<>>
    <2>1. task' = IF rest # <<>> THEN [task EXCEPT !.data = rest, !.waits = 0]
                  ELSE IF task.drains THEN [in |-> "drain"] ELSE Idle
      BY <1>3
    <2> HIDE DEF rest
    <2>2. CASE rest # <<>>
      <3>1. task' \in [in : {"write"}, data : Seq(Nat), waits : Nat, drains : BOOLEAN]
            /\ task'.data = rest /\ task'.waits = 0
        BY <1>2, <1>7, <2>1, <2>2
      <3>2. QED
        BY <2>2, <3>1 DEF TaskSet
    <2>3. CASE rest = <<>>
      BY <2>1, <2>3, IdleTask DEF TaskSet
    <2>4. QED
      BY <2>2, <2>3
  <1>10. Types'
    BY <1>1, <1>8, <1>9 DEF Inv, Types
  <1>11. Life'
    BY <1>1, <1>9, ShellAssumption DEF Inv, Life
  <1>12. gui.phase # "gone"
    BY <1>1 DEF Inv, Stops, Over
  <1>13. Stops' /\ Starts'
    BY <1>1, <1>9, <1>12 DEF Inv, Stops, Starts, Posted
  <1>14. Taken' = Taken
    <2>1. Taken = b
      BY <1>1 DEF Taken
    <2>2. task'.in = "write" => Taken' = (a + n) + Len(rest)
      BY <1>1, <1>7, <1>8, <1>9 DEF Taken
    <2>3. task'.in # "write" => Taken' = a + n /\ Len(data) - n = 0
      <3>1. rest = <<>> => Len(rest) = 0
        OBVIOUS
      <3>2. QED
        BY <1>1, <1>7, <1>8, <1>9, <3>1 DEF Taken
    <2>4. (a + n) + Len(rest) = b /\ (Len(data) - n = 0 => a + n = b)
      <3>1. b = a + Len(data) /\ Len(rest) = Len(data) - n
        BY <1>7
      <3> HIDE DEF a, b, data, rest
      <3>2. QED
        BY <1>4, <3>1
    <2>5. QED
      BY <2>1, <2>2, <2>3, <2>4
  <1>15. Input'
    <2>1. peer'.input = Bytes(0, Len(peer'.input))
      BY <1>7, <1>8
    <2>2. task'.in = "write" =>
            task'.data = Bytes(Len(peer'.input), Len(peer'.input) + Len(task'.data))
      <3>1. (a + n) + Len(rest) = b
        <4>1. b = a + Len(data) /\ Len(rest) = Len(data) - n
          BY <1>7
        <4> HIDE DEF a, b, data, rest
        <4>2. QED
          BY <1>4, <4>1
      <3>2. QED
        BY <1>6, <1>7, <1>8, <1>9, <3>1
    <2>3. Taking /\ session'.state \notin {"Idle", "Authenticating"}
      BY <1>1 DEF Taking
    <2>4. Chain(posts, Taken, Startup + gui.typed)
      BY <2>3 DEF Inv, Input
    <2> HIDE DEF new, rest
    <2>5. QED
      BY <1>1, <1>14, <2>1, <2>2, <2>3, <2>4 DEF Input
  <1>16. Sizing' /\ EndsOnce'
    BY <1>1, <1>8 DEF Inv, Sizing, Posted, EndsOnce, EndIsNext
  <1>17. Output'
    <2>1. Emitted' = Emitted
      BY <1>1, SameEmitted
    <2>2. ~Lossy
      BY <1>1 DEF Lossy, Over
    <2>3. QED
      BY <1>8, <1>9, <2>1, <2>2, OutputFrame
  <1>18. QED
    BY <1>10, <1>11, <1>13, <1>15, <1>16, <1>17 DEF Inv

-----------------------------------------------------------------------------
(***************************************************************************)
(* The worker takes a post.                                                *)
(***************************************************************************)
LEMMA PostTaken ==
  ASSUME Inv, TakePost
  PROVE  /\ posts \in Seq(PostSet) /\ posts # <<>> /\ posts' = Tail(posts)
         /\ task = Idle /\ task.in = "idle" /\ gui.phase # "gone"
         /\ session.state \in {"Idle", "Ready"} \cup Over
         /\ Head(posts) \in PostSet /\ Head(posts) = posts[1] /\ posts' \in Seq(PostSet)
         /\ Len(posts') \in Nat /\ Len(posts) = Len(posts') + 1
         /\ \A i \in 1..Len(posts') : posts'[i] = posts[i + 1] /\ i + 1 \in 1..Len(posts)
         /\ \A i \in 1..Len(posts) : i = 1 \/ i - 1 \in 1..Len(posts')
  <1>1. /\ posts \in Seq(PostSet) /\ posts # <<>> /\ posts' = Tail(posts)
        /\ task.in = "idle" /\ gui.phase # "gone" /\ task \in TaskSet
    BY DEF Inv, Types, TakePost
  <1>2. task = Idle
    BY <1>1 DEF TaskSet, Idle
  <1>3. session.state \in {"Idle", "Ready"} \cup Over
    BY <1>1 DEF Inv, Life
  <1>4. QED
    BY <1>1, <1>2, <1>3, Removed

(* A shutdown that is still posted is still the last post. *)
LEMMA TakenStops ==
  ASSUME Inv, TakePost, gui' = gui, task'.in # "close"
  PROVE  Stops'
  <1>1. \A i \in 1..Len(posts') : posts'[i].call = "shutdown" =>
          i = Len(posts') /\ gui.phase = "stopping"
    BY PostTaken, SMTT(30) DEF Inv, Stops
  <1>2. gui.phase # "gone"
    BY PostTaken
  <1>3. QED
    BY <1>1, <1>2 DEF Stops

(* A start or a write is taken: the sizes asked for wait where they were. *)
LEMMA TakenSizing ==
  ASSUME Inv, TakePost, Head(posts).call # "resize", gui'.size = gui.size, peer' = peer,
         session'.pendingSize = session.pendingSize,
         session'.state = "Ready" => session.state = "Ready"
  PROVE  Sizing'
  <1>1. ASSUME NEW i \in 1..Len(posts'), posts'[i].call = "resize",
               \A j \in 1..Len(posts') : j > i => posts'[j].call # "resize"
        PROVE  posts'[i].size = gui.size
    <2>1. posts'[i] = posts[i + 1] /\ i + 1 \in 1..Len(posts) /\ i \in Nat
      BY PostTaken
    <2>2. ASSUME NEW j \in 1..Len(posts), j > i + 1
          PROVE  posts[j].call # "resize"
      <3>1. j # 1 /\ j - 1 \in 1..Len(posts') /\ j - 1 > i /\ (j - 1) + 1 = j
        BY <2>1, <2>2, PostTaken
      <3>2. posts'[j - 1] = posts[j]
        BY <3>1, PostTaken
      <3>3. QED
        BY <1>1, <3>1, <3>2
    <2>3. QED
      BY <1>1, <2>1, <2>2 DEF Inv, Sizing
  <1>2. Posted("resize") => Posted("resize")'
    <2>1. ASSUME NEW i \in 1..Len(posts), posts[i].call = "resize"
          PROVE  \E j \in 1..Len(posts') : posts'[j].call = "resize"
      <3>1. i # 1 /\ i - 1 \in 1..Len(posts') /\ (i - 1) + 1 = i
        BY <2>1, PostTaken
      <3>2. posts'[i - 1] = posts[i]
        BY <3>1, PostTaken
      <3>3. QED
        BY <2>1, <3>1, <3>2
    <2>2. QED
      BY <2>1 DEF Posted
  <1>3. QED
    BY <1>1, <1>2 DEF Inv, Sizing

(* A post that is no write is taken: the writes lead on from where they did. *)
LEMMA TakenChain ==
  ASSUME Inv, TakePost, Taking
  PROVE  \E mid \in Nat : /\ Leads(Head(posts), Taken, mid)
                          /\ Chain(posts', mid, Startup + gui.typed)
  <1> DEFINE from == Taken  to == Startup + gui.typed
  <1>1. Chain(posts, from, to)
    BY DEF Inv, Input
  <1> HIDE DEF from, to
  <1>2. \E mid \in Nat : Leads(Head(posts), from, mid) /\ Chain(Tail(posts), mid, to)
    BY <1>1, PostTaken, ChainTail
  <1>3. QED
    BY <1>2, PostTaken DEF from, to

(* Nothing is emitted with a start, a write or a resize. *)
LEMMA TakenOutput ==
  ASSUME Inv, TakePost, signals' = signals, gui' = gui, task'.in # "close",
         session.state \in Over => session'.state \in Over,
         session'.state \in Over => session.state \in Over,
         peer'.link = peer.link, peer'.wire = peer.wire, peer'.printed = peer.printed,
         peer'.seen = peer.seen
  PROVE  Output' /\ EndsOnce'
  <1>1. Emitted' = Emitted
    BY SameEmitted
  <1>2. Lossy => Lossy'
    BY PostTaken DEF Lossy
  <1>3. Output'
    BY <1>1, <1>2, OutputFrame
  <1>4. EndsOnce'
    BY DEF Inv, EndsOnce, EndIsNext
  <1>5. QED
    BY <1>3, <1>4

LEMMA StartInv ==
  ASSUME Inv, TakePost, Head(posts).call = "start", Start
  PROVE  Inv'
  <1>1. /\ signals' = signals /\ peer' = peer /\ gui' = gui /\ session \in SessionSet
        /\ task.in = "idle" /\ task = Idle
    BY PostTaken DEF Start, Inv, Types
  <1>2. /\ session' \in SessionSet /\ session'.channel = session.channel
        /\ session'.watching = session.watching /\ session'.pendingSize = session.pendingSize
        /\ session'.state = IF session.state = "Idle" THEN "Authenticating" ELSE session.state
        /\ task' = IF session.state = "Idle" THEN [in |-> "open"] ELSE task
    <2>1. CASE session.state = "Idle"
      <3>1. session' = [session EXCEPT !.state = "Authenticating"] /\ task' = [in |-> "open"]
        BY <2>1 DEF Start
      <3>2. QED
        BY <1>1, <2>1, <3>1 DEF SessionSet, States
    <2>2. CASE session.state # "Idle"
      BY <1>1, <2>2 DEF Start
    <2>3. QED
      BY <2>1, <2>2
  <1>3. task' \in TaskSet /\ task'.in = IF session.state = "Idle" THEN "open" ELSE "idle"
    BY <1>1, <1>2, IdleTask DEF TaskSet
  <1>4. Types'
    BY <1>1, <1>2, <1>3, PostTaken DEF Inv, Types
  <1>5. Life'
    <2>1. session.state \in {"Idle", "Ready"} \cup Over
      BY PostTaken
    <2>2. QED
      BY <1>2, <1>3, <2>1 DEF Inv, Life, Over
  <1>6. Stops'
    BY <1>1, <1>3, TakenStops
  <1>7. session'.state # "Idle" /\ gui.phase # "new"
    <2>1. 1 \in 1..Len(posts) /\ posts[1].call = "start"
      BY PostTaken
    <2>2. QED
      BY <1>2, <2>1 DEF Inv, Starts
  <1>8. Starts'
    BY <1>1, <1>7 DEF Starts
  <1>9. Input'
    <2>1. ASSUME Taking'
          PROVE  Chain(posts', Taken', Startup + gui.typed)
      <3>1. Taking
        BY <1>1, <1>2, <1>3, <2>1 DEF Taking
      <3>2. PICK mid \in Nat : Leads(Head(posts), Taken, mid)
                               /\ Chain(posts', mid, Startup + gui.typed)
        BY <3>1, TakenChain
      <3>3. mid = Taken
        BY <3>2 DEF Leads
      <3>4. Taken' = Taken
        BY <1>1, <1>2, <1>3 DEF Taken
      <3>5. QED
        BY <3>2, <3>3, <3>4
    <2>2. QED
      BY <1>1, <1>2, <1>3, <2>1 DEF Inv, Input
  <1>10. Sizing'
    BY <1>1, <1>2, TakenSizing
  <1>11. Output' /\ EndsOnce'
    <2>1. "Authenticating" \notin Over /\ "Idle" \notin Over
      BY DEF Over
    <2>2. QED
      BY <1>1, <1>2, <1>3, <2>1, TakenOutput
  <1>12. QED
    BY <1>4, <1>5, <1>6, <1>8, <1>9, <1>10, <1>11 DEF Inv

LEMMA WriteInv ==
  ASSUME Inv, TakePost, Head(posts).call = "write", Write(Head(posts).data)
  PROVE  Inv'
  <1> DEFINE data == Head(posts).data  a == Len(peer.input)
  <1>1. /\ signals' = signals /\ peer' = peer /\ gui' = gui /\ session \in SessionSet
        /\ task.in = "idle" /\ peer \in PeerSet /\ Head(posts) \in PostSet
    BY PostTaken DEF Write, Inv, Types
  <1>2. data \in Seq(Nat) /\ a \in Nat
    BY <1>1 DEF PostSet, PeerSet
  <1>3. session.state \in {"Ready"} \cup Over
    <2>1. 1 \in 1..Len(posts) /\ posts[1].call = "write"
      BY PostTaken
    <2>2. \A j \in 1..Len(posts) : ~(j < 1)
      BY PostTaken
    <2>3. session.state # "Idle"
      BY <2>1, <2>2 DEF Inv, Starts
    <2>4. QED
      BY <2>3, PostTaken
  <1>4. session' = session
    BY <1>3 DEF Write, Over
  <1>5. task' = IF session.state = "Ready" THEN Writing(data, FALSE) ELSE task
    BY DEF Write
  <1>6. session.state = "Ready" => Taking /\ Taken = a
    BY <1>1 DEF Taking, Taken
  <1>7. ASSUME session.state = "Ready"
        PROVE  /\ data = Bytes(a, a + Len(data)) /\ data # <<>>
               /\ Chain(posts', a + Len(data), Startup + gui.typed)
    <2>1. PICK mid \in Nat : Leads(Head(posts), a, mid)
                             /\ Chain(posts', mid, Startup + gui.typed)
      BY <1>6, <1>7, TakenChain
    <2>2. mid = a + WriteSize /\ data = Bytes(a, mid)
      BY <2>1 DEF Leads
    <2> HIDE DEF a, data
    <2>3. mid \in Nat /\ a <= mid /\ mid - a = WriteSize /\ WriteSize # 0
      BY <1>2, <2>2, ShellAssumption
    <2>4. Len(data) = mid - a
      BY <1>2, <2>1, <2>2, <2>3, BytesTyped
    <2>5. a + Len(data) = mid /\ Len(data) # 0
      BY <1>2, <2>3, <2>4
    <2>6. data # <<>>
      BY <2>5
    <2>7. QED
      BY <2>1, <2>2, <2>5, <2>6
  <1>8. /\ task' \in TaskSet
        /\ session.state = "Ready" =>
             task'.in = "write" /\ task'.data = data /\ task'.waits = 0
        /\ session.state # "Ready" => task'.in = "idle"
    <2> HIDE DEF data
    <2>1. CASE session.state = "Ready"
      BY <1>2, <1>5, <2>1 DEF TaskSet, Writing
    <2>2. CASE session.state # "Ready"
      BY <1>1, <1>5, <2>2 DEF Inv, Types
    <2>3. QED
      BY <2>1, <2>2
  <1> HIDE DEF a, data
  <1>9. Types'
    BY <1>1, <1>4, <1>8, PostTaken DEF Inv, Types
  <1>10. Life'
    <2>1. session.state = "Ready" => task'.in = "write" /\ task'.waits < MaxWaits /\ task'.data # <<>>
      BY <1>7, <1>8, ShellAssumption
    <2>2. session.state # "Ready" => task'.in = "idle" /\ session.state \in Over
      BY <1>3, <1>8
    <2>3. QED
      BY <1>4, <2>1, <2>2 DEF Inv, Life, Over
  <1>11. Stops'
    BY <1>1, <1>8, TakenStops
  <1>12. Starts'
    <2>1. session'.state # "Idle" /\ gui.phase # "new"
      BY <1>3, <1>4 DEF Inv, Starts, Over
    <2>2. QED
      BY <1>1, <2>1 DEF Starts
  <1>13. Input'
    <2>1. CASE session.state = "Ready"
      <3>1. Taken' = a + Len(data) /\ peer'.input = peer.input /\ a = Len(peer.input)
        BY <1>1, <1>4, <1>8, <2>1 DEF Taken, a
      <3>2. task'.in = "write" /\ task'.data = Bytes(a, a + Len(data)) /\ task'.data = data
        BY <1>7, <1>8, <2>1
      <3>3. QED
        BY <1>1, <1>4, <1>7, <2>1, <3>1, <3>2 DEF Inv, Input
    <2>2. CASE session.state # "Ready"
      <3>1. ~Taking' /\ task'.in # "write" /\ session'.state \notin {"Idle", "Authenticating"}
        BY <1>3, <1>4, <1>8, <2>2 DEF Taking, Over
      <3>2. QED
        BY <1>1, <3>1 DEF Inv, Input
    <2>3. QED
      BY <2>1, <2>2
  <1>14. Sizing'
    BY <1>1, <1>4, TakenSizing
  <1>15. Output' /\ EndsOnce'
    BY <1>1, <1>4, <1>8, TakenOutput
  <1>16. QED
    BY <1>9, <1>10, <1>11, <1>12, <1>13, <1>14, <1>15 DEF Inv

LEMMA ResizeInv ==
  ASSUME Inv, TakePost, Head(posts).call = "resize", Resize(Head(posts).size)
  PROVE  Inv'
  <1> DEFINE size == Head(posts).size
  <1>1. /\ signals' = signals /\ task' = task /\ gui' = gui /\ session \in SessionSet
        /\ task.in = "idle" /\ peer \in PeerSet /\ Head(posts) \in PostSet
        /\ session' = [session EXCEPT !.pendingSize = size]
    BY PostTaken DEF Resize, Inv, Types
  <1>2. size \in Sizes
    BY <1>1 DEF PostSet
  <1>3. /\ peer' \in PeerSet /\ peer'.input = peer.input /\ peer'.link = peer.link
        /\ peer'.wire = peer.wire /\ peer'.printed = peer.printed /\ peer'.seen = peer.seen
        /\ session.state = "Ready" => peer'.refused \/ peer'.size = size
    <2>1. \/ session.state = "Ready" /\ peer' = [peer EXCEPT !.size = size, !.refused = FALSE]
          \/ session.state = "Ready" /\ peer' = [peer EXCEPT !.refused = TRUE]
          \/ session.state # "Ready" /\ peer' = peer
      BY DEF Resize, Requested
    <2> HIDE DEF size
    <2>2. QED
      BY <1>1, <1>2, <2>1 DEF PeerSet
  <1> HIDE DEF size
  <1>4. /\ session' \in SessionSet /\ session'.state = session.state
        /\ session'.channel = session.channel /\ session'.watching = session.watching
        /\ session'.pendingSize = size
    BY <1>1, <1>2 DEF SessionSet
  <1>5. Types' /\ Life'
    BY <1>1, <1>3, <1>4, PostTaken DEF Inv, Types, Life
  <1>6. Stops'
    BY <1>1, TakenStops
  <1>7. Starts'
    <2>1. gui.phase = "new" => \A i \in 1..Len(posts') : posts'[i].call = "resize"
      BY PostTaken DEF Inv, Starts
    <2>2. Posted("start") => Posted("start")'
      <3>1. ASSUME NEW i \in 1..Len(posts), posts[i].call = "start"
            PROVE  \E j \in 1..Len(posts') : posts'[j].call = "start"
        <4>1. i # 1 /\ i - 1 \in 1..Len(posts') /\ (i - 1) + 1 = i
          BY <3>1, PostTaken
        <4>2. posts'[i - 1] = posts[i]
          BY <4>1, PostTaken
        <4>3. QED
          BY <3>1, <4>1, <4>2
      <3>2. QED
        BY <3>1 DEF Posted
    <2>3. ASSUME session.state = "Idle", NEW i \in 1..Len(posts'), posts'[i].call = "write"
          PROVE  \E j \in 1..Len(posts') : j < i /\ posts'[j].call = "start"
      <3>1. i + 1 \in 1..Len(posts) /\ posts[i + 1].call = "write" /\ i \in Nat
        BY <2>3, PostTaken
      <3>2. PICK j \in 1..Len(posts) : j < i + 1 /\ posts[j].call = "start"
        BY <2>3, <3>1 DEF Inv, Starts
      <3>3. j # 1 /\ j - 1 \in 1..Len(posts') /\ (j - 1) + 1 = j /\ j - 1 < i
        BY <3>1, <3>2, PostTaken
      <3>4. posts'[j - 1] = posts[j]
        BY <3>3, PostTaken
      <3>5. QED
        BY <3>2, <3>3, <3>4
    <2>4. QED
      BY <1>1, <1>4, <2>1, <2>2, <2>3 DEF Inv, Starts
  <1>8. Input'
    <2>1. ASSUME Taking
          PROVE  Chain(posts', Taken, Startup + gui.typed)
      <3>1. PICK mid \in Nat : Leads(Head(posts), Taken, mid)
                               /\ Chain(posts', mid, Startup + gui.typed)
        BY <2>1, TakenChain
      <3>2. mid = Taken
        BY <3>1 DEF Leads
      <3>3. QED
        BY <3>1, <3>2
    <2>2. (Taking' <=> Taking) /\ Taken' = Taken
      BY <1>1, <1>3, <1>4 DEF Taking, Taken
    <2>3. QED
      BY <1>1, <1>3, <1>4, <2>1, <2>2 DEF Inv, Input
  <1>9. Sizing'
    <2>1. ASSUME NEW i \in 1..Len(posts'), posts'[i].call = "resize",
                 \A j \in 1..Len(posts') : j > i => posts'[j].call # "resize"
          PROVE  posts'[i].size = gui.size
      <3>1. posts'[i] = posts[i + 1] /\ i + 1 \in 1..Len(posts) /\ i \in Nat
        BY PostTaken
      <3>2. ASSUME NEW j \in 1..Len(posts), j > i + 1
            PROVE  posts[j].call # "resize"
        <4>1. j # 1 /\ j - 1 \in 1..Len(posts') /\ j - 1 > i /\ (j - 1) + 1 = j
          BY <3>1, <3>2, PostTaken
        <4>2. posts'[j - 1] = posts[j]
          BY <4>1, PostTaken
        <4>3. QED
          BY <2>1, <4>1, <4>2
      <3>3. QED
        BY <2>1, <3>1, <3>2 DEF Inv, Sizing
    <2>2. ASSUME ~Posted("resize")'
          PROVE  size = gui.size
      <3>1. 1 \in 1..Len(posts) /\ posts[1].call = "resize" /\ posts[1].size = size
        BY PostTaken DEF size
      <3>2. ASSUME NEW j \in 1..Len(posts), j > 1
            PROVE  posts[j].call # "resize"
        <4>1. j # 1 /\ j - 1 \in 1..Len(posts') /\ (j - 1) + 1 = j
          BY <3>2, PostTaken
        <4>2. posts'[j - 1] = posts[j]
          BY <4>1, PostTaken
        <4>3. QED
          BY <2>2, <4>1, <4>2 DEF Posted
      <3>3. QED
        BY <3>1, <3>2 DEF Inv, Sizing
    <2>3. QED
      BY <1>1, <1>3, <1>4, <2>1, <2>2 DEF Sizing
  <1>10. Output' /\ EndsOnce'
    BY <1>1, <1>3, <1>4, TakenOutput
  <1>11. QED
    BY <1>5, <1>6, <1>7, <1>8, <1>9, <1>10 DEF Inv

LEMMA ShutdownInv ==
  ASSUME Inv, TakePost, Head(posts).call = "shutdown", Shutdown, peer' = peer
  PROVE  Inv'
  <1>1. Len(posts) = 1 /\ posts' = <<>> /\ gui.phase = "stopping" /\ posts' \in Seq(PostSet)
    <2>1. 1 \in 1..Len(posts) /\ posts[1].call = "shutdown"
      BY PostTaken
    <2>2. Len(posts) = 1 /\ gui.phase = "stopping"
      BY <2>1 DEF Inv, Stops
    <2>3. posts' = <<>> /\ posts' \in Seq(PostSet)
      BY <2>2, PostTaken, Removed
    <2>4. QED
      BY <2>2, <2>3
  <1>2. \A i \in 1..Len(posts) : posts[i].call = "shutdown"
    BY <1>1, PostTaken
  <1>3. session.state # "Idle"
    BY <1>1, <1>2 DEF Inv, Starts, Posted
  <1>4. session.pendingSize = gui.size
    BY <1>2 DEF Inv, Sizing, Posted
  <1>5. task.in = "idle" /\ task = Idle /\ gui \in GuiSet /\ peer \in PeerSet
        /\ signals \in Seq(SignalSet)
    BY PostTaken DEF Inv, Types
  <1>6. \A i \in 1..Len(posts') : FALSE
    BY <1>1
  <1>7. CASE /\ session.state \in Over /\ session' = AfterTeardown(session.state)
             /\ gui' = [gui EXCEPT !.phase = "gone"] /\ signals' = signals /\ task' = task
    <2>1. /\ session' \in SessionSet /\ session'.state = session.state
          /\ ~session'.channel /\ ~session'.watching /\ session'.pendingSize = session.pendingSize
      BY <1>7, TornDown
    <2>2. /\ gui' \in GuiSet /\ gui'.phase = "gone" /\ gui'.size = gui.size
          /\ gui'.screen = gui.screen /\ gui'.ended = gui.ended
      BY <1>5, <1>7 DEF GuiSet
    <2>3. Types'
      BY <1>1, <1>7, <2>1, <2>2 DEF Inv, Types
    <2>4. Life'
      BY <1>5, <1>7, <2>1 DEF Inv, Life, Over
    <2>5. Stops'
      BY <1>1, <1>5, <1>6, <1>7, <2>1 DEF Stops
    <2>6. session'.state \notin {"Idle", "Authenticating", "Ready"}
      BY <1>7, <2>1 DEF Over
    <2>7. Starts'
      BY <2>2, <2>6 DEF Starts
    <2>8. Input'
      BY <1>5, <1>7, <2>6 DEF Inv, Input, Taking
    <2>9. Sizing'
      BY <1>4, <1>6, <2>1, <2>2, <2>6 DEF Sizing
    <2>10. Output'
      <3>1. Emitted' = Emitted
        BY <1>7, <2>2, SameEmitted
      <3>2. Lossy => Lossy'
        BY <1>7, <2>1 DEF Lossy
      <3>3. QED
        BY <1>5, <1>7, <3>1, <3>2, OutputFrame
    <2>11. EndsOnce'
      BY <1>7, <2>1, <2>2 DEF Inv, EndsOnce, EndIsNext
    <2>12. QED
      BY <2>3, <2>4, <2>5, <2>7, <2>8, <2>9, <2>10, <2>11 DEF Inv
  <1>8. CASE session.state \notin Over /\ TearDown("shutdown", "Closed", "closed", <<>>)
    <2> DEFINE more == <<>>  cause == "shutdown"
    <2>1. session.state = "Ready"
      BY <1>3, <1>8, PostTaken
    <2>2. /\ more \in Seq(SignalSet) /\ \A i \in 1..Len(more) : more[i].kind \notin Ends
          /\ TearDown(cause, "Closed", "closed", more) /\ "Closed" \in Over /\ "closed" \in Ends
          /\ cause \in {"shutdown", "write", "error", "end"} /\ cause = "shutdown"
      BY <1>8 DEF Over, Ends
    <2>3. signals \o more = signals
      BY <1>5, NothingAdded
    <2> HIDE DEF more, cause
    <2>4. /\ task' \in TaskSet /\ task'.in = "close" /\ task'.cause = cause
          /\ session' \in SessionSet /\ session'.pendingSize = session.pendingSize
          /\ session'.state = "Closing"
          /\ gui' = gui /\ signals' = signals \o more /\ signals' \in Seq(SignalSet)
          /\ Life' /\ EndsOnce'
      BY <2>1, <2>2, ClosesChannel
    <2>5. Types'
      BY <1>1, <2>4 DEF Inv, Types
    <2>6. Stops'
      BY <1>1, <1>6, <2>4 DEF Stops
    <2>7. Starts'
      BY <1>1, <2>4 DEF Starts
    <2>8. Input'
      BY <2>4 DEF Inv, Input, Taking
    <2>9. Sizing'
      BY <1>4, <1>6, <2>4 DEF Sizing
    <2>10. Output'
      <3>1. Emitted' = Emitted
        BY <2>3, <2>4, SameEmitted
      <3>2. Lossy => Lossy'
        BY <2>4 DEF Lossy
      <3>3. task'.cause # "end"
        BY <2>2, <2>4
      <3>4. QED
        BY <3>1, <3>2, <3>3, OutputFrame
    <2>11. QED
      BY <2>4, <2>5, <2>6, <2>7, <2>8, <2>9, <2>10 DEF Inv
  <1>9. QED
    BY <1>7, <1>8 DEF Shutdown, EndsQuietly

LEMMA TakePostInv ==
  ASSUME Inv, TakePost
  PROVE  Inv'
  <1>1. \/ Head(posts).call = "start" /\ Start
        \/ Head(posts).call = "write" /\ Write(Head(posts).data)
        \/ Head(posts).call = "resize" /\ Resize(Head(posts).size)
        \/ Head(posts).call = "shutdown" /\ Shutdown /\ peer' = peer
    BY DEF TakePost
  <1>2. QED
    BY <1>1, StartInv, WriteInv, ResizeInv, ShutdownInv

-----------------------------------------------------------------------------
(***************************************************************************)
(* Draining.                                                               *)
(***************************************************************************)
LEMMA OfItself ==
  ASSUME NEW s \in Seq(PacketSet), NEW a, NEW b
  PROVE  Of(Of(s, a), b) = IF a = b THEN Of(s, a) ELSE <<>>
  <1> DEFINE P == PacketSet
  <1>1. s \in Seq(P)
    OBVIOUS
  <1> HIDE DEF P
  <1>2. QED
    BY <1>1, OfOf

LEMMA OfFound ==
  ASSUME NEW s \in Seq(PacketSet), NEW a
  PROVE  \A i \in 1..Len(Of(s, a)) : Of(s, a)[i].stream = a
  <1> DEFINE P == PacketSet
  <1>1. s \in Seq(P)
    OBVIOUS
  <1> HIDE DEF P
  <1>2. QED
    BY <1>1, OfFinds

LEMMA OfMissing ==
  ASSUME NEW s \in Seq(PacketSet), NEW a, \A i \in 1..Len(s) : s[i].stream # a
  PROVE  Of(s, a) = <<>>
  <1> DEFINE P == PacketSet
  <1>1. s \in Seq(P)
    OBVIOUS
  <1> HIDE DEF P
  <1>2. QED
    BY <1>1, OfNone

LEMMA NoneAdded ==
  ASSUME NEW s \in Seq(PacketSet)
  PROVE  s \o <<>> = s /\ <<>> \o s = s
  OBVIOUS

(* What a draining leaves unread when it has read the first stream up to one *)
(* packet, and the second up to a later one: b lies between them, ab is all  *)
(* that has come.                                                            *)
Unread(b, ab) == Of(b, "out") \o Of(ab, "close")

LEMMA UnreadOf ==
  ASSUME NEW b \in Seq(PacketSet), NEW ab \in Seq(PacketSet)
  PROVE  /\ Unread(b, ab) \in Seq(PacketSet)
         /\ Of(Unread(b, ab), "out") = Of(b, "out") /\ Of(Unread(b, ab), "err") = <<>>
  <1> DEFINE x == Of(b, "out")  y == Of(ab, "close")
  <1>1. x \in Seq(PacketSet) /\ y \in Seq(PacketSet)
    BY OfTyped
  <1>2. /\ Of(x, "out") = x /\ Of(x, "err") = <<>>
        /\ Of(y, "out") = <<>> /\ Of(y, "err") = <<>>
    <2>1. Of(x, "out") = x
      BY OfItself
    <2>2. Of(x, "err") = <<>>
      BY OfItself
    <2>3. Of(y, "out") = <<>>
      BY OfItself
    <2>4. Of(y, "err") = <<>>
      BY OfItself
    <2>5. QED
      BY <2>1, <2>2, <2>3, <2>4
  <1>3. Unread(b, ab) = x \o y
    BY DEF Unread
  <1> HIDE DEF x, y
  <1>4. x \o y \in Seq(PacketSet)
    BY <1>1, Packets
  <1>5. Of(x \o y, "out") = x
    <2>1. Of(x \o y, "out") = Of(x, "out") \o Of(y, "out")
      BY <1>1, OfJoins, SMTT(30)
    <2>2. x \o <<>> = x
      BY <1>1, NoneAdded
    <2>3. QED
      BY <1>2, <2>1, <2>2
  <1>6. Of(x \o y, "err") = <<>>
    <2>1. Of(x \o y, "err") = Of(x, "err") \o Of(y, "err")
      BY <1>1, OfJoins, SMTT(30)
    <2>2. <<>> \o <<>> = <<>>
      OBVIOUS
    <2>3. QED
      BY <1>2, <2>1, <2>2
  <1>7. QED
    BY <1>3, <1>4, <1>5, <1>6 DEF x

LEMMA Leaves ==
  ASSUME NEW b \in Seq(PacketSet), NEW ab \in Seq(PacketSet), NEW c \in Seq(PacketSet)
  PROVE  /\ Unread(b, ab) \o c \in Seq(PacketSet)
         /\ Of(Unread(b, ab) \o c, "out") = Of(b, "out") \o Of(c, "out")
         /\ Of(Unread(b, ab) \o c, "err") = Of(c, "err")
  <1> DEFINE u == Unread(b, ab)
  <1>1. u \in Seq(PacketSet) /\ Of(u, "out") = Of(b, "out") /\ Of(u, "err") = <<>>
    BY UnreadOf
  <1> HIDE DEF u
  <1>2. u \o c \in Seq(PacketSet)
    BY <1>1, Packets
  <1>3. Of(u \o c, "out") = Of(u, "out") \o Of(c, "out")
    BY <1>1, OfJoins
  <1>4. Of(u \o c, "err") = Of(u, "err") \o Of(c, "err")
    BY <1>1, OfJoins
  <1>5. <<>> \o Of(c, "err") = Of(c, "err")
    BY OfTyped, NoneAdded
  <1>6. QED
    BY <1>1, <1>2, <1>3, <1>4, <1>5 DEF u

(* The wire in three parts. *)
LEMMA Parts ==
  ASSUME NEW w \in Seq(PacketSet), NEW n \in 0..Len(w), NEW m \in n..Len(w)
  PROVE  /\ SubSeq(w, 1, n) \in Seq(PacketSet) /\ SubSeq(w, n + 1, m) \in Seq(PacketSet)
         /\ SubSeq(w, m + 1, Len(w)) \in Seq(PacketSet)
         /\ SubSeq(w, 1, m) = SubSeq(w, 1, n) \o SubSeq(w, n + 1, m)
         /\ w = SubSeq(w, 1, m) \o SubSeq(w, m + 1, Len(w))
  <1>1. n \in Nat /\ m \in Nat /\ Len(w) \in Nat /\ n <= m /\ m <= Len(w)
    OBVIOUS
  <1>2. SubSeq(w, 1, n) \in Seq(PacketSet) /\ Len(SubSeq(w, 1, n)) = n
        /\ \A i \in 1..n : SubSeq(w, 1, n)[i] = w[i]
    BY <1>1
  <1>3. SubSeq(w, 1, m) \in Seq(PacketSet) /\ Len(SubSeq(w, 1, m)) = m
        /\ \A i \in 1..m : SubSeq(w, 1, m)[i] = w[i]
    BY <1>1
  <1>4. SubSeq(w, n + 1, m) \in Seq(PacketSet) /\ Len(SubSeq(w, n + 1, m)) = m - n
        /\ \A i \in 1..(m - n) : SubSeq(w, n + 1, m)[i] = w[n + i]
    BY <1>1
  <1>5. SubSeq(w, m + 1, Len(w)) \in Seq(PacketSet) /\ Len(SubSeq(w, m + 1, Len(w))) = Len(w) - m
        /\ \A i \in 1..(Len(w) - m) : SubSeq(w, m + 1, Len(w))[i] = w[m + i]
    BY <1>1
  <1> DEFINE a == SubSeq(w, 1, n)  b == SubSeq(w, n + 1, m)  c == SubSeq(w, m + 1, Len(w))
             ab == SubSeq(w, 1, m)
  <1>6. /\ a \in Seq(PacketSet) /\ Len(a) = n /\ \A i \in 1..n : a[i] = w[i]
        /\ b \in Seq(PacketSet) /\ Len(b) = m - n /\ \A i \in 1..(m - n) : b[i] = w[n + i]
        /\ ab \in Seq(PacketSet) /\ Len(ab) = m /\ \A i \in 1..m : ab[i] = w[i]
        /\ c \in Seq(PacketSet) /\ Len(c) = Len(w) - m /\ \A i \in 1..(Len(w) - m) : c[i] = w[m + i]
    BY <1>2, <1>3, <1>4, <1>5
  <1> HIDE DEF a, b, c, ab
  <1>7. ab = a \o b
    <2>1. a \o b \in Seq(PacketSet) /\ Len(a \o b) = Len(ab)
      <3>1. a \in Seq(PacketSet) /\ b \in Seq(PacketSet)
        BY <1>6
      <3>2. Len(a) + Len(b) = Len(ab)
        BY <1>1, <1>6
      <3>3. QED
        BY <3>1, <3>2, Packets
    <2>2. ASSUME NEW i \in 1..Len(ab)
          PROVE  ab[i] = (a \o b)[i]
      <3>1. i \in 1..(Len(a) + Len(b)) /\ i \in 1..m /\ i \in Nat
        BY <1>1, <1>6
      <3>2. (a \o b)[i] = IF i <= Len(a) THEN a[i] ELSE b[i - Len(a)]
        BY <1>6, <3>1, JoinedAt
      <3>3. i <= Len(a) => a[i] = w[i]
        BY <1>1, <1>6, <3>1
      <3>4. ~(i <= Len(a)) => b[i - Len(a)] = w[i]
        <4>1. ~(i <= n) => i - n \in 1..(m - n) /\ n + (i - n) = i
          BY <1>1, <3>1
        <4>2. QED
          BY <1>6, <4>1
      <3>5. ab[i] = w[i]
        BY <1>6, <3>1
      <3>6. QED
        BY <3>2, <3>3, <3>4, <3>5
    <2>3. QED
      BY <1>6, <2>1, <2>2, SameSequence
  <1>8. w = ab \o c
    <2>1. ab \o c \in Seq(PacketSet) /\ Len(ab \o c) = Len(w)
      BY <1>1, <1>6, Packets
    <2>2. ASSUME NEW i \in 1..Len(w)
          PROVE  w[i] = (ab \o c)[i]
      <3>1. i \in 1..(Len(ab) + Len(c)) /\ i \in Nat /\ i <= Len(w)
        BY <1>1, <1>6
      <3>2. (ab \o c)[i] = IF i <= Len(ab) THEN ab[i] ELSE c[i - Len(ab)]
        BY <1>6, <3>1, JoinedAt
      <3>3. i <= Len(ab) => ab[i] = w[i]
        BY <1>1, <1>6, <3>1
      <3>4. ~(i <= Len(ab)) => c[i - Len(ab)] = w[i]
        <4>1. ~(i <= m) => i - m \in 1..(Len(w) - m) /\ m + (i - m) = i
          BY <1>1, <3>1
        <4>2. QED
          BY <1>6, <4>1
      <3>5. QED
        BY <3>2, <3>3, <3>4
    <2>3. QED
      BY <2>1, <2>2, SameSequence
  <1>9. QED
    BY <1>6, <1>7, <1>8 DEF a, b, c, ab

(* A close comes last. *)
CloseLast(w) == \A i \in 1..Len(w) : w[i].stream = "close" => i = Len(w)

LEMMA OneClose ==
  ASSUME NEW w \in Seq(PacketSet), CloseLast(w)
  PROVE  Len(Of(w, "close")) <= 1
  <1>1. CASE w = <<>>
    <2>1. Of(w, "close") = <<>>
      BY <1>1, OfEmpty
    <2>2. QED
      BY <2>1
  <1>2. CASE w # <<>>
    <2> DEFINE n == Len(w) - 1  front == SubSeq(w, 1, n)  last == w[n + 1]
    <2>1. Len(w) \in Nat /\ n \in Nat /\ n + 1 = Len(w) /\ n + 1 <= Len(w)
      BY <1>2
    <2>2. SubSeq(w, 1, Len(w)) = w
      OBVIOUS
    <2>3. /\ front \in Seq(PacketSet) /\ Len(front) = n /\ last \in PacketSet
          /\ \A i \in 1..n : front[i] = w[i]
      BY <2>1
    <2>4. w = Append(front, last)
      <3> DEFINE P == PacketSet
      <3>1. w \in Seq(P)
        OBVIOUS
      <3> HIDE DEF P, n
      <3>2. SubSeq(w, 1, n + 1) = Append(SubSeq(w, 1, n), w[n + 1])
        BY <2>1, <3>1, PrefixGrows
      <3>3. QED
        BY <2>1, <2>2, <3>2
    <2>5. ASSUME NEW i \in 1..Len(front)
          PROVE  front[i].stream # "close"
      <3>1. i \in 1..n
        BY <2>3, <2>5
      <3>2. i \in 1..Len(w) /\ i # Len(w)
        <4> HIDE DEF front, last, n
        <4>1. QED
          BY <2>1, <3>1
      <3>3. front[i] = w[i]
        BY <2>3, <3>1
      <3>4. QED
        BY <3>2, <3>3 DEF CloseLast
    <2> HIDE DEF front, last
    <2>6. Of(front, "close") = <<>>
      BY <2>3, <2>5, OfMissing
    <2>7. Of(Append(front, last), "close") =
            IF last.stream = "close" THEN Append(Of(front, "close"), last) ELSE Of(front, "close")
      BY <2>3, OfGrows
    <2> DEFINE v == Of(Append(front, last), "close")
    <2>8. v = IF last.stream = "close" THEN Append(<<>>, last) ELSE <<>>
      BY <2>6, <2>7
    <2>9. Len(Append(<<>>, last)) = 1 /\ Len(<<>>) = 0
      OBVIOUS
    <2>10. Of(w, "close") = v
      BY <2>4
    <2> HIDE DEF v
    <2>11. Len(v) <= 1
      BY <2>8, <2>9
    <2>12. QED
      BY <2>10, <2>11
  <1>3. QED
    BY <1>1, <1>2

LEMMA NoCloseBefore ==
  ASSUME NEW ab \in Seq(PacketSet), NEW c \in Seq(PacketSet), CloseLast(ab \o c)
  PROVE  /\ c # <<>> => Of(ab, "close") = <<>>
         /\ CloseLast(c)
  <1> DEFINE w == ab \o c
  <1>1. /\ Len(w) = Len(ab) + Len(c) /\ Len(ab) \in Nat /\ Len(c) \in Nat
        /\ \A i \in 1..Len(ab) : w[i] = ab[i]
        /\ \A i \in 1..Len(c) : w[Len(ab) + i] = c[i]
        /\ c # <<>> => Len(c) > 0
    OBVIOUS
  <1>2. CloseLast(w)
    OBVIOUS
  <1> HIDE DEF w
  <1>3. ASSUME c # <<>>, NEW i \in 1..Len(ab)
        PROVE  ab[i].stream # "close"
    <2>1. i \in 1..Len(w) /\ i # Len(w) /\ w[i] = ab[i]
      BY <1>1, <1>3
    <2>2. QED
      BY <1>2, <2>1 DEF CloseLast
  <1>4. ASSUME NEW i \in 1..Len(c), c[i].stream = "close"
        PROVE  i = Len(c)
    <2>1. Len(ab) + i \in 1..Len(w) /\ w[Len(ab) + i] = c[i]
      BY <1>1
    <2>2. Len(ab) + i = Len(w)
      BY <1>2, <1>4, <2>1 DEF CloseLast
    <2>3. QED
      BY <1>1, <2>2
  <1>5. QED
    BY <1>3, <1>4, OfMissing DEF CloseLast

LEMMA CloseJoined ==
  ASSUME NEW u \in Seq(PacketSet), NEW c \in Seq(PacketSet), CloseLast(u), CloseLast(c),
         c # <<>> => \A i \in 1..Len(u) : u[i].stream # "close"
  PROVE  CloseLast(u \o c)
  <1> DEFINE w == u \o c
  <1>1. /\ w \in Seq(PacketSet) /\ Len(w) = Len(u) + Len(c) /\ Len(u) \in Nat /\ Len(c) \in Nat
        /\ c = <<>> => Len(c) = 0
    OBVIOUS
  <1>2. ASSUME NEW i \in 1..(Len(u) + Len(c))
        PROVE  w[i] = IF i <= Len(u) THEN u[i] ELSE c[i - Len(u)]
    BY JoinedAt
  <1> HIDE DEF w
  <1>3. ASSUME NEW i \in 1..Len(w), w[i].stream = "close"
        PROVE  i = Len(w)
    <2>1. i \in Nat /\ i \in 1..(Len(u) + Len(c))
      BY <1>1
    <2>2. CASE i <= Len(u)
      <3>1. i \in 1..Len(u) /\ u[i].stream = "close"
        BY <1>2, <1>3, <2>1, <2>2
      <3>2. i = Len(u) /\ c = <<>>
        BY <3>1 DEF CloseLast
      <3>3. QED
        BY <1>1, <3>2
    <2>3. CASE ~(i <= Len(u))
      <3>1. i - Len(u) \in 1..Len(c)
        BY <1>1, <2>1, <2>3
      <3>2. c[i - Len(u)].stream = "close"
        BY <1>2, <1>3, <2>1, <2>3
      <3>3. i - Len(u) = Len(c)
        BY <3>1, <3>2 DEF CloseLast
      <3>4. QED
        BY <1>1, <2>1, <3>3
    <2>4. QED
      BY <2>2, <2>3
  <1>4. CloseLast(w)
    BY <1>3 DEF CloseLast
  <1>5. QED
    BY <1>4 DEF w

LEMMA CloseStaysLast ==
  ASSUME NEW b \in Seq(PacketSet), NEW ab \in Seq(PacketSet), NEW c \in Seq(PacketSet),
         CloseLast(ab \o c)
  PROVE  /\ CloseLast(Unread(b, ab) \o c)
         /\ Exhausted(Unread(b, ab)) => Of(b, "out") = <<>> /\ c = <<>>
  <1> DEFINE x == Of(b, "out")  y == Of(ab, "close")
  <1>1. x \in Seq(PacketSet) /\ y \in Seq(PacketSet)
    BY OfTyped
  <1>2. \A i \in 1..Len(x) : x[i].stream = "out"
    BY OfFound
  <1>3. \A i \in 1..Len(y) : y[i].stream = "close"
    BY OfFound
  <1>4. (c # <<>> => y = <<>>) /\ CloseLast(c)
    BY NoCloseBefore
  <1>5. c = <<>> => Len(y) <= 1
    <2>1. ASSUME c = <<>>
          PROVE  CloseLast(ab)
      <3>1. ab \o <<>> = ab
        BY NoneAdded
      <3>2. QED
        BY <2>1, <3>1
    <2>2. QED
      BY <2>1, OneClose
  <1>6. Unread(b, ab) = x \o y
    BY DEF Unread
  <1> HIDE DEF x, y
  <1>7. x \o y \in Seq(PacketSet) /\ Len(x \o y) = Len(x) + Len(y) /\ Len(x) \in Nat /\ Len(y) \in Nat
    BY <1>1, Packets
  <1>8. Len(y) <= 1
    <2>1. y = <<>> => Len(y) = 0
      OBVIOUS
    <2>2. QED
      BY <1>4, <1>5, <2>1
  <1>9. ASSUME NEW i \in 1..Len(x \o y), (x \o y)[i].stream = "close"
        PROVE  i = Len(x \o y) /\ y # <<>>
    <2>1. i \in Nat /\ i \in 1..(Len(x) + Len(y))
      BY <1>7
    <2>2. (x \o y)[i] = IF i <= Len(x) THEN x[i] ELSE y[i - Len(x)]
      BY <1>1, <2>1, JoinedAt
    <2>3. i <= Len(x) => i \in 1..Len(x)
      BY <1>7, <2>1
    <2>4. ~(i <= Len(x))
      BY <1>2, <1>9, <2>2, <2>3
    <2>5. i = Len(x) + Len(y) /\ Len(y) # 0
      BY <1>7, <1>8, <2>1, <2>4
    <2>6. QED
      BY <1>7, <2>5
  <1>10. CloseLast(x \o y)
    BY <1>9 DEF CloseLast
  <1>11. c # <<>> => \A i \in 1..Len(x \o y) : (x \o y)[i].stream # "close"
    BY <1>4, <1>9
  <1>12. CloseLast((x \o y) \o c)
    <2> DEFINE u == x \o y
    <2>1. /\ u \in Seq(PacketSet) /\ CloseLast(u) /\ CloseLast(c)
          /\ c # <<>> => \A i \in 1..Len(u) : u[i].stream # "close"
      BY <1>4, <1>7, <1>10, <1>11
    <2> HIDE DEF u
    <2>2. CloseLast(u \o c)
      BY <2>1, CloseJoined
    <2>3. QED
      BY <2>2 DEF u
  <1>13. ASSUME Exhausted(x \o y)
         PROVE  x = <<>> /\ c = <<>>
    <2>1. x \o y # <<>> /\ (x \o y)[1].stream = "close"
      BY <1>13 DEF Exhausted
    <2>2. x # <<>> => 1 \in 1..Len(x) /\ 1 \in 1..(Len(x) + Len(y)) /\ 1 <= Len(x)
      BY <1>1, <1>7
    <2>3. x # <<>> => (x \o y)[1] = x[1]
      BY <1>1, <2>2, JoinedAt
    <2>4. x = <<>>
      BY <1>2, <2>1, <2>2, <2>3
    <2>5. <<>> \o y = y
      BY <1>1, NoneAdded
    <2>6. QED
      BY <1>4, <2>1, <2>4, <2>5
  <1>14. QED
    BY <1>6, <1>12, <1>13 DEF x

(* What a draining emits, and what that shows of each stream. *)
Got(a, ab) == Data(Of(a, "out")) \o Data(Of(ab, "err"))

LEMMA GotOf ==
  ASSUME NEW a \in Seq(PacketSet), NEW ab \in Seq(PacketSet)
  PROVE  /\ Got(a, ab) \in Seq(SignalSet)
         /\ \A i \in 1..Len(Got(a, ab)) : Got(a, ab)[i].kind \notin Ends
         /\ Of(PacketsOf(Got(a, ab)), "out") = Of(a, "out")
         /\ Of(PacketsOf(Got(a, ab)), "err") = Of(ab, "err")
  <1> DEFINE x == Of(a, "out")  y == Of(ab, "err")
  <1>1. x \in Seq(PacketSet) /\ y \in Seq(PacketSet)
    BY OfTyped
  <1>2. /\ Of(x, "out") = x /\ Of(x, "err") = <<>>
        /\ Of(y, "out") = <<>> /\ Of(y, "err") = y
    <2>1. Of(x, "out") = x
      BY OfItself
    <2>2. Of(x, "err") = <<>>
      BY OfItself
    <2>3. Of(y, "out") = <<>>
      BY OfItself
    <2>4. Of(y, "err") = y
      BY OfItself
    <2>5. QED
      BY <2>1, <2>2, <2>3, <2>4
  <1>3. Got(a, ab) = Data(x) \o Data(y)
    BY DEF Got
  <1> HIDE DEF x, y
  <1> DEFINE dx == Data(x)  dy == Data(y)  g == dx \o dy
  <1>4. /\ dx \in Seq(SignalSet) /\ PacketsOf(dx) = x
        /\ \A i \in 1..Len(dx) : dx[i].kind = "data"
    BY <1>1, DataPackets
  <1>5. /\ dy \in Seq(SignalSet) /\ PacketsOf(dy) = y
        /\ \A i \in 1..Len(dy) : dy[i].kind = "data"
    BY <1>1, DataPackets
  <1> HIDE DEF dx, dy
  <1>6. g \in Seq(SignalSet) /\ Len(g) = Len(dx) + Len(dy) /\ Len(dx) \in Nat /\ Len(dy) \in Nat
    BY <1>4, <1>5
  <1>7. ASSUME NEW i \in 1..Len(g)
        PROVE  g[i].kind \notin Ends
    <2>1. i \in Nat /\ i \in 1..(Len(dx) + Len(dy))
      BY <1>6
    <2>2. g[i] = IF i <= Len(dx) THEN dx[i] ELSE dy[i - Len(dx)]
      BY <1>4, <1>5, <2>1, JoinedAt
    <2>3. i <= Len(dx) => i \in 1..Len(dx)
      BY <2>1
    <2>4. ~(i <= Len(dx)) => i - Len(dx) \in 1..Len(dy)
      BY <1>6, <2>1
    <2>5. g[i].kind = "data"
      BY <1>4, <1>5, <2>2, <2>3, <2>4
    <2>6. QED
      BY <2>5 DEF Ends
  <1>8. PacketsOf(g) = x \o y
    BY <1>4, <1>5, PacketsJoin
  <1>9. Of(x \o y, "out") = x
    <2>1. Of(x \o y, "out") = Of(x, "out") \o Of(y, "out")
      BY <1>1, OfJoins, SMTT(30)
    <2>2. x \o <<>> = x
      BY <1>1, NoneAdded
    <2>3. QED
      BY <1>2, <2>1, <2>2
  <1>10. Of(x \o y, "err") = y
    <2>1. Of(x \o y, "err") = Of(x, "err") \o Of(y, "err")
      BY <1>1, OfJoins, SMTT(30)
    <2>2. <<>> \o y = y
      BY <1>1, NoneAdded
    <2>3. QED
      BY <1>2, <2>1, <2>2
  <1>11. g = Got(a, ab)
    BY <1>3 DEF dx, dy
  <1> HIDE DEF g
  <1>12. QED
    BY <1>6, <1>7, <1>8, <1>9, <1>10, <1>11 DEF x, y

(* A connection that is lost leaves the second stream unread. *)
LEMMA GotFirst ==
  ASSUME NEW a \in Seq(PacketSet)
  PROVE  /\ Data(Of(a, "out")) \o <<>> \in Seq(SignalSet)
         /\ \A i \in 1..Len(Data(Of(a, "out")) \o <<>>) : (Data(Of(a, "out")) \o <<>>)[i].kind \notin Ends
         /\ Of(PacketsOf(Data(Of(a, "out")) \o <<>>), "out") = Of(a, "out")
         /\ Of(PacketsOf(Data(Of(a, "out")) \o <<>>), "err") = <<>>
  <1> DEFINE x == Of(a, "out")  dx == Data(x)
  <1>1. x \in Seq(PacketSet)
    BY OfTyped
  <1>2. /\ dx \in Seq(SignalSet) /\ PacketsOf(dx) = x
        /\ \A i \in 1..Len(dx) : dx[i].kind = "data"
    <2> HIDE DEF x
    <2>1. QED
      BY <1>1, DataPackets
  <1>3. Of(x, "out") = x
    BY OfItself
  <1>4. Of(x, "err") = <<>>
    BY OfItself
  <1> HIDE DEF dx
  <1>5. dx \o <<>> = dx
    BY <1>2, NothingAdded
  <1>6. \A i \in 1..Len(dx) : dx[i].kind \notin Ends
    BY <1>2 DEF Ends
  <1>7. QED
    BY <1>2, <1>3, <1>4, <1>5, <1>6 DEF dx

LEMMA DrainInv ==
  ASSUME Inv, Drain
  PROVE  Inv'
  <1>1. /\ task.in \in {"idle", "drain"} /\ session.state = "Ready" /\ posts' = posts
        /\ peer \in PeerSet /\ signals \in Seq(SignalSet) /\ ~Lossy
    BY DEF Drain, Inv, Types, Lossy, Over
  <1>2. PICK n \in peer.seen..Len(peer.wire), m \in peer.seen..Len(peer.wire) :
          /\ n <= m
          /\ LET unread == Of(SubSeq(peer.wire, n + 1, m), "out") \o Of(First(m), "close")
                 got    == Data(Of(First(n), "out"))
                           \o IF peer.link = "broken" THEN <<>> ELSE Data(Of(First(m), "err"))
             IN  /\ peer' = [peer EXCEPT
                               !.wire = unread \o SubSeq(peer.wire, m + 1, Len(peer.wire)),
                               !.seen = Len(unread)]
                 /\ \/ /\ ReadError
                       /\ TearDown("error", "Closed", "closed", got)
                    \/ /\ ~ReadError /\ Exhausted(unread)
                       /\ TearDown("end", "Closed", "closed", got)
                    \/ /\ ~ReadError /\ ~Exhausted(unread)
                       /\ signals' = signals \o got
                       /\ task' = Idle
                       /\ UNCHANGED <<session, gui>>
    BY DEF Drain
  <1> DEFINE w == peer.wire
             a == SubSeq(w, 1, n)  b == SubSeq(w, n + 1, m)  c == SubSeq(w, m + 1, Len(w))
             ab == SubSeq(w, 1, m)
             u == Unread(b, ab)
             got == IF peer.link = "broken" THEN Data(Of(a, "out")) \o <<>> ELSE Got(a, ab)
  <1>3. /\ peer' = [peer EXCEPT !.wire = u \o c, !.seen = Len(u)]
        /\ \/ /\ peer.link = "broken"
              /\ TearDown("error", "Closed", "closed", got)
           \/ /\ peer.link # "broken" /\ Exhausted(u)
              /\ TearDown("end", "Closed", "closed", got)
           \/ /\ peer.link # "broken" /\ ~Exhausted(u)
              /\ signals' = signals \o got /\ task' = Idle
              /\ UNCHANGED <<session, gui>>
    BY <1>2 DEF First, Unread, Got, ReadError
  <1>4. w \in Seq(PacketSet) /\ n \in 0..Len(w) /\ m \in n..Len(w)
    BY <1>1, <1>2 DEF PeerSet
  <1> HIDE DEF w
  <1>5. /\ a \in Seq(PacketSet) /\ b \in Seq(PacketSet) /\ c \in Seq(PacketSet)
        /\ ab = a \o b /\ w = ab \o c
    BY <1>4, Parts
  <1>6. ab \in Seq(PacketSet)
    BY <1>5, Packets
  <1>7. CloseLast(ab \o c)
    BY <1>5 DEF Inv, Output, CloseLast, w
  <1> HIDE DEF a, b, c, ab
  <1>8. /\ u \in Seq(PacketSet) /\ u \o c \in Seq(PacketSet)
        /\ Of(u \o c, "out") = Of(b, "out") \o Of(c, "out")
        /\ Of(u \o c, "err") = Of(c, "err")
    <2>1. b \in Seq(PacketSet) /\ c \in Seq(PacketSet) /\ ab \in Seq(PacketSet)
      BY <1>5, <1>6
    <2>2. u \in Seq(PacketSet)
      BY <2>1, UnreadOf
    <2>3. QED
      BY <2>1, <2>2, Leaves
  <1>9. CloseLast(u \o c) /\ (Exhausted(u) => Of(b, "out") = <<>> /\ c = <<>>)
    <2>1. b \in Seq(PacketSet) /\ c \in Seq(PacketSet) /\ ab \in Seq(PacketSet)
      BY <1>5, <1>6
    <2>2. QED
      BY <1>7, <2>1, CloseStaysLast
  <1>10. /\ Len(u \o c) = Len(u) + Len(c) /\ Len(u) \in Nat /\ Len(c) \in Nat
    BY <1>5, <1>8
  <1>11. /\ got \in Seq(SignalSet) /\ \A i \in 1..Len(got) : got[i].kind \notin Ends
         /\ Of(PacketsOf(got), "out") = Of(a, "out")
         /\ Of(PacketsOf(got), "err") = IF peer.link = "broken" THEN <<>> ELSE Of(ab, "err")
    <2>1. CASE peer.link = "broken"
      BY <1>5, <2>1, GotFirst
    <2>2. CASE peer.link # "broken"
      BY <1>5, <1>6, <2>2, GotOf
    <2>3. QED
      BY <2>1, <2>2
  <1> HIDE DEF u, got
  <1>12. /\ peer' \in PeerSet /\ peer'.wire = u \o c /\ peer'.seen = Len(u)
         /\ peer'.input = peer.input /\ peer'.size = peer.size /\ peer'.refused = peer.refused
         /\ peer'.link = peer.link /\ peer'.printed = peer.printed
    <2> DEFINE wire == u \o c
    <2>1. peer' = [peer EXCEPT !.wire = wire, !.seen = Len(u)] /\ wire \in Seq(PacketSet)
          /\ Len(u) \in Nat
      BY <1>3, <1>8, <1>10
    <2> HIDE DEF wire
    <2>2. /\ peer' \in PeerSet /\ peer'.wire = wire /\ peer'.seen = Len(u)
          /\ peer'.input = peer.input /\ peer'.size = peer.size /\ peer'.refused = peer.refused
          /\ peer'.link = peer.link /\ peer'.printed = peer.printed
      BY <1>1, <2>1 DEF PeerSet
    <2>3. QED
      BY <2>2 DEF wire
  <1>13. "Closed" \in Over /\ "closed" \in Ends
    BY DEF Over, Ends
  <1>14. /\ Types' /\ Life' /\ Stops' /\ Starts' /\ Input' /\ Sizing' /\ EndsOnce'
         /\ gui' = gui /\ signals' = signals \o got /\ session'.state = "Ready"
         /\ \/ /\ peer.link = "broken" /\ task'.in = "close" /\ task'.cause = "error"
            \/ /\ peer.link # "broken" /\ Exhausted(u)
               /\ task'.in = "close" /\ task'.cause = "end"
            \/ /\ peer.link # "broken" /\ task'.in = "idle"
    <2>1. CASE peer.link = "broken" /\ TearDown("error", "Closed", "closed", got)
      <3> DEFINE cause == "error"
      <3>1. TearDown(cause, "Closed", "closed", got) /\ cause \in {"write", "error", "end"}
        BY <2>1
      <3> HIDE DEF cause
      <3>2. /\ Types' /\ Life' /\ Stops' /\ Starts' /\ Input' /\ Sizing' /\ EndsOnce'
            /\ gui' = gui /\ signals' = signals \o got /\ session'.state = "Ready"
            /\ task'.in = "close" /\ task'.cause = cause
        BY <1>1, <1>11, <1>12, <1>13, <3>1, GivesUp
      <3>3. QED
        BY <2>1, <3>2 DEF cause
    <2>2. CASE /\ peer.link # "broken" /\ Exhausted(u)
               /\ TearDown("end", "Closed", "closed", got)
      <3> DEFINE cause == "end"
      <3>1. TearDown(cause, "Closed", "closed", got) /\ cause \in {"write", "error", "end"}
        BY <2>2
      <3> HIDE DEF cause
      <3>2. /\ Types' /\ Life' /\ Stops' /\ Starts' /\ Input' /\ Sizing' /\ EndsOnce'
            /\ gui' = gui /\ signals' = signals \o got /\ session'.state = "Ready"
            /\ task'.in = "close" /\ task'.cause = cause
        BY <1>1, <1>11, <1>12, <1>13, <3>1, GivesUp
      <3>3. QED
        BY <2>2, <3>2 DEF cause
    <2>3. CASE /\ peer.link # "broken" /\ signals' = signals \o got /\ task' = Idle
               /\ UNCHANGED <<session, gui>>
      <3>1. task' \in TaskSet /\ task'.in = "idle"
        BY <2>3, IdleTask
      <3>2. "Ready" \notin Over
        BY DEF Over
      <3>3. EndsOnce' /\ signals' \in Seq(SignalSet)
        BY <1>1, <1>11, <2>3, <3>2, EndsQuiet
      <3>4. Types'
        BY <1>1, <1>12, <2>3, <3>1, <3>3 DEF Inv, Types
      <3>5. Life'
        BY <1>1, <2>3, <3>1 DEF Inv, Life
      <3>6. gui.phase # "gone"
        BY <1>1, <3>2 DEF Inv, Stops
      <3>7. Stops' /\ Starts'
        BY <1>1, <2>3, <3>1, <3>6 DEF Inv, Stops, Starts, Posted
      <3>8. Input'
        BY <1>1, <1>12, <2>3, <3>1 DEF Inv, Input, Taking, Taken
      <3>9. Sizing'
        BY <1>1, <1>12, <2>3 DEF Inv, Sizing, Posted
      <3>10. QED
        BY <1>1, <2>3, <3>1, <3>3, <3>4, <3>5, <3>7, <3>8, <3>9
    <2>4. QED
      BY <1>3, <2>1, <2>2, <2>3
  <1>15. ASSUME NEW stream \in {"out", "err"}
         PROVE  /\ Of(Emitted', stream) = Of(Emitted, stream) \o Of(PacketsOf(got), stream)
                /\ Of(Emitted, stream) \in Seq(PacketSet)
                /\ Of(Emitted, stream) \o Of(w, stream) = Of(peer.printed, stream)
    <2>1. Of(Emitted, stream)' = Of(Emitted, stream) \o Of(PacketsOf(got), stream)
      BY <1>11, <1>14, EmittedGrows DEF Inv
    <2>2. Of(Emitted, stream) \in Seq(PacketSet)
      BY EmittedTyped, OfTyped DEF Inv
    <2>3. Of(Emitted, stream) \o Of(w, stream) = Of(peer.printed, stream)
      BY <1>1 DEF Inv, Output, Flow, w
    <2>4. QED
      BY <2>1, <2>2, <2>3
  <1>16. /\ Of(w, "out") = Of(a, "out") \o (Of(b, "out") \o Of(c, "out"))
         /\ Of(w, "err") = Of(ab, "err") \o Of(c, "err")
    <2>1. Of(w, "out") = Of(ab, "out") \o Of(c, "out")
      BY <1>5, <1>6, OfJoins
    <2>2. Of(ab, "out") = Of(a, "out") \o Of(b, "out")
      BY <1>5, OfJoins
    <2>3. (Of(a, "out") \o Of(b, "out")) \o Of(c, "out")
            = Of(a, "out") \o (Of(b, "out") \o Of(c, "out"))
      <3> DEFINE x == Of(a, "out")  y == Of(b, "out")  z == Of(c, "out")
      <3>1. x \in Seq(PacketSet) /\ y \in Seq(PacketSet) /\ z \in Seq(PacketSet)
        BY <1>5, OfTyped
      <3> HIDE DEF x, y, z
      <3>2. (x \o y) \o z = x \o (y \o z)
        BY <3>1, PacketsAssociate
      <3>3. QED
        BY <3>2 DEF x, y, z
    <2>4. Of(w, "err") = Of(ab, "err") \o Of(c, "err")
      BY <1>5, <1>6, OfJoins
    <2>5. QED
      BY <2>1, <2>2, <2>3, <2>4
  <1>17. /\ Of(Emitted', "out") \in Seq(PacketSet)
         /\ Of(Emitted', "out") \o Of(u \o c, "out") = Of(peer.printed, "out")
    <2> DEFINE e == Of(Emitted, "out")  r == Of(a, "out")  l == Of(b, "out") \o Of(c, "out")
               p == Of(peer.printed, "out")  v == Of(w, "out")
    <2>1. Of(b, "out") \in Seq(PacketSet) /\ Of(c, "out") \in Seq(PacketSet)
      BY <1>5, OfTyped
    <2>2. l \in Seq(PacketSet)
      BY <2>1, Packets
    <2>3. r \in Seq(PacketSet)
      BY <1>5, OfTyped
    <2>4. e \in Seq(PacketSet) /\ v = r \o l /\ e \o v = p /\ Of(Emitted', "out") = e \o r
      BY <1>11, <1>15, <1>16
    <2>5. Of(u \o c, "out") = l
      BY <1>8
    <2> HIDE DEF e, r, l, p, v
    <2>6. (e \o r) \o l = p /\ e \o r \in Seq(PacketSet)
      <3>1. (e \o r) \o l = e \o (r \o l)
        BY <2>2, <2>3, <2>4, PacketsAssociate
      <3>2. e \o r \in Seq(PacketSet)
        BY <2>3, <2>4, Packets
      <3>3. QED
        BY <2>4, <3>1, <3>2
    <2>7. QED
      BY <2>4, <2>5, <2>6 DEF p
  <1>18. ASSUME peer.link # "broken"
         PROVE  /\ Of(Emitted', "err") \in Seq(PacketSet)
                /\ Of(Emitted', "err") \o Of(u \o c, "err") = Of(peer.printed, "err")
    <2> DEFINE e == Of(Emitted, "err")  r == Of(ab, "err")  l == Of(c, "err")
               p == Of(peer.printed, "err")  v == Of(w, "err")
    <2>1. r \in Seq(PacketSet) /\ l \in Seq(PacketSet)
      BY <1>5, <1>6, OfTyped
    <2>2. e \in Seq(PacketSet) /\ v = r \o l /\ e \o v = p /\ Of(Emitted', "err") = e \o r
      BY <1>11, <1>15, <1>16, <1>18
    <2>3. Of(u \o c, "err") = l
      BY <1>8
    <2> HIDE DEF e, r, l, p, v
    <2>4. (e \o r) \o l = p /\ e \o r \in Seq(PacketSet)
      <3>1. (e \o r) \o l = e \o (r \o l)
        BY <2>1, <2>2, PacketsAssociate
      <3>2. e \o r \in Seq(PacketSet)
        BY <2>1, <2>2, Packets
      <3>3. QED
        BY <2>2, <3>1, <3>2
    <2>5. QED
      BY <2>2, <2>3, <2>4 DEF p
  <1>19. CASE peer.link = "broken"
    <2>1. Lossy' /\ task'.cause = "error"
      BY <1>12, <1>14, <1>19 DEF Lossy
    <2>2. Begins(Of(Emitted', "out"), Of(peer.printed, "out"))
      <3> DEFINE e == Of(Emitted', "out")  v == Of(u \o c, "out")  p == Of(peer.printed, "out")
      <3>1. e \in Seq(PacketSet) /\ v \in Seq(PacketSet) /\ e \o v = p
        BY <1>8, <1>17, OfTyped
      <3> HIDE DEF e, v, p
      <3>2. Begins(e, p)
        BY <3>1, BeginsIfJoined
      <3>3. QED
        BY <3>2 DEF e, p
    <2>3. Begins(Of(Emitted', "err"), Of(peer.printed, "err"))
      <3>1. Of(Emitted', "err") = Of(Emitted, "err") \o <<>> /\ Of(Emitted, "err") \in Seq(PacketSet)
        BY <1>11, <1>15, <1>19
      <3>2. Of(Emitted', "err") = Of(Emitted, "err")
        BY <3>1, NoneAdded
      <3>3. Begins(Of(Emitted, "err"), Of(peer.printed, "err"))
        BY FlowBegins
      <3>4. QED
        BY <3>2, <3>3
    <2>4. \A stream \in {"out", "err"} : Begins(Of(Emitted', stream), Of(peer'.printed, stream))
      BY <1>12, <2>2, <2>3
    <2>5. peer'.seen <= Len(peer'.wire)
      BY <1>10, <1>12
    <2>6. Output'
      BY <1>9, <1>12, <2>1, <2>4, <2>5 DEF Output, Flow, CloseLast
    <2>7. QED
      BY <1>14, <2>6 DEF Inv
  <1>20. CASE peer.link # "broken"
    <2>1. ~Lossy'
      BY <1>12, <1>20 DEF Lossy
    <2>2. \A stream \in {"out", "err"} :
            Of(Emitted', stream) \o Of(peer'.wire, stream) = Of(peer'.printed, stream)
      BY <1>12, <1>17, <1>18, <1>20
    <2>3. peer'.seen <= Len(peer'.wire)
      BY <1>10, <1>12
    <2>4. ASSUME task'.in = "close", task'.cause = "end"
          PROVE  /\ HasClosed'
                 /\ \A stream \in {"out", "err"} :
                      Of(Emitted', stream) = Of(peer'.printed, stream)
      <3>1. Exhausted(u) /\ Of(b, "out") = <<>> /\ c = <<>>
        BY <1>9, <1>14, <1>20, <2>4
      <3>2. u \o c = u /\ 1 \in 1..Len(u) /\ u[1].stream = "close"
        <4>1. u # <<>> /\ u[1].stream = "close"
          BY <3>1 DEF Exhausted
        <4>2. 1 \in 1..Len(u)
          BY <1>8, <4>1
        <4>3. u \o <<>> = u
          BY <1>8, NoneAdded
        <4>4. QED
          BY <3>1, <4>1, <4>2, <4>3
      <3>3. HasClosed'
        BY <1>12, <3>2 DEF HasClosed
      <3>4. Of(c, "out") = <<>> /\ Of(c, "err") = <<>> /\ <<>> \o <<>> = <<>>
        BY <3>1, NothingShown
      <3>5. Of(u \o c, "out") = <<>> /\ Of(u \o c, "err") = <<>>
        BY <1>8, <3>1, <3>4
      <3>6. Of(Emitted', "out") = Of(peer.printed, "out")
        BY <1>17, <3>5, NoneAdded
      <3>7. Of(Emitted', "err") = Of(peer.printed, "err")
        BY <1>18, <1>20, <3>5, NoneAdded
      <3>8. QED
        BY <1>12, <3>3, <3>6, <3>7
    <2>5. Output'
      BY <1>9, <1>12, <2>1, <2>2, <2>3, <2>4 DEF Output, Flow, CloseLast
    <2>6. QED
      BY <1>14, <2>5 DEF Inv
  <1>21. QED
    BY <1>19, <1>20

-----------------------------------------------------------------------------
(***************************************************************************)
(* The theorems.                                                           *)
(***************************************************************************)
LEMMA InitInv ==
  ASSUME Init
  PROVE  Inv
  <1>1. DefaultSize \in Sizes /\ Room \in Nat /\ Startup \in Nat
    BY ShellAssumption
  <1>2. session \in SessionSet /\ task \in TaskSet /\ posts \in Seq(PostSet) /\ signals \in Seq(SignalSet)
    BY <1>1, IdleTask DEF Init, SessionSet, States
  <1>3. peer \in PeerSet
    BY <1>1 DEF Init, PeerSet
  <1>4. gui \in GuiSet
    BY <1>1 DEF Init, GuiSet
  <1>5. /\ posts = <<>> /\ signals = <<>> /\ session.state = "Idle" /\ ~session.channel
        /\ ~session.watching /\ session.pendingSize = DefaultSize /\ task.in = "idle"
        /\ peer.input = <<>> /\ peer.printed = <<>> /\ peer.wire = <<>> /\ peer.seen = 0
        /\ gui.phase = "new" /\ gui.size = DefaultSize /\ gui.typed = 0
        /\ gui.screen = <<>> /\ gui.ended = 0 /\ peer.link = "up"
    BY IdleTask DEF Init
  <1>6. Types
    BY <1>2, <1>3, <1>4 DEF Types
  <1>7. Life
    BY <1>5 DEF Life, Over
  <1>8. Stops /\ Starts
    BY <1>5 DEF Stops, Starts
  <1>9. Input
    <2>1. Bytes(0, 0) = <<>> /\ Len(<<>>) = 0
      BY BytesTyped
    <2>2. Chain(<<>>, Startup, Startup)
      BY <1>1, ChainEmpty
    <2>3. Taken = Startup /\ Startup + gui.typed = Startup
      BY <1>1, <1>5 DEF Taken
    <2>4. QED
      BY <1>5, <2>1, <2>2, <2>3 DEF Input
  <1>10. Sizing
    BY <1>5 DEF Sizing
  <1>11. Output
    <2>1. Emitted = <<>>
      BY <1>5 DEF Emitted
    <2>2. ASSUME NEW stream \in {"out", "err"}
          PROVE  Flow(stream)
      <3>1. Of(<<>>, stream) = <<>> /\ <<>> \o <<>> = <<>>
        BY NothingShown
      <3>2. ~Lossy
        BY <1>5 DEF Lossy
      <3>3. QED
        BY <1>5, <2>1, <3>1, <3>2 DEF Flow
    <2>3. QED
      BY <1>5, <2>2 DEF Output
  <1>12. EndsOnce
    BY <1>5 DEF EndsOnce, EndIsNext, Over
  <1>13. QED
    BY <1>6, <1>7, <1>8, <1>9, <1>10, <1>11, <1>12 DEF Inv

LEMMA StutterInv ==
  ASSUME Inv, UNCHANGED vars
  PROVE  Inv'
  <1>1. Emitted' = Emitted
    BY SameEmitted DEF vars
  <1>2. Types' /\ Life' /\ Stops' /\ Starts'
    BY DEF vars, Inv, Types, Life, Stops, Starts, Posted
  <1>3. Input' /\ Sizing' /\ EndsOnce'
    BY DEF vars, Inv, Input, Taking, Taken, Sizing, Posted, EndsOnce, EndIsNext
  <1>4. Output'
    BY <1>1 DEF vars, Inv, Output, Flow, Lossy, HasClosed
  <1>5. QED
    BY <1>2, <1>3, <1>4 DEF Inv

LEMMA NextInv ==
  ASSUME Inv, Next
  PROVE  Inv'
  <1>1. ASSUME User PROVE Inv'
    BY <1>1, ConnectToHostInv, TypeInv, StopInv, ResizeTerminalInv DEF User
  <1>2. ASSUME Worker PROVE Inv'
    BY <1>2, TakePostInv, OpenFailsInv, OpenSucceedsInv, DrainInv, WriteSomeInv,
       WriteWaitsInv, WriteFailsInv, CloseReturnsInv DEF Worker
  <1>3. ASSUME Peer PROVE Inv'
    BY <1>3, PrintsInv, ClosesInv, ReadsInv, FailsInv DEF Peer
  <1>4. QED
    BY <1>1, <1>2, <1>3, DeliverInv DEF Next

(* Inv holds in every state: it is what the theorems below rest on. *)
THEOREM Invariance == Spec => []Inv
  <1>1. Init => Inv
    BY InitInv
  <1>2. Inv /\ [Next]_vars => Inv'
    BY NextInv, StutterInv
  <1>3. QED
    BY <1>1, <1>2, PTL DEF Spec

(* Whatever the order in which end of file, a lost connection, a write that is    *)
(* given up, a failed start and the user's stop meet: a session that was started  *)
(* reports its end once and last, the timers run only with a channel, and when    *)
(* the GUI thread has come back from stop() no post is left and nothing is going  *)
(* on.                                                                            *)
THEOREM TypeCorrect == Spec => []TypeOK
  <1>1. Inv => TypeOK
    BY DEF Inv, Types, SessionSet, TaskSet, Life, Stops, TypeOK
  <1>2. QED
    BY <1>1, Invariance, PTL

(* The shell gets what was typed, byte for byte and in order, and the terminal    *)
(* gets the front of what each stream printed, all of it when the shell ended.    *)
THEOREM StreamsAreWholeCorrect == Spec => []StreamsAreWhole
  <1>1. ASSUME Inv PROVE InputAsTyped
    <2>1. ASSUME session.state = "Ready", task.in \in {"idle", "drain"}, ~Posted("write")
          PROVE  Len(peer.input) = Startup + gui.typed
      <3> DEFINE from == Taken  to == Startup + gui.typed
      <3>1. from = Len(peer.input)
        BY <2>1 DEF Taken
      <3>2. Chain(posts, from, to)
        BY <1>1, <2>1 DEF Inv, Input, Taking
      <3>3. posts \in Seq(PostSet) /\ \A i \in 1..Len(posts) : posts[i].call # "write"
        BY <1>1, <2>1 DEF Inv, Types, Posted
      <3> HIDE DEF from, to
      <3>4. from = to
        BY <3>2, <3>3, ChainQuiet
      <3>5. QED
        BY <3>1, <3>4 DEF to
    <2>2. QED
      BY <1>1, <2>1 DEF Inv, Input, InputAsTyped
  <1>2. ASSUME Inv PROVE OutputAsPrinted
    <2>1. ASSUME NEW stream \in {"out", "err"}
          PROVE  Begins(Of(Emitted, stream), Of(peer.printed, stream))
      BY <1>2, FlowBegins
    <2>2. QED
      BY <1>2, <2>1 DEF Inv, Output, OutputAsPrinted
  <1>3. Inv => StreamsAreWhole
    BY <1>1, <1>2 DEF StreamsAreWhole
  <1>4. QED
    BY <1>3, Invariance, PTL

(* Once nothing is posted and nothing is going on, the remote terminal has the    *)
(* size of the local one, or the last request for it was given up.                *)
THEOREM SizeSettlesCorrect == Spec => []SizeSettles
  <1>1. Inv => SizeSettles
    BY DEF Inv, Sizing, SizeSettles
  <1>2. QED
    BY <1>1, Invariance, PTL

=============================================================================
