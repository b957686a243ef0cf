-------------------------- MODULE HostStoreProofs --------------------------
(***************************************************************************)
(* Proofs about HostStore for any host names, users, configurations, files *)
(* and number of ids.                                                      *)
(*                                                                         *)
(* load() and importFromSshConfig() are loops, written as recursive        *)
(* functions; what they give for every file and every configuration is     *)
(* proved by induction over the set of the numbers of entries, or lines,   *)
(* for which it holds (Induct).                                            *)
(***************************************************************************)
EXTENDS HostStore, TLAPS, WellFoundedInduction

-----------------------------------------------------------------------------
(***************************************************************************)
(* Induction and recursion.                                                *)
(***************************************************************************)
(* Every set of natural numbers but the empty one has a least element. *)
LEMMA Least ==
  ASSUME NEW T, T \subseteq Nat, T # {}
  PROVE  \E x \in T : \A y \in T : ~(y < x)
  <1>1. PICK x \in T : \A y \in T : ~(<<y, x>> \in OpToRel(<, Nat))
    BY NatLessThanWellFounded, WFMin
  <1>2. \A y \in T : ~(y < x)
    <2>1. ASSUME NEW y \in T, y < x PROVE <<y, x>> \in OpToRel(<, Nat)
      BY <2>1 DEF OpToRel
    <2>2. QED
      BY <1>1, <2>1
  <1>3. QED
    BY <1>2

(* Induction, over a set. *)
LEMMA Induct ==
  ASSUME NEW S, 0 \in S, \A n \in Nat : n \in S => n + 1 \in S
  PROVE  Nat \subseteq S
  <1> SUFFICES ASSUME Nat \ S # {} PROVE FALSE
    OBVIOUS
  <1>1. PICK x \in Nat \ S : \A y \in Nat \ S : ~(y < x)
    BY Least
  <1>2. x - 1 \in Nat /\ x - 1 < x /\ x = (x - 1) + 1
    BY <1>1
  <1>3. QED
    BY <1>1, <1>2

(* A table filled row by row, each row from the one before. *)
IsTable(T, base, step, n, f) ==
  /\ f \in [0..n -> T]
  /\ f[0] = base
  /\ \A i \in 1..n : f[i] = step[i][f[i - 1]]

LEMMA Recursion ==
  ASSUME NEW T, NEW base \in T, NEW step \in [Nat -> [T -> T]], NEW n \in Nat
  PROVE  \E f : IsTable(T, base, step, n, f)
  <1> DEFINE S == {m \in Nat : \E f : IsTable(T, base, step, m, f)}
  <1>1. 0 \in S
    <2>1. IsTable(T, base, step, 0, [i \in 0..0 |-> base])
      BY DEF IsTable
    <2>2. QED
      BY <2>1
  <1>2. ASSUME NEW m \in Nat, m \in S
        PROVE  m + 1 \in S
    <2>1. PICK f : IsTable(T, base, step, m, f)
      BY <1>2
    <2> DEFINE g == [i \in 0..(m + 1) |-> IF i = m + 1 THEN step[m + 1][f[m]] ELSE f[i]]
    <2>2. g \in [0..(m + 1) -> T] /\ g[0] = base
      BY <2>1 DEF IsTable
    <2>3. \A i \in 1..(m + 1) : g[i] = step[i][g[i - 1]]
      BY <2>1 DEF IsTable
    <2>4. IsTable(T, base, step, m + 1, g)
      <3> HIDE DEF g
      <3>1. QED
        BY <2>2, <2>3 DEF IsTable
    <2>5. QED
      BY <2>4
  <1>3. Nat \subseteq S
    <2> HIDE DEF S
    <2>1. QED
      BY <1>1, <1>2, Induct
  <1>4. QED
    BY <1>3

-----------------------------------------------------------------------------
(***************************************************************************)
(* Sequences and numbers.                                                  *)
(***************************************************************************)
LEMMA Appended ==
  ASSUME NEW T, NEW s \in Seq(T), NEW e \in T
  PROVE  /\ Append(s, e) \in Seq(T)
         /\ Len(s) \in Nat /\ Len(Append(s, e)) = Len(s) + 1
         /\ \A i \in 1..Len(s) : Append(s, e)[i] = s[i]
         /\ Append(s, e)[Len(s) + 1] = e
  OBVIOUS

LEMMA Removed ==
  ASSUME NEW T, NEW s \in Seq(T), NEW n \in 1..Len(s)
  PROVE  /\ RemoveAt(s, n) \in Seq(T)
         /\ Len(s) \in Nat /\ Len(RemoveAt(s, n)) = Len(s) - 1
         /\ \A j \in 1..(Len(s) - 1) : RemoveAt(s, n)[j] = IF j < n THEN s[j] ELSE s[j + 1]
  <1> DEFINE a == SubSeq(s, 1, n - 1)  b == SubSeq(s, n + 1, Len(s))
  <1>1. /\ Len(s) \in Nat /\ n \in Nat
        /\ a \in Seq(T) /\ Len(a) = n - 1
        /\ b \in Seq(T) /\ Len(b) = Len(s) - n
    OBVIOUS
  <1>2. \A j \in 1..(n - 1) : a[j] = s[j]
    BY <1>1
  <1>3. \A j \in 1..(Len(s) - n) : b[j] = s[j + n]
    BY <1>1
  <1>4. RemoveAt(s, n) = a \o b
    BY DEF RemoveAt
  <1> HIDE DEF a, b
  <1>5. a \o b \in Seq(T) /\ Len(a \o b) = Len(s) - 1
    BY <1>1, SMTT(30)
  <1>6. ASSUME NEW j \in 1..(Len(s) - 1)
        PROVE  (a \o b)[j] = IF j < n THEN s[j] ELSE s[j + 1]
    <2>1. CASE j < n
      <3>1. j \in 1..(n - 1) /\ j \in 1..Len(a)
        BY <1>1, <2>1
      <3>2. (a \o b)[j] = a[j]
        BY <1>1, <3>1
      <3>3. QED
        BY <1>2, <2>1, <3>1, <3>2
    <2>2. CASE j >= n
      <3>1. (a \o b)[j] = b[j - (n - 1)] /\ j - (n - 1) \in 1..(Len(s) - n)
        BY <1>1, <2>2
      <3>2. (j - (n - 1)) + n = j + 1
        BY <1>1
      <3>3. QED
        BY <1>1, <1>3, <2>2, <3>1, <3>2, SMTT(30)
    <2>3. QED
      BY <1>1, <2>1, <2>2
  <1>7. QED
    BY <1>1, <1>4, <1>5, <1>6

(* A bounded set of numbers has a greatest element, and Max gives it. *)
LEMMA MaxOf ==
  ASSUME NEW T, T \subseteq Nat, T # {}, NEW b \in Nat, \A x \in T : x <= b
  PROVE  Max(T) \in T /\ \A x \in T : x <= Max(T)
  <1> DEFINE U == {b - x : x \in T}
  <1>1. U \subseteq Nat /\ U # {}
    <2>1. \A x \in T : b - x \in Nat
      OBVIOUS
    <2>2. QED
      BY <2>1
  <1>2. PICK u \in U : \A v \in U : ~(v < u)
    <2> HIDE DEF U
    <2>1. QED
      BY <1>1, Least
  <1>3. PICK m \in T : u = b - m
    BY <1>2
  <1>4. ASSUME NEW x \in T PROVE m >= x
    <2>1. b - x \in U /\ ~(b - x < b - m)
      BY <1>2, <1>3
    <2>2. QED
      BY <2>1
  <1>5. QED
    <2>1. Max(T) \in T /\ \A y \in T : Max(T) >= y
      BY <1>4 DEF Max
    <2>2. QED
      BY <2>1
-----------------------------------------------------------------------------
(***************************************************************************)
(* The entries with a host name.                                           *)
(***************************************************************************)
(* The table that Named is read from. *)
NamedRows(entries, named) ==
  /\ named[0] = <<>>
  /\ \A i \in 1..Len(entries) :
       named[i] = IF HasName(entries[i]) THEN Append(named[i - 1], entries[i]) ELSE named[i - 1]

LEMMA NamedTable ==
  ASSUME NEW P, NEW entries \in Seq(P)
  PROVE  \E named : NamedRows(entries, named) /\ Named(entries) = named[Len(entries)]
  <1> DEFINE T == Seq(P)
             base == <<>>
             step == [i \in Nat |-> [v \in T |->
                IF i \in 1..Len(entries) /\ HasName(entries[i]) THEN Append(v, entries[i]) ELSE v]]
             Row(named, i) ==
               IF i = 0 THEN <<>>
               ELSE IF HasName(entries[i]) THEN Append(named[i - 1], entries[i]) ELSE named[i - 1]
             Table(named) == named = [i \in 0..Len(entries) |-> Row(named, i)]
  <1>0. Len(entries) \in Nat
    OBVIOUS
  <1>1. base \in T /\ step \in [Nat -> [T -> T]]
    OBVIOUS
  <1>2. PICK f : IsTable(T, base, step, Len(entries), f)
    <2> HIDE DEF step, T, base
    <2>1. QED
      BY <1>0, <1>1, Recursion
  <1>3. f \in [0..Len(entries) -> Seq(P)] /\ f[0] = <<>>
    BY <1>2 DEF IsTable
  <1>4. ASSUME NEW i \in 1..Len(entries)
        PROVE  f[i] = Row(f, i)
    <2>1. f[i - 1] \in Seq(P) /\ i \in Nat /\ i # 0
      BY <1>0, <1>3, SMTT(30)
    <2>2. step[i][f[i - 1]] = Row(f, i)
      BY <2>1
    <2>3. QED
      BY <1>2, <2>2 DEF IsTable
  <1>5. Table(f)
    <2>1. f = [i \in 0..Len(entries) |-> f[i]]
      BY <1>3
    <2>2. \A i \in 0..Len(entries) : i = 0 \/ i \in 1..Len(entries)
      BY <1>0
    <2>3. f[0] = Row(f, 0)
      BY <1>3
    <2>4. \A i \in 0..Len(entries) : f[i] = Row(f, i)
      <3> HIDE DEF Row
      <3>1. QED
        BY <1>4, <2>2, <2>3
    <2> HIDE DEF Row
    <2>5. QED
      BY <2>1, <2>4
  <1> DEFINE named == CHOOSE g : Table(g)
  <1>6. Table(named)
    <2> HIDE DEF Table
    <2>1. QED
      BY <1>5
  <1>7. Named(entries) = named[Len(entries)]
    BY DEF Named
  <1> HIDE DEF named
  <1>8. \A i \in 0..Len(entries) : named[i] = Row(named, i)
    BY <1>6
  <1>9. NamedRows(entries, named)
    <2>1. named[0] = <<>>
      BY <1>0, <1>8
    <2>2. ASSUME NEW i \in 1..Len(entries)
          PROVE  named[i] = Row(named, i) /\ i # 0
      BY <1>0, <1>8
    <2>3. QED
      BY <2>1, <2>2 DEF NamedRows
  <1>10. QED
    BY <1>7, <1>9

(* What the loop has kept after n entries. *)
Kept == [id : Ids \cup {NoId}, at : Endpoints]

KeptOf(entries, n, v) ==
  /\ v \in Seq(Kept)
  /\ \A i \in 1..Len(v) : \E j \in 1..n : v[i] = entries[j]
  /\ \A i, j \in 1..Len(v) : v[i].id = v[j].id /\ v[i].id # NoId => i = j

(* The ids of entries belong to one entry each. *)
Own(entries) ==
  \A i, j \in 1..Len(entries) : entries[i].id = entries[j].id /\ entries[i].id # NoId => i = j

LEMMA OwnIsOwnIds ==
  ASSUME NEW P, NEW entries \in Seq(P)
  PROVE  Own(entries) <=> OwnIds(entries)
  <1>1. DOMAIN entries = 1..Len(entries)
    OBVIOUS
  <1>2. QED
    BY <1>1 DEF Own, OwnIds

LEMMA KeptGrows ==
  ASSUME NEW entries \in Seq(EntrySet), Own(entries), NEW n \in Nat, n + 1 <= Len(entries),
         NEW v, KeptOf(entries, n, v), HasName(entries[n + 1])
  PROVE  KeptOf(entries, n + 1, Append(v, entries[n + 1]))
  <1> DEFINE e == entries[n + 1]  w == Append(v, e)
  <1>0. Len(entries) \in Nat /\ n + 1 \in 1..Len(entries)
    OBVIOUS
  <1>1. e \in Kept
    <2>1. e \in EntrySet /\ e.at.host # Nameless
      BY <1>0 DEF HasName
    <2>2. e.at \in Endpoints
      BY <2>1 DEF EntrySet, Endpoints
    <2>3. QED
      BY <2>1, <2>2 DEF EntrySet, Kept
  <1>2. v \in Seq(Kept)
    BY DEF KeptOf
  <1>3. /\ w \in Seq(Kept) /\ Len(v) \in Nat /\ Len(w) = Len(v) + 1
        /\ \A i \in 1..Len(v) : w[i] = v[i]
        /\ w[Len(v) + 1] = e
    <2> HIDE DEF e
    <2>1. QED
      BY <1>1, <1>2, Appended
  <1>4. \A i \in 1..Len(w) : i \in 1..Len(v) \/ i = Len(v) + 1
    BY <1>3
  <1> HIDE DEF w
  <1>5. ASSUME NEW i \in 1..Len(w)
        PROVE  \E j \in 1..(n + 1) : w[i] = entries[j]
    <2>1. CASE i \in 1..Len(v)
      <3>1. PICK j \in 1..n : v[i] = entries[j]
        BY <2>1 DEF KeptOf
      <3>2. QED
        BY <1>3, <2>1, <3>1
    <2>2. CASE i = Len(v) + 1
      BY <1>3, <2>2
    <2>3. QED
      BY <1>4, <2>1, <2>2
  <1>6. ASSUME NEW i \in 1..Len(v), v[i].id = e.id, v[i].id # NoId
        PROVE  FALSE
    <2>1. PICK j \in 1..n : v[i] = entries[j]
      BY DEF KeptOf
    <2>2. j \in 1..Len(entries) /\ j # n + 1
      BY <1>0
    <2>3. QED
      BY <1>0, <1>6, <2>1, <2>2 DEF Own
  <1>7. ASSUME NEW i \in 1..Len(w), NEW j \in 1..Len(w), w[i].id = w[j].id, w[i].id # NoId
        PROVE  i = j
    <2>1. CASE i \in 1..Len(v) /\ j \in 1..Len(v)
      <3>1. v[i].id = v[j].id /\ v[i].id # NoId
        BY <1>3, <1>7, <2>1
      <3>2. QED
        BY <2>1, <3>1 DEF KeptOf
    <2>2. CASE i \in 1..Len(v) /\ j = Len(v) + 1
      BY <1>3, <1>6, <1>7, <2>2
    <2>3. CASE j \in 1..Len(v) /\ i = Len(v) + 1
      BY <1>3, <1>6, <1>7, <2>3
    <2>4. QED
      BY <1>4, <2>1, <2>2, <2>3
  <1>8. QED
    BY <1>3, <1>5, <1>7 DEF KeptOf, w

LEMMA KeptAtEnd ==
  ASSUME NEW entries \in Seq(EntrySet), Own(entries)
  PROVE  KeptOf(entries, Len(entries), Named(entries))
  <1>1. PICK named : NamedRows(entries, named) /\ Named(entries) = named[Len(entries)]
    BY NamedTable
  <1> DEFINE S == {n \in Nat : n <= Len(entries) => KeptOf(entries, n, named[n])}
  <1>2. 0 \in S
    <2>1. named[0] = <<>>
      BY <1>1 DEF NamedRows
    <2>2. KeptOf(entries, 0, <<>>)
      BY DEF KeptOf
    <2>3. QED
      BY <2>1, <2>2
  <1>3. ASSUME NEW n \in Nat, n \in S
        PROVE  n + 1 \in S
    <2>1. ASSUME n + 1 <= Len(entries)
          PROVE  KeptOf(entries, n + 1, named[n + 1])
      <3>1. n + 1 \in 1..Len(entries) /\ (n + 1) - 1 = n /\ KeptOf(entries, n, named[n])
        BY <1>3, <2>1
      <3>2. CASE HasName(entries[n + 1])
        <4>1. named[n + 1] = Append(named[n], entries[n + 1])
          BY <1>1, <3>1, <3>2 DEF NamedRows
        <4>2. QED
          BY <2>1, <3>1, <3>2, <4>1, KeptGrows
      <3>3. CASE ~HasName(entries[n + 1])
        <4>1. named[n + 1] = named[n]
          BY <1>1, <3>1, <3>3 DEF NamedRows
        <4>2. KeptOf(entries, n + 1, named[n])
          <5>1. \A j \in 1..n : j \in 1..(n + 1)
            OBVIOUS
          <5>2. QED
            BY <3>1, <5>1 DEF KeptOf
        <4>3. QED
          BY <4>1, <4>2
      <3>4. QED
        BY <3>2, <3>3
    <2>2. QED
      BY <2>1
  <1>4. Nat \subseteq S
    <2> HIDE DEF S
    <2>1. QED
      BY <1>2, <1>3, Induct
  <1>5. Len(entries) \in Nat /\ Len(entries) <= Len(entries)
    OBVIOUS
  <1>6. QED
    BY <1>1, <1>4, <1>5

(* If all have a name, it is the whole sequence. *)
LEMMA NamedAll ==
  ASSUME NEW P, NEW entries \in Seq(P), \A i \in 1..Len(entries) : HasName(entries[i])
  PROVE  Named(entries) = entries
  <1>1. PICK named : NamedRows(entries, named) /\ Named(entries) = named[Len(entries)]
    BY NamedTable
  <1> DEFINE S == {n \in Nat : n <= Len(entries) => named[n] = SubSeq(entries, 1, n)}
  <1>2. 0 \in S
    <2>1. SubSeq(entries, 1, 0) = <<>>
      OBVIOUS
    <2>2. QED
      BY <1>1, <2>1 DEF NamedRows
  <1>3. ASSUME NEW n \in Nat, n \in S
        PROVE  n + 1 \in S
    <2>1. ASSUME n + 1 <= Len(entries)
          PROVE  named[n + 1] = SubSeq(entries, 1, n + 1)
      <3>1. n + 1 \in 1..Len(entries) /\ (n + 1) - 1 = n /\ named[n] = SubSeq(entries, 1, n)
        BY <1>3, <2>1
      <3>2. named[n + 1] = Append(named[n], entries[n + 1])
        BY <1>1, <3>1 DEF NamedRows
      <3>3. SubSeq(entries, 1, n + 1) = Append(SubSeq(entries, 1, n), entries[n + 1])
        BY <2>1
      <3>4. QED
        BY <3>1, <3>2, <3>3
    <2>2. QED
      BY <2>1
  <1>4. Nat \subseteq S
    <2> HIDE DEF S
    <2>1. QED
      BY <1>2, <1>3, Induct
  <1>5. Len(entries) \in Nat /\ SubSeq(entries, 1, Len(entries)) = entries
    OBVIOUS
  <1>6. QED
    BY <1>1, <1>4, <1>5
-----------------------------------------------------------------------------
(***************************************************************************)
(* Lists of hosts and files, with no id above n.                           *)
(***************************************************************************)
Saved == [id : Nat \ {NoId}, at : Endpoints, password : {FALSE}]

IsList(list, n) ==
  /\ list \in Seq(Saved)
  /\ \A i \in 1..Len(list) : list[i].id <= n
  /\ \A i, j \in 1..Len(list) : list[i].id = list[j].id => i = j

IsFile(entries, n) ==
  /\ entries \in Seq(EntrySet)
  /\ \A i \in 1..Len(entries) : entries[i].id <= n
  /\ Own(entries)

LEMMA IdsAre ==
  ASSUME NEW T, NEW list \in Seq(T)
  PROVE  /\ \A i \in 1..Len(list) : list[i].id \in IdsOf(list)
         /\ \A id \in IdsOf(list) : \E i \in 1..Len(list) : id = list[i].id
  <1>1. DOMAIN list = 1..Len(list)
    OBVIOUS
  <1>2. QED
    BY <1>1 DEF IdsOf

LEMMA ListGrows ==
  ASSUME NEW n \in Nat, NEW list, IsList(list, n), NEW endpoint \in Endpoints
  PROVE  /\ IsList(Append(list, Stored(n + 1, endpoint)), n + 1)
         /\ Len(Append(list, Stored(n + 1, endpoint))) = Len(list) + 1 /\ Len(list) \in Nat
         /\ IdsOf(list) \subseteq IdsOf(Append(list, Stored(n + 1, endpoint)))
  <1> DEFINE e == Stored(n + 1, endpoint)  new == Append(list, e)
  <1>1. list \in Seq(Saved) /\ \A i \in 1..Len(list) : list[i] \in Saved /\ list[i].id <= n
    BY DEF IsList
  <1>2. e \in Saved /\ e.id = n + 1
    BY DEF Stored, Saved, NoId
  <1>3. /\ new \in Seq(Saved) /\ Len(list) \in Nat /\ Len(new) = Len(list) + 1
        /\ \A i \in 1..Len(list) : new[i] = list[i]
        /\ new[Len(list) + 1] = e
    <2> HIDE DEF e
    <2>1. QED
      BY <1>1, <1>2, Appended
  <1> HIDE DEF new, e
  <1>4. \A i \in 1..Len(new) : i \in 1..Len(list) \/ i = Len(list) + 1
    BY <1>3
  <1>5. \A i \in 1..Len(list) : new[i].id \in Nat /\ new[i].id <= n
    BY <1>1, <1>3 DEF Saved
  <1>6. \A i \in 1..Len(new) : new[i].id <= n + 1
    BY <1>2, <1>3, <1>4, <1>5
  <1>7. ASSUME NEW i \in 1..Len(new), NEW j \in 1..Len(new), new[i].id = new[j].id
        PROVE  i = j
    <2>1. CASE i \in 1..Len(list) /\ j \in 1..Len(list)
      BY <1>3, <1>7, <2>1 DEF IsList
    <2>2. CASE i \in 1..Len(list) /\ j = Len(list) + 1
      BY <1>2, <1>3, <1>5, <1>7, <2>2
    <2>3. CASE j \in 1..Len(list) /\ i = Len(list) + 1
      BY <1>2, <1>3, <1>5, <1>7, <2>3
    <2>4. QED
      BY <1>4, <2>1, <2>2, <2>3
  <1>8. IsList(new, n + 1)
    BY <1>3, <1>6, <1>7 DEF IsList
  <1>9. ASSUME NEW id \in IdsOf(list) PROVE id \in IdsOf(new)
    <2>1. PICK i \in 1..Len(list) : id = list[i].id
      BY <1>1, IdsAre
    <2>2. i \in 1..Len(new) /\ new[i].id = id
      BY <1>3, <2>1
    <2>3. QED
      BY <1>3, <2>2, IdsAre
  <1>10. QED
    BY <1>3, <1>8, <1>9 DEF new, e

LEMMA ListEdited ==
  ASSUME NEW n \in Nat, NEW list, IsList(list, n), NEW k \in 1..Len(list),
         NEW endpoint \in Endpoints
  PROVE  /\ IsList([list EXCEPT ![k] = Stored(@.id, endpoint)], n)
         /\ IdsOf([list EXCEPT ![k] = Stored(@.id, endpoint)]) = IdsOf(list)
  <1> DEFINE e == Stored(list[k].id, endpoint)
             new == [list EXCEPT ![k] = Stored(@.id, endpoint)]
  <1>1. list \in Seq(Saved) /\ \A i \in 1..Len(list) : list[i] \in Saved /\ list[i].id <= n
    BY DEF IsList
  <1>2. e \in Saved /\ e.id = list[k].id
    BY <1>1 DEF Stored, Saved
  <1>3. /\ new \in Seq(Saved) /\ Len(new) = Len(list)
        /\ \A i \in 1..Len(list) : new[i] = IF i = k THEN e ELSE list[i]
    <2>1. new = [list EXCEPT ![k] = e]
      OBVIOUS
    <2> HIDE DEF e, new
    <2>2. QED
      BY <1>1, <1>2, <2>1
  <1> HIDE DEF new, e
  <1>4. \A i \in 1..Len(list) : new[i].id = list[i].id
    BY <1>2, <1>3
  <1>5. IsList(new, n)
    BY <1>3, <1>4 DEF IsList
  <1>6. \A id : id \in IdsOf(new) <=> id \in IdsOf(list)
    <2>1. ASSUME NEW id \in IdsOf(list) PROVE id \in IdsOf(new)
      <3>1. PICK i \in 1..Len(list) : id = list[i].id
        BY <1>1, IdsAre
      <3>2. QED
        BY <1>3, <1>4, <3>1, IdsAre
    <2>2. ASSUME NEW id \in IdsOf(new) PROVE id \in IdsOf(list)
      <3>1. PICK i \in 1..Len(new) : id = new[i].id
        BY <1>3, IdsAre
      <3>2. QED
        BY <1>1, <1>3, <1>4, <3>1, IdsAre
    <2>3. QED
      BY <2>1, <2>2
  <1>7. IdsOf(new) = IdsOf(list)
    BY <1>6
  <1>8. QED
    BY <1>5, <1>7 DEF new

LEMMA ListShrinks ==
  ASSUME NEW n \in Nat, NEW list, IsList(list, n), NEW k \in 1..Len(list)
  PROVE  /\ IsList(RemoveAt(list, k), n)
         /\ IdsOf(list) \ {list[k].id} \subseteq IdsOf(RemoveAt(list, k))
  <1> DEFINE new == RemoveAt(list, k)
             Was(i) == IF i < k THEN i ELSE i + 1
  <1>1. list \in Seq(Saved) /\ Len(list) \in Nat
    BY DEF IsList
  <1>2. /\ new \in Seq(Saved) /\ Len(new) = Len(list) - 1
        /\ \A i \in 1..(Len(list) - 1) : new[i] = IF i < k THEN list[i] ELSE list[i + 1]
    BY <1>1, Removed
  <1> HIDE DEF new
  <1>3. \A i \in 1..Len(new) : Was(i) \in 1..Len(list) /\ new[i] = list[Was(i)]
    BY <1>1, <1>2
  <1>4. \A i, j \in 1..Len(new) : Was(i) = Was(j) => i = j
    BY <1>1, <1>2
  <1>5. IsList(new, n)
    <2> HIDE DEF Was
    <2>1. QED
      BY <1>2, <1>3, <1>4, SMTT(30) DEF IsList
  <1>6. ASSUME NEW id \in IdsOf(list), id # list[k].id PROVE id \in IdsOf(new)
    <2>1. PICK i \in 1..Len(list) : id = list[i].id
      BY <1>1, IdsAre
    <2>2. \E j \in 1..Len(new) : new[j] = list[i]
      <3>1. CASE i < k
        BY <1>1, <1>2, <3>1
      <3>2. CASE i > k
        <4>1. i - 1 \in 1..(Len(list) - 1) /\ ~(i - 1 < k) /\ (i - 1) + 1 = i
          BY <1>1, <3>2
        <4>2. QED
          BY <1>2, <4>1
      <3>3. QED
        BY <1>6, <2>1, <3>1, <3>2
    <2>3. QED
      BY <1>2, <2>1, <2>2, IdsAre
  <1>7. QED
    BY <1>5, <1>6 DEF new
(* What save() writes. *)
LEMMA WrittenIsFile ==
  ASSUME NEW n \in Nat, n <= MaxIds, IsList(profiles, n)
  PROVE  /\ IsFile(Written.entries, n)
         /\ Named(Written.entries) = Written.entries
         /\ IdsOf(Written.entries) = IdsOf(profiles)
  <1> DEFINE entries == [i \in DOMAIN profiles |-> Entry(profiles[i])]
  <1>1. /\ profiles \in Seq(Saved) /\ DOMAIN profiles = 1..Len(profiles) /\ Len(profiles) \in Nat
        /\ \A i \in 1..Len(profiles) : profiles[i] \in Saved /\ profiles[i].id <= n
    BY DEF IsList
  <1>2. ASSUME NEW i \in 1..Len(profiles)
        PROVE  /\ Entry(profiles[i]) \in EntrySet /\ Entry(profiles[i]).id = profiles[i].id
               /\ HasName(Entry(profiles[i])) /\ profiles[i].id # NoId
    <2>0. /\ profiles[i].id \in Nat \ {NoId} /\ profiles[i].at \in Endpoints
          /\ profiles[i].id <= n /\ MaxIds \in Nat
      BY <1>1, HostStoreAssumption DEF Saved
    <2>1. profiles[i].id \in Ids /\ profiles[i].id # NoId /\ profiles[i].at \in Endpoints
      BY <2>0 DEF Ids, NoId
    <2>2. profiles[i].at \in [host : Hosts \cup {Nameless}, user : Users]
      BY <2>1 DEF Endpoints
    <2>3. profiles[i].at.host # Nameless
      BY <2>1, HostStoreAssumption DEF Endpoints
    <2>4. QED
      BY <2>1, <2>2, <2>3 DEF Entry, EntrySet, HasName
  <1>3. /\ entries \in Seq(EntrySet) /\ Len(entries) = Len(profiles)
        /\ \A i \in 1..Len(profiles) : entries[i] = Entry(profiles[i])
    <2>1. entries = [i \in 1..Len(profiles) |-> Entry(profiles[i])]
      BY <1>1
    <2>2. \A i \in 1..Len(profiles) : Entry(profiles[i]) \in EntrySet
      BY <1>2
    <2> HIDE DEF entries
    <2>3. QED
      BY <1>1, <2>1, <2>2
  <1>4. Written.entries = entries
    BY DEF Written
  <1> HIDE DEF entries
  <1>5. \A i \in 1..Len(entries) : entries[i].id = profiles[i].id /\ HasName(entries[i])
    BY <1>2, <1>3
  <1>6. IsFile(entries, n)
    <2>1. \A i, j \in 1..Len(entries) : entries[i].id = entries[j].id => i = j
      BY <1>3, <1>5 DEF IsList
    <2>2. QED
      BY <1>1, <1>3, <1>5, <2>1 DEF IsFile, Own
  <1>7. Named(entries) = entries
    BY <1>3, <1>5, NamedAll
  <1>8. \A id : id \in IdsOf(entries) <=> id \in IdsOf(profiles)
    <2>1. ASSUME NEW id \in IdsOf(profiles) PROVE id \in IdsOf(entries)
      <3>1. PICK i \in 1..Len(profiles) : id = profiles[i].id
        BY <1>1, IdsAre
      <3>2. QED
        BY <1>3, <1>5, <3>1, IdsAre
    <2>2. ASSUME NEW id \in IdsOf(entries) PROVE id \in IdsOf(profiles)
      <3>1. PICK i \in 1..Len(entries) : id = entries[i].id
        BY <1>3, IdsAre
      <3>2. QED
        BY <1>1, <1>3, <1>5, <3>1, IdsAre
    <2>3. QED
      BY <2>1, <2>2
  <1>9. IdsOf(entries) = IdsOf(profiles)
    BY <1>8
  <1>10. QED
    BY <1>4, <1>6, <1>7, <1>9

(* What load() makes of a file: the entries without an id get ids above all
   others. *)
LEMMA LoadedIsList ==
  ASSUME NEW entries, IsFile(entries, issued), issued \in Nat
  PROVE  /\ IsList(Loaded(entries), Max({issued} \cup IdsOf(Loaded(entries))))
         /\ Max({issued} \cup IdsOf(Loaded(entries))) \in Nat
         /\ issued <= Max({issued} \cup IdsOf(Loaded(entries)))
         /\ IdsOf(Named(entries)) \ {NoId} \subseteq IdsOf(Loaded(entries))
  <1> DEFINE named == Named(entries)
             list == Loaded(entries)
             New(i) == [id |-> IF named[i].id = NoId THEN issued + i ELSE named[i].id,
                        at |-> named[i].at, password |-> FALSE]
             ids == {issued} \cup IdsOf(list)
  <1>1. /\ entries \in Seq(EntrySet) /\ Own(entries)
        /\ \A j \in 1..Len(entries) : entries[j].id <= issued
    BY DEF IsFile
  <1>2. KeptOf(entries, Len(entries), named)
    <2> HIDE DEF named
    <2>1. QED
      BY <1>1, KeptAtEnd DEF named
  <1>3. list = [i \in DOMAIN named |-> New(i)]
    BY DEF Loaded
  <1> HIDE DEF named, list
  <1>4. /\ named \in Seq(Kept) /\ DOMAIN named = 1..Len(named) /\ Len(named) \in Nat
        /\ \A i \in 1..Len(named) : named[i] \in Kept
    BY <1>2 DEF KeptOf
  <1>5. ASSUME NEW i \in 1..Len(named)
        PROVE  named[i].id \in Nat /\ named[i].id <= issued
    <2>1. PICK j \in 1..Len(entries) : named[i] = entries[j]
      BY <1>2 DEF KeptOf
    <2>2. named[i].id \in Ids \cup {NoId}
      BY <1>4 DEF Kept
    <2>3. QED
      BY <1>1, <2>1, <2>2 DEF Ids, NoId
  <1>6. ASSUME NEW i \in 1..Len(named)
        PROVE  /\ New(i) \in Saved
               /\ New(i).id = IF named[i].id = NoId THEN issued + i ELSE named[i].id
               /\ New(i).id \in Nat /\ New(i).id <= issued + Len(named)
    <2>1. named[i].at \in Endpoints
      BY <1>4 DEF Kept
    <2> DEFINE id == IF named[i].id = NoId THEN issued + i ELSE named[i].id
    <2>2. id \in Nat \ {NoId} /\ id <= issued + Len(named)
      BY <1>4, <1>5 DEF NoId
    <2> HIDE DEF id
    <2>3. New(i) = [id |-> id, at |-> named[i].at, password |-> FALSE]
      BY DEF id
    <2>4. New(i) \in Saved /\ New(i).id = id
      BY <2>1, <2>2, <2>3 DEF Saved
    <2>5. QED
      BY <2>2, <2>4 DEF id
  <1>7. /\ list \in Seq(Saved) /\ Len(list) = Len(named)
        /\ \A i \in 1..Len(named) : list[i] = New(i)
    <2>1. list = [i \in 1..Len(named) |-> New(i)]
      BY <1>3, <1>4
    <2> HIDE DEF New
    <2>2. \A i \in 1..Len(named) : New(i) \in Saved
      BY <1>6
    <2>3. QED
      BY <1>4, <2>1, <2>2
  <1> HIDE DEF New
  <1>8. /\ ids \subseteq Nat /\ ids # {}
        /\ \A id \in ids : id <= issued + Len(named)
    <2>1. ASSUME NEW id \in IdsOf(list)
          PROVE  id \in Nat /\ id <= issued + Len(named)
      <3>1. PICK i \in 1..Len(list) : id = list[i].id
        BY <1>7, IdsAre
      <3>2. QED
        BY <1>6, <1>7, <3>1
    <2>2. QED
      BY <1>4, <2>1
  <1>9. Max(ids) \in ids /\ \A id \in ids : id <= Max(ids)
    <2> HIDE DEF ids
    <2>1. issued + Len(named) \in Nat
      BY <1>4
    <2> DEFINE b == issued + Len(named)
    <2>2. b \in Nat /\ \A id \in ids : id <= b
      BY <1>8, <2>1
    <2> HIDE DEF b
    <2>3. QED
      BY <1>8, <2>2, MaxOf
  <1>10. Max(ids) \in Nat /\ issued <= Max(ids)
    BY <1>8, <1>9
  <1>11. \A i \in 1..Len(list) : list[i].id <= Max(ids)
    BY <1>7, <1>9, IdsAre
  <1>12. ASSUME NEW i \in 1..Len(list), NEW j \in 1..Len(list), list[i].id = list[j].id
         PROVE  i = j
    <2>1. /\ i \in 1..Len(named) /\ j \in 1..Len(named)
          /\ list[i].id = IF named[i].id = NoId THEN issued + i ELSE named[i].id
          /\ list[j].id = IF named[j].id = NoId THEN issued + j ELSE named[j].id
      BY <1>6, <1>7
    <2>2. /\ named[i].id \in Nat /\ named[i].id <= issued
          /\ named[j].id \in Nat /\ named[j].id <= issued
      BY <1>5, <2>1
    <2>3. i \in Nat /\ j \in Nat /\ i # 0 /\ j # 0
      BY <2>1
    <2>4. CASE named[i].id = NoId /\ named[j].id = NoId
      <3>1. issued + i = issued + j
        BY <1>12, <2>1, <2>4
      <3>2. QED
        BY <2>3, <3>1
    <2>5. CASE named[i].id # NoId /\ named[j].id # NoId
      BY <1>2, <1>12, <2>1, <2>5 DEF KeptOf
    <2>6. CASE named[i].id = NoId /\ named[j].id # NoId
      <3>1. issued + i = named[j].id
        BY <1>12, <2>1, <2>6
      <3>2. QED
        BY <2>2, <2>3, <3>1
    <2>7. CASE named[i].id # NoId /\ named[j].id = NoId
      <3>1. issued + j = named[i].id
        BY <1>12, <2>1, <2>7
      <3>2. QED
        BY <2>2, <2>3, <3>1
    <2>8. QED
      BY <2>4, <2>5, <2>6, <2>7
  <1>13. IsList(list, Max(ids))
    BY <1>7, <1>11, <1>12 DEF IsList
  <1>14. ASSUME NEW id \in IdsOf(named), id # NoId PROVE id \in IdsOf(list)
    <2>1. PICK i \in 1..Len(named) : id = named[i].id
      BY <1>4, IdsAre
    <2>2. i \in 1..Len(list) /\ list[i].id = id
      BY <1>6, <1>7, <1>14, <2>1
    <2>3. QED
      BY <1>7, <2>2, IdsAre
  <1>15. QED
    BY <1>10, <1>13, <1>14 DEF named, list
-----------------------------------------------------------------------------
(***************************************************************************)
(* Import, line by line.                                                   *)
(***************************************************************************)
Readers ==
  [list : Seq(Saved), current : [host : Hosts \cup {Nameless}, user : Users],
   inHostBlock : BOOLEAN]

(* What has been read keeps the list, and counts the ids it gives. *)
Reads(r) ==
  /\ r \in Readers
  /\ Len(profiles) <= Len(r.list)
  /\ IsList(r.list, issued + (Len(r.list) - Len(profiles)))
  /\ IdsOf(profiles) \subseteq IdsOf(r.list)

LEMMA ReadingIs ==
  ASSUME NEW list \in Seq(Saved), NEW current \in [host : Hosts \cup {Nameless}, user : Users],
         NEW inHostBlock \in BOOLEAN
  PROVE  /\ Reading(list, current, inHostBlock) \in Readers
         /\ Reading(list, current, inHostBlock).list = list
         /\ Reading(list, current, inHostBlock).current = current
         /\ Reading(list, current, inHostBlock).inHostBlock = inHostBlock
  BY DEF Reading, Readers

LEMMA NowhereIs ==
  Nowhere \in [host : Hosts \cup {Nameless}, user : Users]
  BY HostStoreAssumption DEF Nowhere

(* The same list, read with something else. *)
LEMMA SameList ==
  ASSUME NEW r, Reads(r), NEW s \in Readers, s.list = r.list
  PROVE  Reads(s)
  BY DEF Reads

LEMMA FlushReads ==
  ASSUME NEW r, Reads(r), issued \in Nat, profiles \in Seq(Saved)
  PROVE  Reads(Flush(r))
  <1> DEFINE given == issued + Len(r.list) - Len(profiles)
             longer == Append(r.list, Stored(given + 1, r.current))
  <1>1. /\ r \in Readers /\ r.list \in Seq(Saved) /\ r.inHostBlock \in BOOLEAN
        /\ r.current \in [host : Hosts \cup {Nameless}, user : Users]
    BY DEF Reads, Readers
  <1>2. /\ Len(profiles) \in Nat /\ Len(r.list) \in Nat /\ Len(profiles) <= Len(r.list)
        /\ IsList(r.list, issued + (Len(r.list) - Len(profiles)))
    BY <1>1 DEF Reads
  <1>3. given \in Nat /\ given = issued + (Len(r.list) - Len(profiles))
    BY <1>2
  <1>4. CASE ~r.inHostBlock \/ r.current.host = Nameless
    BY <1>4 DEF Flush
  <1>5. CASE ~(~r.inHostBlock \/ r.current.host = Nameless) /\ r.current \in EndpointsOf(r.list)
    <2> DEFINE s == Reading(r.list, Nowhere, r.inHostBlock)
    <2>1. s \in Readers /\ s.list = r.list
      BY <1>1, NowhereIs, ReadingIs
    <2>2. Flush(r) = s
      BY <1>5 DEF Flush
    <2> HIDE DEF s
    <2>3. QED
      BY <2>1, <2>2, SameList
  <1>6. CASE ~(~r.inHostBlock \/ r.current.host = Nameless) /\ r.current \notin EndpointsOf(r.list)
    <2> DEFINE s == Reading(longer, Nowhere, r.inHostBlock)
    <2>1. r.current \in Endpoints
      BY <1>1, <1>6 DEF Endpoints
    <2>2. Flush(r) = s
      BY <1>6 DEF Flush
    <2>3. IsList(r.list, given)
      BY <1>2, <1>3
    <2> HIDE DEF given
    <2>4. /\ IsList(longer, given + 1) /\ Len(longer) = Len(r.list) + 1
          /\ IdsOf(r.list) \subseteq IdsOf(longer)
      BY <1>3, <2>1, <2>3, ListGrows
    <2> HIDE DEF longer
    <2>5. longer \in Seq(Saved)
      BY <2>4 DEF IsList
    <2>6. s \in Readers /\ s.list = longer
      BY <1>1, <2>5, NowhereIs, ReadingIs
    <2>7. Len(profiles) <= Len(longer)
      BY <1>2, <2>4
    <2>8. given + 1 = issued + (Len(longer) - Len(profiles))
      BY <1>2, <1>3, <2>4
    <2> HIDE DEF s
    <2>9. QED
      BY <2>2, <2>4, <2>6, <2>7, <2>8 DEF Reads
  <1>7. QED
    BY <1>4, <1>5, <1>6

LEMMA LineReads ==
  ASSUME NEW r, Reads(r), NEW line \in Directives, issued \in Nat, profiles \in Seq(Saved)
  PROVE  Reads(ReadLine(r, line))
  <1>1. Reads(Flush(r))
    BY FlushReads
  <1> DEFINE f == Flush(r)
  <1>2. /\ f \in Readers /\ f.list \in Seq(Saved) /\ f.inHostBlock \in BOOLEAN
        /\ f.current \in [host : Hosts \cup {Nameless}, user : Users]
    BY <1>1 DEF Reads, Readers
  <1>3. /\ r \in Readers /\ r.list \in Seq(Saved) /\ r.inHostBlock \in BOOLEAN
        /\ r.current \in [host : Hosts \cup {Nameless}, user : Users]
    BY DEF Reads, Readers
  <1>4. CASE line.key = "host"
    <2> DEFINE c == [host |-> line.value, user |-> Me]  s == Reading(f.list, c, TRUE)
    <2>1. line.value \in Hosts
      BY <1>4 DEF Directives
    <2>2. c \in [host : Hosts \cup {Nameless}, user : Users]
      BY <2>1, HostStoreAssumption
    <2>3. ReadLine(r, line) = s
      BY <1>4 DEF ReadLine
    <2> HIDE DEF c, f
    <2>4. s \in Readers /\ s.list = f.list
      BY <1>2, <2>2, ReadingIs
    <2> HIDE DEF s
    <2>5. Reads(f)
      BY <1>1 DEF f
    <2>6. QED
      BY <2>3, <2>4, <2>5, SameList
  <1>5. CASE line.key = "pattern"
    <2> DEFINE s == Reading(f.list, f.current, FALSE)
    <2>1. ReadLine(r, line) = s
      BY <1>5 DEF ReadLine
    <2>2. Reads(f)
      BY <1>1
    <2> HIDE DEF f
    <2>3. s \in Readers /\ s.list = f.list
      BY <1>2, ReadingIs
    <2> HIDE DEF s
    <2>4. QED
      BY <2>1, <2>2, <2>3, SameList
  <1>6. CASE line.key = "user" /\ r.inHostBlock
    <2> DEFINE s == [r EXCEPT !.current = [@ EXCEPT !.user = line.value]]
    <2>1. line.value \in Users
      BY <1>6 DEF Directives
    <2>2. [r.current EXCEPT !.user = line.value] \in [host : Hosts \cup {Nameless}, user : Users]
      BY <1>3, <2>1
    <2>3. s \in Readers /\ s.list = r.list
      BY <1>3, <2>2 DEF Readers
    <2>4. ReadLine(r, line) = s
      BY <1>6 DEF ReadLine
    <2> HIDE DEF s
    <2>5. QED
      BY <2>3, <2>4, SameList
  <1>7. CASE line.key = "hostname" /\ r.inHostBlock
    <2> DEFINE s == [r EXCEPT !.current = [@ EXCEPT !.host = line.value]]
    <2>1. line.value \in Hosts
      BY <1>7 DEF Directives
    <2>2. [r.current EXCEPT !.host = line.value] \in [host : Hosts \cup {Nameless}, user : Users]
      BY <1>3, <2>1
    <2>3. s \in Readers /\ s.list = r.list
      BY <1>3, <2>2 DEF Readers
    <2>4. ReadLine(r, line) = s
      BY <1>7 DEF ReadLine
    <2> HIDE DEF s
    <2>5. QED
      BY <2>3, <2>4, SameList
  <1>8. CASE /\ line.key # "host" /\ line.key # "pattern"
             /\ ~(line.key \in {"hostname", "user"} /\ r.inHostBlock)
    BY <1>8 DEF ReadLine
  <1>9. QED
    BY <1>4, <1>5, <1>6, <1>7, <1>8

(* What has been read after each line. *)
ReadRows(config, read) ==
  /\ read[0] = Reading(profiles, Nowhere, FALSE)
  /\ \A n \in 1..Len(config) : read[n] = ReadLine(read[n - 1], config[n])
  /\ \A n \in 0..Len(config) : Reads(read[n])

LEMMA ReadTable ==
  ASSUME NEW config \in Seq(Directives), issued \in Nat, IsList(profiles, issued)
  PROVE  \E read : ReadRows(config, read) /\ Imported(config) = Flush(read[Len(config)]).list
  <1> DEFINE T == {r \in Readers : Reads(r)}
             base == Reading(profiles, Nowhere, FALSE)
             step == [n \in Nat |-> [r \in T |->
                IF n \in 1..Len(config) THEN ReadLine(r, config[n]) ELSE r]]
             Row(read, n) ==
               IF n = 0 THEN Reading(profiles, Nowhere, FALSE) ELSE ReadLine(read[n - 1], config[n])
             Table(read) == read = [n \in 0..Len(config) |-> Row(read, n)]
  <1>0. Len(config) \in Nat /\ profiles \in Seq(Saved) /\ Len(profiles) \in Nat
    BY DEF IsList
  <1>1. base \in T
    <2>1. base \in Readers /\ base.list = profiles
      BY <1>0, NowhereIs, ReadingIs
    <2> HIDE DEF base
    <2>2. issued + (Len(base.list) - Len(profiles)) = issued
      BY <1>0, <2>1
    <2>3. Reads(base)
      BY <1>0, <2>1, <2>2 DEF Reads
    <2>4. QED
      BY <2>1, <2>3
  <1>2. \A n \in 1..Len(config) : \A r \in T : ReadLine(r, config[n]) \in T
    <2>1. ASSUME NEW n \in 1..Len(config), NEW r \in T
          PROVE  ReadLine(r, config[n]) \in T
      <3>1. config[n] \in Directives /\ Reads(r)
        OBVIOUS
      <3>2. Reads(ReadLine(r, config[n]))
        BY <1>0, <3>1, LineReads
      <3>3. QED
        BY <3>2 DEF Reads
    <2>2. QED
      BY <2>1
  <1>3. step \in [Nat -> [T -> T]]
    <2> HIDE DEF T
    <2>1. QED
      BY <1>2
  <1>4. PICK f : IsTable(T, base, step, Len(config), f)
    <2> HIDE DEF step, T, base
    <2>1. QED
      BY <1>0, <1>1, <1>3, Recursion
  <1>5. f \in [0..Len(config) -> T] /\ f[0] = base
    <2> HIDE DEF T, step, base
    <2>1. QED
      BY <1>4 DEF IsTable
  <1>6. ASSUME NEW n \in 1..Len(config)
        PROVE  f[n] = Row(f, n)
    <2> HIDE DEF T, base
    <2>1. f[n - 1] \in T /\ n \in Nat /\ n # 0
      BY <1>0, <1>5
    <2>2. step[n][f[n - 1]] = Row(f, n)
      BY <2>1
    <2> HIDE DEF step, Row
    <2>3. QED
      BY <1>4, <2>2 DEF IsTable
  <1>7. Table(f)
    <2>1. f = [n \in 0..Len(config) |-> f[n]]
      <3> HIDE DEF T
      <3>1. QED
        BY <1>5
    <2>2. \A n \in 0..Len(config) : n = 0 \/ n \in 1..Len(config)
      BY <1>0
    <2>3. f[0] = Row(f, 0)
      BY <1>5
    <2>4. \A n \in 0..Len(config) : f[n] = Row(f, n)
      <3> HIDE DEF Row
      <3>1. QED
        BY <1>6, <2>2, <2>3
    <2> HIDE DEF Row
    <2>5. QED
      BY <2>1, <2>4
  <1> DEFINE read == CHOOSE g : Table(g)
  <1>8. Table(read)
    <2> HIDE DEF Table
    <2>1. QED
      BY <1>7
  <1>9. Imported(config) = Flush(read[Len(config)]).list
    BY DEF Imported
  <1> HIDE DEF read
  <1>10. \A n \in 0..Len(config) : read[n] = Row(read, n)
    BY <1>8
  <1>11. read[0] = base
    <2>1. 0 \in 0..Len(config)
      BY <1>0
    <2>2. read[0] = Row(read, 0)
      BY <1>10, <2>1
    <2>3. Row(read, 0) = base
      OBVIOUS
    <2> HIDE DEF Row, base
    <2>4. QED
      BY <2>2, <2>3
  <1>12. ASSUME NEW n \in 1..Len(config)
         PROVE  read[n] = ReadLine(read[n - 1], config[n])
    <2>1. n \in 0..Len(config) /\ n # 0
      BY <1>0
    <2>2. QED
      BY <1>10, <2>1
  <1> DEFINE S == {n \in Nat : n <= Len(config) => read[n] \in T}
  <1>13. 0 \in S
    <2> HIDE DEF T, base
    <2>1. QED
      BY <1>1, <1>11
  <1>14. ASSUME NEW n \in Nat, n \in S
         PROVE  n + 1 \in S
    <2> HIDE DEF T
    <2>1. ASSUME n + 1 <= Len(config)
          PROVE  read[n + 1] \in T
      <3>1. n + 1 \in 1..Len(config) /\ (n + 1) - 1 = n /\ read[n] \in T
        BY <1>0, <1>14, <2>1
      <3>2. read[n + 1] = ReadLine(read[n], config[n + 1])
        BY <1>12, <3>1
      <3>3. QED
        BY <1>2, <3>1, <3>2
    <2>2. QED
      BY <2>1
  <1>15. Nat \subseteq S
    <2> HIDE DEF S
    <2>1. QED
      BY <1>13, <1>14, Induct
  <1>16. \A n \in 0..Len(config) : Reads(read[n])
    BY <1>0, <1>15
  <1>17. ReadRows(config, read)
    BY <1>11, <1>12, <1>16 DEF ReadRows
  <1>18. QED
    BY <1>9, <1>17

LEMMA ImportedIsList ==
  ASSUME NEW config \in Seq(Directives), issued \in Nat, IsList(profiles, issued)
  PROVE  /\ Len(Imported(config)) \in Nat /\ Len(profiles) \in Nat
         /\ Len(profiles) <= Len(Imported(config))
         /\ IsList(Imported(config), issued + (Len(Imported(config)) - Len(profiles)))
         /\ IdsOf(profiles) \subseteq IdsOf(Imported(config))
  <1>1. PICK read : ReadRows(config, read) /\ Imported(config) = Flush(read[Len(config)]).list
    BY ReadTable
  <1>2. profiles \in Seq(Saved) /\ Len(config) \in 0..Len(config)
    BY DEF IsList
  <1>3. Reads(read[Len(config)])
    BY <1>1, <1>2 DEF ReadRows
  <1>4. Reads(Flush(read[Len(config)]))
    BY <1>2, <1>3, FlushReads
  <1> DEFINE r == Flush(read[Len(config)])
  <1>5. r.list = Imported(config) /\ Reads(r)
    BY <1>1, <1>4
  <1> HIDE DEF r
  <1>6. r.list \in Seq(Saved)
    BY <1>5 DEF Reads, Readers
  <1>7. Len(r.list) \in Nat /\ Len(profiles) \in Nat
    BY <1>2, <1>6
  <1>8. QED
    BY <1>5, <1>7 DEF Reads
-----------------------------------------------------------------------------
(***************************************************************************)
(* The inductive invariant.                                                *)
(***************************************************************************)
(* What the list, the file and the keychain are made of, and no id above the
   last one given. *)
Types ==
  /\ phase \in {"off", "ready", "saving"}
  /\ issued \in 0..MaxIds
  /\ IsList(profiles, issued)
  /\ file \in [state : {"absent", "garbled", "good"}, entries : Seq(EntrySet)]
  /\ IsFile(file.entries, issued)
  /\ keychain \subseteq 1..issued
  /\ safe \subseteq 1..issued
  /\ blind \in BOOLEAN
  /\ lost \in BOOLEAN

(* A file that is not there or does not parse has no entries. *)
Content == file.state # "good" => file.entries = <<>>

(* The hosts that have to survive are in the file, with a name, and in the list
   while the program runs. *)
Survive ==
  ~blind => /\ safe \subseteq IdsOf(Named(file.entries))
            /\ phase # "off" => safe \subseteq IdsOf(profiles)

(* The secrets belong to hosts of the list while the program runs, and to hosts
   of the file when nothing is waiting to be saved. *)
Secrets ==
  ~lost => /\ phase # "off" => keychain \subseteq IdsOf(profiles)
           /\ phase # "saving" => keychain \subseteq IdsOf(Named(file.entries))

Inv == Types /\ Content /\ Survive /\ Secrets

LEMMA NoEntries ==
  /\ Named(<<>>) = <<>> /\ IdsOf(<<>>) = {}
  /\ \A n \in Nat : IsList(<<>>, n)
  <1> DEFINE e == <<>>
  <1>1. /\ e \in Seq(Saved) /\ Len(e) = 0 /\ DOMAIN e = {}
        /\ \A i \in 1..Len(e) : HasName(e[i])
    OBVIOUS
  <1> HIDE DEF e
  <1>2. Named(e) = e
    BY <1>1, NamedAll
  <1>3. IdsOf(e) = {}
    BY <1>1 DEF IdsOf
  <1>4. \A n \in Nat : IsList(e, n)
    BY <1>1 DEF IsList
  <1>5. QED
    BY <1>2, <1>3, <1>4 DEF e

(* The ids of the entries with a name are ids of entries. *)
LEMMA NamedIds ==
  ASSUME NEW entries, NEW n, IsFile(entries, n)
  PROVE  IdsOf(Named(entries)) \subseteq IdsOf(entries)
  <1>1. entries \in Seq(EntrySet) /\ KeptOf(entries, Len(entries), Named(entries))
    BY KeptAtEnd DEF IsFile
  <1> DEFINE named == Named(entries)
  <1>2. named \in Seq(Kept)
    BY <1>1 DEF KeptOf
  <1>3. ASSUME NEW id \in IdsOf(named) PROVE id \in IdsOf(entries)
    <2> HIDE DEF named
    <2>1. PICK i \in 1..Len(named) : id = named[i].id
      BY <1>2, IdsAre
    <2>2. PICK j \in 1..Len(entries) : named[i] = entries[j]
      BY <1>1 DEF KeptOf, named
    <2>3. QED
      BY <1>1, <2>1, <2>2, IdsAre
  <1>4. QED
    BY <1>3

LEMMA InitInv == Init => Inv
  <1> SUFFICES ASSUME Init PROVE Inv
    OBVIOUS
  <1> DEFINE ids == {0} \cup IdsOf(file.entries)
  <1>1. /\ file \in [state : {"absent", "garbled", "good"}, entries : Seq(EntrySet)]
        /\ OwnIds(file.entries) /\ (file.state # "good" => file.entries = <<>>)
        /\ MaxIds \in Nat
    BY HostStoreAssumption DEF Init
  <1>2. file.entries \in Seq(EntrySet) /\ Own(file.entries)
    <2>1. file.entries \in Seq(EntrySet)
      BY <1>1
    <2>2. QED
      BY <1>1, <2>1, OwnIsOwnIds
  <1>3. ids \subseteq Nat /\ ids # {} /\ \A x \in ids : x <= MaxIds
    <2>1. ASSUME NEW id \in IdsOf(file.entries) PROVE id \in 0..MaxIds
      <3>1. PICK i \in 1..Len(file.entries) : id = file.entries[i].id
        BY <1>2, IdsAre
      <3>2. file.entries[i].id \in Ids \cup {NoId}
        <4>1. file.entries[i] \in EntrySet
          BY <1>2
        <4>2. QED
          BY <4>1 DEF EntrySet
      <3>3. QED
        BY <1>1, <3>1, <3>2 DEF Ids, NoId
    <2>2. QED
      BY <1>1, <2>1
  <1>4. issued = Max(ids)
    BY DEF Init
  <1> HIDE DEF ids
  <1>5. issued \in ids /\ \A x \in ids : x <= issued
    BY <1>1, <1>3, <1>4, MaxOf
  <1>6. issued \in 0..MaxIds
    BY <1>1, <1>3, <1>5
  <1>7. IsFile(file.entries, issued)
    <2>1. \A i \in 1..Len(file.entries) : file.entries[i].id \in IdsOf(file.entries)
      BY <1>2, IdsAre
    <2>2. \A i \in 1..Len(file.entries) : file.entries[i].id <= issued
      BY <1>5, <2>1 DEF ids
    <2>3. QED
      BY <1>2, <2>2 DEF IsFile
  <1>8. safe \subseteq 1..issued
    <2>1. ASSUME NEW id \in safe PROVE id \in 1..issued
      <3>1. id \in IdsOf(file.entries) /\ id # NoId
        BY <1>7, NamedIds DEF Init
      <3>2. id \in ids
        BY <3>1 DEF ids
      <3>3. QED
        BY <1>3, <1>5, <3>1, <3>2 DEF NoId
    <2>2. QED
      BY <2>1
  <1>9. IsList(profiles, issued)
    BY <1>1, <1>6, NoEntries DEF Init
  <1>10. Types
    BY <1>1, <1>6, <1>7, <1>8, <1>9 DEF Types, Init
  <1>11. Content /\ Survive /\ Secrets
    BY <1>1 DEF Content, Survive, Secrets, Init
  <1>12. QED
    BY <1>10, <1>11 DEF Inv
-----------------------------------------------------------------------------
(***************************************************************************)
(* The actions keep it.                                                    *)
(***************************************************************************)
(* More ids have been given. *)
LEMMA Higher ==
  ASSUME NEW n \in Nat, NEW m \in Nat, n <= m, NEW entries, IsFile(entries, n)
  PROVE  IsFile(entries, m)
  <1>1. entries \in Seq(EntrySet)
    BY DEF IsFile
  <1>2. ASSUME NEW i \in 1..Len(entries) PROVE entries[i].id <= m
    <2>1. entries[i] \in EntrySet /\ entries[i].id <= n
      BY <1>1 DEF IsFile
    <2>2. entries[i].id \in Nat
      BY <2>1 DEF EntrySet, Ids, NoId
    <2>3. QED
      BY <2>1, <2>2
  <1>3. QED
    BY <1>2 DEF IsFile

LEMMA LaunchInv ==
  ASSUME Inv, Launch
  PROVE  Inv'
  <1>1. /\ phase = "off" /\ phase' = "ready"
        /\ file' = file /\ keychain' = keychain /\ safe' = safe
    BY DEF Launch
  <1>2. /\ issued \in 0..MaxIds /\ IsFile(file.entries, issued) /\ MaxIds \in Nat
        /\ file \in [state : {"absent", "garbled", "good"}, entries : Seq(EntrySet)]
        /\ keychain \subseteq 1..issued /\ safe \subseteq 1..issued
        /\ blind \in BOOLEAN /\ lost \in BOOLEAN
    BY HostStoreAssumption DEF Inv, Types
  <1>3. Content'
    BY <1>1 DEF Inv, Content
  <1>4. CASE /\ profiles' = Loaded(file.entries)
             /\ issued' = Max({issued} \cup IdsOf(profiles'))
             /\ issued' <= MaxIds
             /\ UNCHANGED <<blind, lost>>
    <2> DEFINE list == Loaded(file.entries)
               m == Max({issued} \cup IdsOf(Loaded(file.entries)))
    <2>1. profiles' = list /\ issued' = m
      BY <1>4
    <2>2. /\ IsList(list, m) /\ m \in Nat /\ issued <= m
          /\ IdsOf(Named(file.entries)) \ {NoId} \subseteq IdsOf(list)
      <3>1. issued \in Nat
        BY <1>2
      <3> HIDE DEF list, m
      <3>2. QED
        BY <1>2, <3>1, LoadedIsList DEF list, m
    <2> HIDE DEF list, m
    <2>3. m \in 0..MaxIds /\ IsFile(file.entries, m)
      BY <1>2, <1>4, <2>1, <2>2, Higher
    <2>4. keychain \subseteq 1..m /\ safe \subseteq 1..m
      BY <1>2, <2>2
    <2>5. Types'
      BY <1>1, <1>2, <1>4, <2>1, <2>2, <2>3, <2>4 DEF Types
    <2>6. NoId \notin keychain /\ NoId \notin safe
      BY <1>2 DEF NoId
    <2>7. Survive'
      BY <1>1, <1>4, <2>1, <2>2, <2>6 DEF Inv, Survive
    <2>8. Secrets'
      BY <1>1, <1>4, <2>1, <2>2, <2>6 DEF Inv, Secrets
    <2>9. QED
      BY <1>3, <2>5, <2>7, <2>8 DEF Inv
  <1>5. CASE /\ profiles' = <<>>
             /\ blind' = (blind \/ file.state = "good")
             /\ lost' = (lost \/ file.state = "good")
             /\ UNCHANGED issued
    <2>1. IsList(profiles', issued')
      BY <1>2, <1>5, NoEntries
    <2>2. blind' \in BOOLEAN /\ lost' \in BOOLEAN
      BY <1>5
    <2>3. Types'
      BY <1>1, <1>2, <1>5, <2>1, <2>2 DEF Types
    <2>4. file.state # "good" => IdsOf(Named(file.entries)) = {}
      BY NoEntries DEF Inv, Content
    <2>5. Survive'
      BY <1>1, <1>5, <2>4 DEF Inv, Survive
    <2>6. Secrets'
      BY <1>1, <1>5, <2>4 DEF Inv, Secrets
    <2>7. QED
      BY <1>3, <2>3, <2>5, <2>6 DEF Inv
  <1>6. QED
    BY <1>4, <1>5 DEF Launch

LEMMA ExitInv ==
  ASSUME Inv, Exit
  PROVE  Inv'
  <1>1. /\ phase # "off" /\ phase' = "off" /\ profiles' = <<>>
        /\ lost' = (lost \/ phase = "saving")
        /\ UNCHANGED <<file, keychain, issued, safe, blind>>
    BY DEF Exit
  <1>2. issued \in Nat /\ lost' \in BOOLEAN
    BY <1>1 DEF Inv, Types
  <1>3. IsList(profiles', issued')
    BY <1>1, <1>2, NoEntries
  <1>4. Types'
    BY <1>1, <1>2, <1>3 DEF Inv, Types
  <1>5. Content'
    BY <1>1 DEF Inv, Content
  <1>6. Survive'
    BY <1>1 DEF Inv, Survive
  <1>7. Secrets'
    <2>1. ~lost' => ~lost /\ phase # "saving"
      BY <1>1
    <2>2. QED
      BY <1>1, <2>1 DEF Inv, Secrets
  <1>8. QED
    BY <1>4, <1>5, <1>6, <1>7 DEF Inv

LEMMA SaveInv ==
  ASSUME Inv, Save
  PROVE  Inv'
  <1>1. /\ phase = "saving" /\ phase' = "ready"
        /\ profiles' = profiles /\ keychain' = keychain /\ issued' = issued /\ blind' = blind
    BY DEF Save
  <1>2. /\ issued \in Nat /\ issued <= MaxIds /\ IsList(profiles, issued)
        /\ safe \subseteq 1..issued
    BY DEF Inv, Types
  <1>3. CASE file' = Written /\ safe' = safe \cup IdsOf(profiles) /\ UNCHANGED lost
    <2>1. /\ IsFile(Written.entries, issued) /\ Named(Written.entries) = Written.entries
          /\ IdsOf(Written.entries) = IdsOf(profiles)
      BY <1>2, WrittenIsFile
    <2>2. Written.state = "good"
      BY DEF Written
    <2>3. Written \in [state : {"absent", "garbled", "good"}, entries : Seq(EntrySet)]
      <3>1. Written.entries \in Seq(EntrySet)
        BY <2>1 DEF IsFile
      <3>2. QED
        BY <3>1 DEF Written
    <2>4. IdsOf(profiles) \subseteq 1..issued
      <3>1. ASSUME NEW id \in IdsOf(profiles) PROVE id \in 1..issued
        <4>1. profiles \in Seq(Saved)
          BY <1>2 DEF IsList
        <4>2. PICK i \in 1..Len(profiles) : id = profiles[i].id
          BY <4>1, IdsAre
        <4>3. profiles[i] \in Saved /\ profiles[i].id <= issued
          BY <1>2, <4>1 DEF IsList
        <4>4. profiles[i].id \in Nat \ {NoId}
          BY <4>3 DEF Saved
        <4>5. QED
          BY <1>2, <4>2, <4>3, <4>4 DEF NoId
      <3>2. QED
        BY <3>1
    <2> DEFINE w == Written
    <2>5. file' = w
      BY <1>3
    <2>6. /\ IsFile(w.entries, issued) /\ Named(w.entries) = w.entries
          /\ IdsOf(w.entries) = IdsOf(profiles) /\ w.state = "good"
          /\ w \in [state : {"absent", "garbled", "good"}, entries : Seq(EntrySet)]
      BY <2>1, <2>2, <2>3
    <2> HIDE DEF w
    <2>7. safe' \subseteq 1..issued
      BY <1>2, <1>3, <2>4
    <2>8. Types'
      BY <1>1, <1>2, <1>3, <2>5, <2>6, <2>7 DEF Inv, Types
    <2>9. Content'
      BY <2>5, <2>6 DEF Content
    <2>10. Survive'
      BY <1>1, <1>3, <2>5, <2>6 DEF Inv, Survive
    <2>11. Secrets'
      BY <1>1, <1>3, <2>5, <2>6 DEF Inv, Secrets
    <2>12. QED
      BY <2>8, <2>9, <2>10, <2>11 DEF Inv
  <1>4. CASE lost' = TRUE /\ UNCHANGED <<file, safe>>
    <2>1. Types'
      BY <1>1, <1>4 DEF Inv, Types
    <2>2. Content' /\ Survive' /\ Secrets'
      BY <1>1, <1>4 DEF Inv, Content, Survive, Secrets
    <2>3. QED
      BY <2>1, <2>2 DEF Inv
  <1>5. QED
    BY <1>3, <1>4 DEF Save

(* The list changes, with nothing saved yet: no host that is safe and no host
   that keeps its secret may leave it. *)
LEMMA Changed ==
  ASSUME Inv, phase = "ready", phase' = "saving", UNCHANGED <<file, blind>>,
         issued' \in 0..MaxIds, issued <= issued',
         IsList(profiles', issued'),
         keychain' \subseteq 1..issued', safe' \subseteq safe, lost' \in BOOLEAN,
         ~blind => safe' \subseteq IdsOf(profiles'),
         ~lost' => keychain' \subseteq IdsOf(profiles')
  PROVE  Inv'
  <1>1. /\ issued \in Nat /\ issued' \in Nat /\ IsFile(file.entries, issued)
        /\ safe \subseteq 1..issued
    BY DEF Inv, Types
  <1> DEFINE m == issued'
  <1>2. m \in Nat /\ issued <= m
    BY <1>1
  <1>3. IsFile(file.entries, m)
    <2> HIDE DEF m
    <2>1. QED
      BY <1>1, <1>2, Higher
  <1>4. IsFile(file.entries, issued')
    BY <1>3
  <1>5. safe' \subseteq 1..issued'
    BY <1>1
  <1>6. Types'
    BY <1>4, <1>5 DEF Inv, Types
  <1>7. Content'
    BY DEF Inv, Content
  <1>8. Survive'
    BY DEF Inv, Survive
  <1>9. Secrets'
    BY DEF Secrets
  <1>10. QED
    BY <1>6, <1>7, <1>8, <1>9 DEF Inv
LEMMA AddInv ==
  ASSUME Inv, Add
  PROVE  Inv'
  <1>1. /\ phase = "ready" /\ phase' = "saving" /\ issued < MaxIds /\ issued' = issued + 1
        /\ UNCHANGED <<file, safe, blind, lost>>
    BY DEF Add
  <1>2. PICK endpoint \in Entered, password \in BOOLEAN :
          /\ SaveSecrets(issued + 1, password)
          /\ profiles' = Append(profiles, Stored(issued + 1, endpoint))
    BY DEF Add
  <1>3. /\ issued \in Nat /\ issued + 1 \in 0..MaxIds /\ MaxIds \in Nat
        /\ IsList(profiles, issued) /\ keychain \subseteq 1..issued /\ lost \in BOOLEAN
        /\ endpoint \in Endpoints
    BY <1>1, HostStoreAssumption DEF Inv, Types
  <1> DEFINE list == Append(profiles, Stored(issued + 1, endpoint))
  <1>4. /\ IsList(list, issued + 1) /\ IdsOf(profiles) \subseteq IdsOf(list)
        /\ Len(list) = Len(profiles) + 1 /\ Len(profiles) \in Nat
    BY <1>3, ListGrows
  <1>5. issued + 1 \in IdsOf(list)
    <2>1. profiles \in Seq(Saved) /\ Stored(issued + 1, endpoint) \in Saved
          /\ Stored(issued + 1, endpoint).id = issued + 1
      BY <1>3 DEF IsList, Stored, Saved, NoId
    <2> DEFINE e == Stored(issued + 1, endpoint)
    <2>2. profiles \in Seq(Saved) /\ e \in Saved /\ e.id = issued + 1
      BY <2>1
    <2>3. list = Append(profiles, e)
      OBVIOUS
    <2> HIDE DEF e, list
    <2>4. list[Len(profiles) + 1] = e /\ list \in Seq(Saved)
      BY <2>2, <2>3, Appended
    <2>5. Len(profiles) + 1 \in 1..Len(list)
      BY <1>4
    <2>6. QED
      BY <2>2, <2>4, <2>5, IdsAre
  <1> HIDE DEF list
  <1>6. profiles' = list
    BY <1>2 DEF list
  <1>7. keychain' \subseteq keychain \cup {issued + 1}
    BY <1>2 DEF SaveSecrets
  <1>8. keychain' \subseteq 1..issued'
    BY <1>1, <1>3, <1>7
  <1>9. ~blind => safe' \subseteq IdsOf(profiles')
    BY <1>1, <1>4, <1>6 DEF Inv, Survive
  <1>10. ~lost' => keychain' \subseteq IdsOf(profiles')
    BY <1>1, <1>4, <1>5, <1>6, <1>7 DEF Inv, Secrets
  <1>11. IsList(profiles', issued')
    BY <1>1, <1>4, <1>6
  <1>12. issued' \in 0..MaxIds /\ issued <= issued' /\ lost' \in BOOLEAN /\ safe' \subseteq safe
    BY <1>1, <1>3
  <1>13. QED
    BY <1>1, <1>8, <1>9, <1>10, <1>11, <1>12, Changed

LEMMA EditInv ==
  ASSUME Inv, Edit
  PROVE  Inv'
  <1>1. /\ phase = "ready" /\ phase' = "saving"
        /\ UNCHANGED <<file, issued, safe, blind, lost>>
    BY DEF Edit
  <1>2. /\ issued \in Nat /\ issued \in 0..MaxIds /\ IsList(profiles, issued)
        /\ keychain \subseteq 1..issued /\ lost \in BOOLEAN
        /\ profiles \in Seq(Saved) /\ DOMAIN profiles = 1..Len(profiles)
    BY HostStoreAssumption DEF Inv, Types, IsList
  <1>3. PICK k \in 1..Len(profiles), endpoint \in Entered, password \in BOOLEAN :
          /\ SaveSecrets(profiles[k].id, password)
          /\ profiles' = [profiles EXCEPT ![k] = Stored(@.id, endpoint)]
    BY <1>2 DEF Edit
  <1>4. endpoint \in Endpoints
    BY HostStoreAssumption
  <1>5. IsList(profiles', issued) /\ IdsOf(profiles') = IdsOf(profiles)
    BY <1>2, <1>3, <1>4, ListEdited
  <1>6. keychain' \subseteq keychain \cup {profiles[k].id}
    BY <1>3 DEF SaveSecrets
  <1>7. profiles[k].id \in IdsOf(profiles) /\ profiles[k].id \in 1..issued
    <2>1. profiles[k].id \in IdsOf(profiles)
      BY <1>2, IdsAre
    <2>2. profiles[k] \in Saved /\ profiles[k].id <= issued
      BY <1>2 DEF IsList
    <2>3. profiles[k].id \in Nat \ {NoId}
      BY <2>2 DEF Saved
    <2>4. QED
      BY <1>2, <2>1, <2>2, <2>3 DEF NoId
  <1>8. keychain' \subseteq 1..issued'
    BY <1>1, <1>2, <1>6, <1>7
  <1>9. ~blind => safe' \subseteq IdsOf(profiles')
    BY <1>1, <1>5 DEF Inv, Survive
  <1>10. ~lost' => keychain' \subseteq IdsOf(profiles')
    BY <1>1, <1>5, <1>6, <1>7 DEF Inv, Secrets
  <1>11. /\ IsList(profiles', issued') /\ issued' \in 0..MaxIds /\ issued <= issued'
         /\ lost' \in BOOLEAN /\ safe' \subseteq safe
    BY <1>1, <1>2, <1>5
  <1>12. QED
    BY <1>1, <1>8, <1>9, <1>10, <1>11, Changed

LEMMA RemoveHostInv ==
  ASSUME Inv, RemoveHost
  PROVE  Inv'
  <1>1. /\ phase = "ready" /\ phase' = "saving"
        /\ UNCHANGED <<file, issued, blind>>
    BY DEF RemoveHost
  <1>2. /\ issued \in Nat /\ issued \in 0..MaxIds /\ IsList(profiles, issued)
        /\ keychain \subseteq 1..issued /\ lost \in BOOLEAN
        /\ profiles \in Seq(Saved) /\ DOMAIN profiles = 1..Len(profiles)
    BY HostStoreAssumption DEF Inv, Types, IsList
  <1>3. PICK k \in 1..Len(profiles) :
          /\ profiles' = RemoveAt(profiles, k)
          /\ ForgetSecrets(profiles[k].id)
          /\ safe' = safe \ {profiles[k].id}
    BY <1>2 DEF RemoveHost
  <1>4. IsList(profiles', issued) /\ IdsOf(profiles) \ {profiles[k].id} \subseteq IdsOf(profiles')
    BY <1>2, <1>3, ListShrinks
  <1>5. /\ keychain' \subseteq keychain /\ lost' \in BOOLEAN
        /\ ~lost' => ~lost /\ keychain' = keychain \ {profiles[k].id}
    BY <1>2, <1>3 DEF ForgetSecrets
  <1>6. keychain' \subseteq 1..issued'
    BY <1>1, <1>2, <1>5
  <1>7. ~blind => safe' \subseteq IdsOf(profiles')
    BY <1>1, <1>3, <1>4 DEF Inv, Survive
  <1>8. ~lost' => keychain' \subseteq IdsOf(profiles')
    BY <1>1, <1>4, <1>5 DEF Inv, Secrets
  <1>9. /\ IsList(profiles', issued') /\ issued' \in 0..MaxIds /\ issued <= issued'
        /\ safe' \subseteq safe
    BY <1>1, <1>2, <1>3, <1>4
  <1>10. QED
    BY <1>1, <1>5, <1>6, <1>7, <1>8, <1>9, Changed

LEMMA ImportInv ==
  ASSUME Inv, NEW config \in Configs, Import(config)
  PROVE  Inv'
  <1> DEFINE list == Imported(config)
  <1>1. /\ phase = "ready" /\ phase' = "saving" /\ profiles' = list
        /\ issued + Len(list) - Len(profiles) <= MaxIds
        /\ issued' = issued + Len(list) - Len(profiles)
        /\ UNCHANGED <<file, keychain, safe, blind, lost>>
    BY DEF Import
  <1>2. /\ issued \in Nat /\ MaxIds \in Nat /\ IsList(profiles, issued)
        /\ keychain \subseteq 1..issued /\ lost \in BOOLEAN
        /\ config \in Seq(Directives)
    BY HostStoreAssumption DEF Inv, Types
  <1>3. /\ Len(list) \in Nat /\ Len(profiles) \in Nat /\ Len(profiles) <= Len(list)
        /\ IsList(list, issued + (Len(list) - Len(profiles)))
        /\ IdsOf(profiles) \subseteq IdsOf(list)
    BY <1>2, ImportedIsList
  <1> HIDE DEF list
  <1>4. issued' = issued + (Len(list) - Len(profiles))
    BY <1>1, <1>2, <1>3
  <1>5. issued' \in 0..MaxIds /\ issued <= issued'
    BY <1>1, <1>2, <1>3
  <1>6. IsList(profiles', issued')
    BY <1>1, <1>3, <1>4
  <1>7. keychain' \subseteq 1..issued' /\ safe' \subseteq safe /\ lost' \in BOOLEAN
    BY <1>1, <1>2, <1>5
  <1>8. ~blind => safe' \subseteq IdsOf(profiles')
    BY <1>1, <1>3 DEF Inv, Survive
  <1>9. ~lost' => keychain' \subseteq IdsOf(profiles')
    BY <1>1, <1>3 DEF Inv, Secrets
  <1>10. QED
    BY <1>1, <1>5, <1>6, <1>7, <1>8, <1>9, Changed

LEMMA StepInv == Inv /\ [Next]_vars => Inv'
  <1> SUFFICES ASSUME Inv, [Next]_vars PROVE Inv'
    OBVIOUS
  <1>1. CASE Launch
    BY <1>1, LaunchInv
  <1>2. CASE Exit
    BY <1>2, ExitInv
  <1>3. CASE Save
    BY <1>3, SaveInv
  <1>4. CASE Add
    BY <1>4, AddInv
  <1>5. CASE Edit
    BY <1>5, EditInv
  <1>6. CASE RemoveHost
    BY <1>6, RemoveHostInv
  <1>7. CASE \E config \in Configs : Import(config)
    BY <1>7, ImportInv
  <1>8. CASE UNCHANGED vars
    BY <1>8 DEF vars, Inv, Types, Content, Survive, Secrets
  <1>9. QED
    BY <1>1, <1>2, <1>3, <1>4, <1>5, <1>6, <1>7, <1>8 DEF Next

(* What the list, the file and the keychain have in common, whatever the user
   does, wherever the program ends and whatever fails (HostStore.cpp:149-299). *)
THEOREM Invariance == Spec => []Inv
  <1>1. QED
    BY InitInv, StepInv, PTL DEF Spec

(* No two hosts share an id, in the list or in the file, no password stays in the
   list, and nothing is known by an id that was not given (HostStore.cpp:120,
   HostStore.hpp:41). *)
THEOREM TypeCorrect == Spec => []TypeOK
  <1>1. Inv => TypeOK
    <2> SUFFICES ASSUME Inv PROVE TypeOK
      OBVIOUS
    <2>1. /\ issued \in 0..MaxIds /\ issued \in Nat /\ MaxIds \in Nat
          /\ IsList(profiles, issued) /\ IsFile(file.entries, issued)
      BY HostStoreAssumption DEF Inv, Types
    <2>2. /\ profiles \in Seq(Saved) /\ DOMAIN profiles = 1..Len(profiles)
          /\ Len(profiles) \in Nat
          /\ \A i \in 1..Len(profiles) : profiles[i] \in Saved
      BY <2>1 DEF IsList
    <2>3. ASSUME NEW i \in 1..Len(profiles)
          PROVE  profiles[i] \in ProfileSet /\ ~profiles[i].password /\ profiles[i].id <= issued
      <3>1. profiles[i] \in Saved /\ profiles[i].id <= issued
        BY <2>1, <2>2 DEF IsList
      <3>2. profiles[i].id \in Nat \ {NoId}
        BY <3>1 DEF Saved
      <3>3. profiles[i].id \in Ids
        BY <2>1, <3>1, <3>2 DEF Ids, NoId
      <3>4. QED
        BY <3>1, <3>3 DEF Saved, ProfileSet
    <2>4. profiles \in Seq(ProfileSet)
      BY <2>2, <2>3
    <2>5. \A i, j \in DOMAIN profiles : profiles[i].id = profiles[j].id => i = j
      BY <2>1, <2>2 DEF IsList
    <2>6. file.entries \in Seq(EntrySet) /\ OwnIds(file.entries)
      BY <2>1, OwnIsOwnIds DEF IsFile
    <2>7. ASSUME NEW id \in IdsOf(profiles) PROVE id <= issued
      BY <2>2, <2>3, IdsAre
    <2>8. ASSUME NEW id \in IdsOf(file.entries) PROVE id <= issued
      <3>1. PICK i \in 1..Len(file.entries) : id = file.entries[i].id
        BY <2>6, IdsAre
      <3>2. QED
        BY <2>1, <3>1 DEF IsFile
    <2>9. \A id \in keychain \cup safe : id <= issued
      BY <2>1 DEF Inv, Types
    <2>10. \A id \in IdsOf(profiles) \cup IdsOf(file.entries) \cup keychain \cup safe : id <= issued
      BY <2>7, <2>8, <2>9
    <2>11. \A i \in DOMAIN profiles : ~profiles[i].password
      BY <2>2, <2>3
    <2>12. /\ phase \in {"off", "ready", "saving"}
           /\ file.state \in {"absent", "garbled", "good"}
           /\ blind \in BOOLEAN /\ lost \in BOOLEAN
      BY DEF Inv, Types
    <2>13. QED
      BY <2>1, <2>4, <2>5, <2>6, <2>10, <2>11, <2>12 DEF TypeOK
  <1>2. QED
    BY <1>1, Invariance, PTL

(* A host that has been in the file stays in it until the user removes it, unless
   the program went on without having been able to read the file
   (HostStore.cpp:283). *)
THEOREM HostsSurviveCorrect == Spec => []HostsSurvive
  <1>1. Inv => HostsSurvive
    BY NamedIds DEF Inv, Types, Survive, HostsSurvive
  <1>2. QED
    BY <1>1, Invariance, PTL

(* The keychain keeps passwords of listed hosts only, as long as no change was
   lost and the keychain did as it was told (HostSidebar.cpp:221). *)
THEOREM SecretsHaveHostsCorrect == Spec => []SecretsHaveHosts
  <1>1. Inv => SecretsHaveHosts
    BY NamedIds DEF Inv, Types, Secrets, SecretsHaveHosts
  <1>2. QED
    BY <1>1, Invariance, PTL
-----------------------------------------------------------------------------
(***************************************************************************)
(* What importing adds.                                                    *)
(***************************************************************************)
(* The endpoint of the block of line i, as far as line n says. *)
Lines(config, key, i, n) == {j \in (i + 1)..n : config[j].key = key}

Final(config, key, i, n, default) ==
  IF Lines(config, key, i, n) = {} THEN default
  ELSE config[Max(Lines(config, key, i, n))].value

Said(config, i, n) ==
  [host |-> Final(config, "hostname", i, n, config[i].value),
   user |-> Final(config, "user", i, n, Me)]

(* The line ends the block before it. *)
IsEnd(config, j) == config[j].key \in {"host", "pattern"}

(* The block of line i has not ended by line n, and has. *)
Open(config, i, n) ==
  config[i].key = "host" /\ \A j \in (i + 1)..n : ~IsEnd(config, j)

Done(config, n) ==
  {i \in 1..n : config[i].key = "host" /\ \E j \in (i + 1)..n : IsEnd(config, j)}

LEMMA MaxIs ==
  ASSUME NEW T, T \subseteq Nat, NEW m \in T, \A x \in T : x <= m
  PROVE  Max(T) = m
  <1>1. Max(T) \in T /\ \A y \in T : Max(T) >= y
    <2>1. \A y \in T : m >= y
      OBVIOUS
    <2>2. QED
      BY <2>1 DEF Max
  <1>2. m \in Nat /\ Max(T) \in Nat /\ Max(T) <= m /\ Max(T) >= m
    BY <1>1
  <1> DEFINE x == Max(T)
  <1>3. m \in Nat /\ x \in Nat /\ x <= m /\ x >= m
    BY <1>2
  <1> HIDE DEF x
  <1>4. x = m
    BY <1>3
  <1>5. QED
    BY <1>4 DEF x

LEMMA MinIs ==
  ASSUME NEW T, T \subseteq Nat, NEW m \in T, \A x \in T : m <= x
  PROVE  Min(T) = m
  <1>1. Min(T) \in T /\ \A y \in T : Min(T) <= y
    BY DEF Min
  <1> DEFINE x == Min(T)
  <1>2. m \in Nat /\ x \in Nat /\ x <= m /\ m <= x
    BY <1>1
  <1> HIDE DEF x
  <1>3. x = m
    BY <1>2
  <1>4. QED
    BY <1>3 DEF x

(* The last line with a key is the newest one, or the one it was. *)
LEMMA FinalGrows ==
  ASSUME NEW config, NEW key, NEW i \in Nat, NEW n \in Nat, i <= n, NEW default
  PROVE  Final(config, key, i, n + 1, default) =
           IF config[n + 1].key = key THEN config[n + 1].value
           ELSE Final(config, key, i, n, default)
  <1> DEFINE before == Lines(config, key, i, n)
             after == Lines(config, key, i, n + 1)
  <1>1. before \subseteq Nat /\ after \subseteq Nat /\ \A j \in after : j <= n + 1
    BY DEF Lines
  <1>2. \A j \in (i + 1)..(n + 1) : j \in (i + 1)..n \/ j = n + 1
    OBVIOUS
  <1>3. CASE config[n + 1].key = key
    <2>1. n + 1 \in after
      BY <1>3 DEF Lines
    <2> HIDE DEF after
    <2>2. Max(after) = n + 1
      BY <1>1, <2>1, MaxIs
    <2>3. QED
      BY <1>3, <2>1, <2>2 DEF Final, after
  <1>4. CASE config[n + 1].key # key
    <2>1. after = before
      BY <1>2, <1>4 DEF Lines
    <2>2. QED
      BY <1>4, <2>1 DEF Final
  <1>5. QED
    BY <1>3, <1>4

LEMMA SaidGrows ==
  ASSUME NEW config, NEW i \in Nat, NEW n \in Nat, i <= n
  PROVE  Said(config, i, n + 1) =
           [host |-> IF config[n + 1].key = "hostname" THEN config[n + 1].value
                     ELSE Said(config, i, n).host,
            user |-> IF config[n + 1].key = "user" THEN config[n + 1].value
                     ELSE Said(config, i, n).user]
  <1> DEFINE h == "hostname"  u == "user"
  <1> HIDE DEF h, u
  <1>1. Final(config, h, i, n + 1, config[i].value) =
          IF config[n + 1].key = h THEN config[n + 1].value
          ELSE Final(config, h, i, n, config[i].value)
    BY FinalGrows
  <1>2. Final(config, u, i, n + 1, Me) =
          IF config[n + 1].key = u THEN config[n + 1].value
          ELSE Final(config, u, i, n, Me)
    BY FinalGrows
  <1>3. QED
    BY <1>1, <1>2 DEF Said, h, u

LEMMA SaidBegins ==
  ASSUME NEW config, NEW i \in Nat
  PROVE  Said(config, i, i) = [host |-> config[i].value, user |-> Me]
  <1>1. \A key : Lines(config, key, i, i) = {}
    BY DEF Lines
  <1>2. QED
    BY <1>1 DEF Said, Final

(* A block that has begun has a host name. *)
LEMMA SaidNamed ==
  ASSUME NEW config \in Seq(Directives), NEW i \in 1..Len(config), NEW n \in 1..Len(config),
         config[i].key = "host"
  PROVE  Said(config, i, n).host \in Hosts
  <1> DEFINE T == Lines(config, "hostname", i, n)
  <1>0. \A j \in 1..Len(config) : config[j] \in Directives
    OBVIOUS
  <1>1. T \subseteq Nat /\ T \subseteq 1..Len(config) /\ \A j \in T : j <= n /\ config[j].key = "hostname"
    BY DEF Lines
  <1>2. CASE T = {}
    <2>1. Said(config, i, n).host = config[i].value
      BY <1>2 DEF Said, Final
    <2>2. QED
      BY <1>0, <2>1 DEF Directives
  <1>3. CASE T # {}
    <2>1. Said(config, i, n).host = config[Max(T)].value
      BY <1>3 DEF Said, Final
    <2> HIDE DEF T
    <2>2. Max(T) \in T
      <3>1. n \in Nat /\ \A j \in T : j <= n
        BY <1>1
      <3>2. QED
        BY <1>1, <1>3, <3>1, MaxOf
    <2>3. Max(T) \in 1..Len(config) /\ config[Max(T)].key = "hostname"
      BY <1>1, <2>2
    <2>4. config[Max(T)] \in Directives
      BY <1>0, <2>3
    <2>5. config[Max(T)].value \in Hosts
      BY <2>3, <2>4 DEF Directives
    <2>6. QED
      BY <2>1, <2>5
  <1>4. QED
    BY <1>2, <1>3

(* When the block ends, all has been said. *)
LEMMA SaidAtEnd ==
  ASSUME NEW config \in Seq(Directives), NEW i \in 1..Len(config), NEW n \in 1..Len(config),
         i <= n, Open(config, i, n), n = Len(config) \/ IsEnd(config, n + 1)
  PROVE  Described(config, i) = Said(config, i, n)
  <1> DEFINE ends == {j \in (i + 1)..Len(config) : config[j].key \in {"host", "pattern"}}
             next == IF ends = {} THEN Len(config) + 1 ELSE Min(ends)
  <1>0. Len(config) \in Nat /\ i \in Nat /\ n \in Nat
    OBVIOUS
  <1>1. \A j \in ends : j \in Nat /\ j > n
    <2>1. ASSUME NEW j \in ends, j <= n PROVE FALSE
      <3>1. j \in (i + 1)..n /\ IsEnd(config, j)
        BY <2>1 DEF IsEnd
      <3>2. QED
        BY <3>1 DEF Open
    <2>2. QED
      BY <2>1
  <1>2. next = n + 1
    <2>1. CASE n = Len(config)
      <3>1. ends = {}
        BY <1>0, <1>1, <2>1
      <3>2. QED
        BY <2>1, <3>1
    <2>2. CASE n # Len(config)
      <3>1. IsEnd(config, n + 1) /\ n + 1 \in (i + 1)..Len(config)
        BY <1>0, <2>2
      <3>2. n + 1 \in ends
        BY <3>1 DEF IsEnd
      <3>3. ends \subseteq Nat /\ \A j \in ends : n + 1 <= j
        BY <1>0, <1>1
      <3> DEFINE T == ends  m == n + 1
      <3>4. T \subseteq Nat /\ m \in T /\ \A j \in T : m <= j
        BY <3>2, <3>3
      <3> HIDE DEF T, m
      <3>5. Min(T) = m
        BY <3>4, MinIs
      <3>6. QED
        BY <3>2, <3>5 DEF T, m
    <2>3. QED
      BY <2>1, <2>2
  <1>3. next - 1 = n
    BY <1>0, <1>2
  <1> DEFINE D(last) ==
        LET L(key) == {j \in (i + 1)..last : config[j].key = key}
            F(key, default) == IF L(key) = {} THEN default ELSE config[Max(L(key))].value
        IN  [host |-> F("hostname", config[i].value), user |-> F("user", Me)]
  <1>4. Described(config, i) = D(next - 1)
    BY DEF Described
  <1>5. D(n) = Said(config, i, n)
    BY DEF Said, Final, Lines
  <1> HIDE DEF D, next
  <1>6. QED
    BY <1>3, <1>4, <1>5
(* The list with the hosts of some blocks of the configuration added, each
   once, unless it was known. *)
AddedFor(config, done, list) ==
  /\ Len(profiles) <= Len(list)
  /\ \A k \in 1..Len(profiles) : list[k] = profiles[k]
  /\ \A k \in (Len(profiles) + 1)..Len(list) :
       /\ list[k].at \notin EndpointsOf(profiles)
       /\ \E i \in done : list[k].at = Described(config, i)
  /\ \A j, k \in (Len(profiles) + 1)..Len(list) : list[j].at = list[k].at => j = k
  /\ \A i \in done : Described(config, i) \in EndpointsOf(list)

(* What has been read after n lines: all blocks that have ended are added, and
   the one that has not is the current profile. *)
ReadsFor(config, n, r) ==
  /\ AddedFor(config, Done(config, n), r.list)
  /\ r.inHostBlock => \E i \in 1..n : Open(config, i, n) /\ r.current = Said(config, i, n)
  /\ ~r.inHostBlock => \A i \in 1..n : config[i].key = "host" => i \in Done(config, n)

LEMMA EndpointsAre ==
  ASSUME NEW T, NEW list \in Seq(T)
  PROVE  /\ \A i \in 1..Len(list) : list[i].at \in EndpointsOf(list)
         /\ \A at \in EndpointsOf(list) : \E i \in 1..Len(list) : at = list[i].at
  <1>1. DOMAIN list = 1..Len(list)
    OBVIOUS
  <1>2. QED
    BY <1>1 DEF EndpointsOf

(* The profile of a block that ends. *)
LEMMA FlushAdds ==
  ASSUME NEW config, NEW done, NEW i, NEW r \in Readers, profiles \in Seq(Saved),
         AddedFor(config, done, r.list), r.inHostBlock, r.current.host # Nameless,
         r.current = Described(config, i)
  PROVE  AddedFor(config, done \cup {i}, Flush(r).list)
  <1>1. r.list \in Seq(Saved) /\ Len(r.list) \in Nat /\ Len(profiles) \in Nat
    <2>1. r.list \in Seq(Saved)
      BY DEF Readers
    <2>2. QED
      BY <2>1
  <1>2. CASE r.current \in EndpointsOf(r.list)
    <2>1. Flush(r).list = r.list
      BY <1>2 DEF Flush, Reading
    <2>2. AddedFor(config, done \cup {i}, r.list)
      BY <1>2 DEF AddedFor
    <2>3. QED
      BY <2>1, <2>2
  <1>3. CASE r.current \notin EndpointsOf(r.list)
    <2> DEFINE e == Stored(issued + Len(r.list) - Len(profiles) + 1, r.current)
               old == r.list
               new == Append(old, e)
    <2>1. Flush(r).list = new
      BY <1>3 DEF Flush, Reading
    <2>2. e.at = Described(config, i)
      BY DEF Stored
    <2>3. AddedFor(config, done, old) /\ Described(config, i) \notin EndpointsOf(old)
      BY <1>3
    <2>4. old \in Seq(Saved) /\ Len(old) \in Nat
      BY <1>1
    <2> DEFINE T == Saved \cup {e}
    <2>5. /\ new \in Seq(T) /\ Len(new) = Len(old) + 1
          /\ \A k \in 1..Len(old) : new[k] = old[k]
          /\ new[Len(old) + 1] = e
      <3> HIDE DEF e, old
      <3>1. old \in Seq(T) /\ e \in T
        BY <2>4
      <3> HIDE DEF T
      <3>2. QED
        BY <3>1, Appended
    <2> HIDE DEF e, old, new, T
    <2>6. \A k \in (Len(profiles) + 1)..Len(new) :
            k \in (Len(profiles) + 1)..Len(old) \/ k = Len(old) + 1
      BY <1>1, <2>4, <2>5
    <2>7. /\ \A k \in (Len(profiles) + 1)..Len(old) : new[k] = old[k] /\ k \in 1..Len(old)
          /\ \A k \in 1..Len(profiles) : new[k] = old[k]
      BY <1>1, <2>3, <2>4, <2>5 DEF AddedFor
    <2>8. Len(profiles) <= Len(new) /\ \A k \in 1..Len(profiles) : new[k] = profiles[k]
      BY <1>1, <2>3, <2>4, <2>5, <2>7 DEF AddedFor
    <2>9. ASSUME NEW at \in EndpointsOf(old) PROVE at \in EndpointsOf(new)
      <3>1. PICK k \in 1..Len(old) : at = old[k].at
        BY <2>4, EndpointsAre
      <3>2. k \in 1..Len(new) /\ new[k].at = at
        BY <2>4, <2>5, <3>1
      <3>3. QED
        BY <2>5, <3>2, EndpointsAre
    <2>10. Described(config, i) \in EndpointsOf(new)
      <3>1. Len(new) \in 1..Len(new) /\ new[Len(new)] = e
        BY <2>4, <2>5
      <3>2. QED
        BY <2>2, <2>5, <3>1, EndpointsAre
    <2>11. ASSUME NEW at \in EndpointsOf(profiles) PROVE at \in EndpointsOf(old)
      <3>1. PICK k \in 1..Len(profiles) : at = profiles[k].at
        BY EndpointsAre
      <3>2. k \in 1..Len(old) /\ old[k] = profiles[k]
        BY <1>1, <2>3, <2>4 DEF AddedFor
      <3>3. QED
        BY <2>4, <3>1, <3>2, EndpointsAre
    <2>12. ASSUME NEW k \in (Len(profiles) + 1)..Len(new)
           PROVE  /\ new[k].at \notin EndpointsOf(profiles)
                  /\ \E j \in done \cup {i} : new[k].at = Described(config, j)
      <3>1. CASE k \in (Len(profiles) + 1)..Len(old)
        BY <2>3, <2>7, <3>1 DEF AddedFor
      <3>2. CASE k = Len(old) + 1
        BY <2>2, <2>3, <2>5, <2>11, <3>2
      <3>3. QED
        BY <2>6, <3>1, <3>2
    <2>13. ASSUME NEW j \in (Len(profiles) + 1)..Len(old) PROVE old[j].at # e.at
      <3>1. old[j].at \in EndpointsOf(old)
        BY <2>4, <2>7, EndpointsAre
      <3>2. QED
        BY <2>2, <2>3, <3>1
    <2>14. ASSUME NEW j \in (Len(profiles) + 1)..Len(new), NEW k \in (Len(profiles) + 1)..Len(new),
                  new[j].at = new[k].at
           PROVE  j = k
      <3>1. CASE j \in (Len(profiles) + 1)..Len(old) /\ k \in (Len(profiles) + 1)..Len(old)
        <4>1. old[j].at = old[k].at
          BY <2>7, <2>14, <3>1
        <4>2. QED
          BY <2>3, <3>1, <4>1 DEF AddedFor
      <3>2. CASE j \in (Len(profiles) + 1)..Len(old) /\ k = Len(old) + 1
        BY <2>5, <2>7, <2>13, <2>14, <3>2
      <3>3. CASE k \in (Len(profiles) + 1)..Len(old) /\ j = Len(old) + 1
        BY <2>5, <2>7, <2>13, <2>14, <3>3
      <3>4. QED
        BY <2>6, <3>1, <3>2, <3>3
    <2>15. \A j \in done \cup {i} : Described(config, j) \in EndpointsOf(new)
      BY <2>3, <2>9, <2>10 DEF AddedFor
    <2>16. AddedFor(config, done \cup {i}, new)
      BY <2>8, <2>12, <2>14, <2>15 DEF AddedFor
    <2>17. QED
      BY <2>1, <2>16
  <1>4. QED
    BY <1>2, <1>3

(* The line after n ends all blocks that are open, or it is the end of the file. *)
LEMMA FlushEnds ==
  ASSUME NEW config \in Seq(Directives), NEW n \in 0..Len(config), NEW r,
         n = Len(config) \/ IsEnd(config, n + 1),
         profiles \in Seq(Saved), r \in Readers, ReadsFor(config, n, r)
  PROVE  AddedFor(config, {i \in 1..n : config[i].key = "host"}, Flush(r).list)
  <1> DEFINE all == {i \in 1..n : config[i].key = "host"}
             done == Done(config, n)
  <1>0. Len(config) \in Nat
    OBVIOUS
  <1>1. CASE r.inHostBlock
    <2>1. PICK i \in 1..n : Open(config, i, n) /\ r.current = Said(config, i, n)
      BY <1>1 DEF ReadsFor
    <2>2. i \in 1..Len(config) /\ n \in 1..Len(config) /\ i <= n /\ config[i].key = "host"
      BY <1>0, <2>1 DEF Open
    <2>3. Described(config, i) = Said(config, i, n)
      BY <2>1, <2>2, SaidAtEnd
    <2>4. r.current.host \in Hosts
      BY <2>1, <2>2, SaidNamed
    <2>5. r.current.host # Nameless
      BY <2>4, HostStoreAssumption
    <2>6. AddedFor(config, done, r.list)
      BY DEF ReadsFor
    <2>7. AddedFor(config, done \cup {i}, Flush(r).list)
      <3> HIDE DEF done
      <3>1. QED
        BY <1>1, <2>1, <2>3, <2>5, <2>6, FlushAdds
    <2>8. \A j \in all : j \in done \cup {i}
      <3>1. ASSUME NEW j \in all, j # i PROVE j \in done
        <4>1. CASE j < i
          <5>1. i \in (j + 1)..n /\ IsEnd(config, i)
            BY <2>2, <4>1 DEF IsEnd
          <5>2. QED
            BY <5>1 DEF Done
        <4>2. CASE j > i
          <5>1. j \in (i + 1)..n /\ IsEnd(config, j)
            BY <4>2 DEF IsEnd
          <5>2. QED
            BY <2>1, <5>1 DEF Open
        <4>3. QED
          BY <3>1, <4>1, <4>2
      <3>2. QED
        BY <3>1
    <2>9. done \cup {i} = all
      BY <2>2, <2>8 DEF Done
    <2>10. QED
      BY <2>7, <2>9
  <1>2. CASE ~r.inHostBlock
    <2>1. Flush(r) = r
      BY <1>2 DEF Flush
    <2>2. done = all
      BY <1>2 DEF ReadsFor, Done
    <2>3. QED
      BY <2>1, <2>2 DEF ReadsFor
  <1>3. r.inHostBlock \in BOOLEAN
    BY DEF Readers
  <1>4. QED
    BY <1>1, <1>2, <1>3
(* A line that ends the block before it. *)
LEMMA EndLine ==
  ASSUME NEW config \in Seq(Directives), NEW n \in Nat, n + 1 <= Len(config), NEW r \in Readers,
         profiles \in Seq(Saved), ReadsFor(config, n, r), IsEnd(config, n + 1)
  PROVE  ReadsFor(config, n + 1, ReadLine(r, config[n + 1]))
  <1> DEFINE line == config[n + 1]
             f == Flush(r)
             s == ReadLine(r, line)
             all == {i \in 1..n : config[i].key = "host"}
  <1>1. AddedFor(config, all, f.list)
    <2>1. n \in 0..Len(config)
      OBVIOUS
    <2>2. QED
      BY <2>1, FlushEnds
  <1>2. Done(config, n + 1) = all
    <2>1. \A i \in 1..n : i \in 1..(n + 1) /\ n + 1 \in (i + 1)..(n + 1)
      OBVIOUS
    <2>2. \A i \in 1..(n + 1) : i \in 1..n \/ (i + 1)..(n + 1) = {}
      OBVIOUS
    <2>3. QED
      BY <2>1, <2>2 DEF Done
  <1>3. CASE line.key = "host"
    <2>1. s.list = f.list /\ s.inHostBlock /\ s.current = [host |-> line.value, user |-> Me]
      BY <1>3 DEF ReadLine, Reading
    <2>2. Said(config, n + 1, n + 1) = [host |-> line.value, user |-> Me]
      BY SaidBegins
    <2>3. Open(config, n + 1, n + 1)
      <3>1. (n + 1 + 1)..(n + 1) = {}
        OBVIOUS
      <3>2. QED
        BY <1>3, <3>1 DEF Open
    <2>4. n + 1 \in 1..(n + 1)
      OBVIOUS
    <2> HIDE DEF s, f, all
    <2>5. QED
      BY <1>1, <1>2, <2>1, <2>2, <2>3, <2>4 DEF ReadsFor, s
  <1>4. CASE line.key = "pattern"
    <2>1. s.list = f.list /\ ~s.inHostBlock
      BY <1>4 DEF ReadLine, Reading
    <2>2. \A i \in 1..(n + 1) : config[i].key = "host" => i \in all
      <3>1. \A i \in 1..(n + 1) : i \in 1..n \/ i = n + 1
        OBVIOUS
      <3>2. QED
        BY <1>4, <3>1
    <2> HIDE DEF s, f, all
    <2>3. QED
      BY <1>1, <1>2, <2>1, <2>2 DEF ReadsFor, s
  <1>5. QED
    BY <1>3, <1>4 DEF IsEnd

(* Any other line. *)
LEMMA InnerLine ==
  ASSUME NEW config \in Seq(Directives), NEW n \in Nat, n + 1 <= Len(config), NEW r \in Readers,
         ReadsFor(config, n, r), ~IsEnd(config, n + 1)
  PROVE  ReadsFor(config, n + 1, ReadLine(r, config[n + 1]))
  <1> DEFINE line == config[n + 1]
             s == ReadLine(r, line)
  <1>0. r.inHostBlock \in BOOLEAN /\ r.current \in [host : Hosts \cup {Nameless}, user : Users]
    BY DEF Readers
  <1>1. line.key # "host" /\ line.key # "pattern"
    BY DEF IsEnd
  <1>2. \A i \in 1..(n + 1) : i \in 1..n \/ i = n + 1
    OBVIOUS
  <1>3. \A i \in Nat : \A j \in (i + 1)..(n + 1) : j \in (i + 1)..n \/ j = n + 1
    OBVIOUS
  <1>4. Done(config, n + 1) = Done(config, n)
    <2>1. ASSUME NEW i \in Done(config, n + 1) PROVE i \in Done(config, n)
      <3>1. i \in 1..n /\ config[i].key = "host"
        BY <1>1, <1>2 DEF Done
      <3>2. PICK j \in (i + 1)..(n + 1) : IsEnd(config, j)
        BY DEF Done
      <3>3. j \in (i + 1)..n
        BY <1>3, <3>1, <3>2
      <3>4. QED
        BY <3>1, <3>2, <3>3 DEF Done
    <2>2. ASSUME NEW i \in Done(config, n) PROVE i \in Done(config, n + 1)
      <3>1. PICK j \in (i + 1)..n : IsEnd(config, j)
        BY DEF Done
      <3>2. i \in 1..(n + 1) /\ j \in (i + 1)..(n + 1) /\ config[i].key = "host"
        BY DEF Done
      <3>3. QED
        BY <3>1, <3>2 DEF Done
    <2>3. QED
      BY <2>1, <2>2
  <1>5. CASE r.inHostBlock
    <2>1. PICK i \in 1..n : Open(config, i, n) /\ r.current = Said(config, i, n)
      BY <1>5 DEF ReadsFor
    <2>2. i \in Nat /\ i <= n /\ i \in 1..(n + 1)
      OBVIOUS
    <2>3. Open(config, i, n + 1)
      BY <1>3, <2>1, <2>2 DEF Open
    <2>4. Said(config, i, n + 1) =
            [host |-> IF line.key = "hostname" THEN line.value ELSE r.current.host,
             user |-> IF line.key = "user" THEN line.value ELSE r.current.user]
      BY <2>1, <2>2, SaidGrows
    <2>5. s.list = r.list /\ s.inHostBlock /\ s.current = Said(config, i, n + 1)
      <3> DEFINE c == r.current
      <3>1. c = [host |-> c.host, user |-> c.user]
        BY <1>0
      <3>2. CASE line.key = "hostname"
        <4>1. s = [r EXCEPT !.current = [c EXCEPT !.host = line.value]]
          BY <1>5, <3>2 DEF ReadLine
        <4>2. [c EXCEPT !.host = line.value] = [host |-> line.value, user |-> c.user]
          BY <1>0
        <4>3. Said(config, i, n + 1) = [host |-> line.value, user |-> c.user]
          BY <2>4, <3>2
        <4> DEFINE d == [c EXCEPT !.host = line.value]
        <4>4. s = [r EXCEPT !.current = d]
          BY <4>1
        <4> HIDE DEF d, s, c
        <4>5. s.list = r.list /\ s.inHostBlock = r.inHostBlock /\ s.current = d
          BY <4>4 DEF Readers
        <4>6. QED
          BY <1>5, <4>2, <4>3, <4>5 DEF d
      <3>3. CASE line.key = "user"
        <4>1. s = [r EXCEPT !.current = [c EXCEPT !.user = line.value]]
          BY <1>5, <3>3 DEF ReadLine
        <4>2. [c EXCEPT !.user = line.value] = [host |-> c.host, user |-> line.value]
          BY <1>0
        <4>3. Said(config, i, n + 1) = [host |-> c.host, user |-> line.value]
          BY <2>4, <3>3
        <4> DEFINE d == [c EXCEPT !.user = line.value]
        <4>4. s = [r EXCEPT !.current = d]
          BY <4>1
        <4> HIDE DEF d, s, c
        <4>5. s.list = r.list /\ s.inHostBlock = r.inHostBlock /\ s.current = d
          BY <4>4 DEF Readers
        <4>6. QED
          BY <1>5, <4>2, <4>3, <4>5 DEF d
      <3>4. CASE line.key # "hostname" /\ line.key # "user"
        <4>1. s = r
          BY <1>1, <3>4 DEF ReadLine
        <4>2. Said(config, i, n + 1) = c
          BY <2>4, <3>1, <3>4
        <4>3. QED
          BY <1>5, <4>1, <4>2
      <3>5. QED
        BY <3>2, <3>3, <3>4
    <2> HIDE DEF s
    <2>6. QED
      BY <1>4, <2>2, <2>3, <2>5 DEF ReadsFor, s
  <1>6. CASE ~r.inHostBlock
    <2>1. s = r
      BY <1>1, <1>6 DEF ReadLine
    <2>2. \A i \in 1..(n + 1) : config[i].key = "host" => i \in Done(config, n + 1)
      BY <1>1, <1>2, <1>4, <1>6 DEF ReadsFor
    <2> HIDE DEF s
    <2>3. QED
      BY <1>4, <1>6, <2>1, <2>2 DEF ReadsFor, s
  <1>7. QED
    BY <1>0, <1>5, <1>6

(* What importing makes of the list. *)
LEMMA ImportedAdds ==
  ASSUME NEW config \in Seq(Directives), issued \in Nat, IsList(profiles, issued)
  PROVE  AddedFor(config, {i \in 1..Len(config) : config[i].key = "host"}, Imported(config))
  <1>1. PICK read : ReadRows(config, read) /\ Imported(config) = Flush(read[Len(config)]).list
    BY ReadTable
  <1>2. profiles \in Seq(Saved) /\ Len(profiles) \in Nat /\ Len(config) \in Nat
    BY DEF IsList
  <1>3. \A n \in 0..Len(config) : read[n] \in Readers
    BY <1>1 DEF ReadRows, Reads
  <1> DEFINE S == {n \in Nat : n <= Len(config) => ReadsFor(config, n, read[n])}
  <1>4. 0 \in S
    <2> DEFINE r == Reading(profiles, Nowhere, FALSE)
    <2>1. r.list = profiles /\ ~r.inHostBlock
      BY DEF Reading
    <2>2. Done(config, 0) = {}
      BY DEF Done
    <2>3. AddedFor(config, {}, profiles)
      <3>1. (Len(profiles) + 1)..Len(profiles) = {}
        BY <1>2
      <3>2. Len(profiles) <= Len(profiles)
        BY <1>2
      <3>3. QED
        BY <3>1, <3>2 DEF AddedFor
    <2> HIDE DEF r
    <2>4. ReadsFor(config, 0, r)
      <3>1. 1..0 = {}
        OBVIOUS
      <3>2. QED
        BY <2>1, <2>2, <2>3, <3>1 DEF ReadsFor
    <2>5. read[0] = r
      BY <1>1 DEF ReadRows, r
    <2>6. QED
      BY <2>4, <2>5
  <1>5. ASSUME NEW n \in Nat, n \in S
        PROVE  n + 1 \in S
    <2>1. ASSUME n + 1 <= Len(config)
          PROVE  ReadsFor(config, n + 1, read[n + 1])
      <3>1. /\ n + 1 \in 1..Len(config) /\ (n + 1) - 1 = n /\ n \in 0..Len(config)
            /\ ReadsFor(config, n, read[n])
        BY <1>2, <1>5, <2>1
      <3>2. read[n + 1] = ReadLine(read[n], config[n + 1]) /\ read[n] \in Readers
        BY <1>1, <1>3, <3>1 DEF ReadRows
      <3>3. CASE IsEnd(config, n + 1)
        BY <1>2, <2>1, <3>1, <3>2, <3>3, EndLine
      <3>4. CASE ~IsEnd(config, n + 1)
        BY <2>1, <3>1, <3>2, <3>4, InnerLine
      <3>5. QED
        BY <3>3, <3>4
    <2>2. QED
      BY <2>1
  <1>6. Nat \subseteq S
    <2> HIDE DEF S
    <2>1. QED
      BY <1>4, <1>5, Induct
  <1> DEFINE L == Len(config)
  <1>7. L \in 0..L /\ L = Len(config) /\ L <= L
    BY <1>2
  <1>8. ReadsFor(config, L, read[L]) /\ read[L] \in Readers
    BY <1>2, <1>3, <1>6, <1>7
  <1>9. AddedFor(config, {i \in 1..L : config[i].key = "host"}, Flush(read[L]).list)
    <2> HIDE DEF L
    <2>1. L \in 0..Len(config)
      BY <1>7
    <2>2. QED
      BY <1>2, <1>7, <1>8, <2>1, FlushEnds
  <1>10. QED
    BY <1>1, <1>9

(* An import leaves the list in front as it is and adds each host of the
   configuration exactly once, unless it is known (HostStore.cpp:317-338). *)
THEOREM ImportAddsEachOnceCorrect == Spec => ImportAddsEachOnce
  <1> DEFINE n == Len(profiles)
             Once(config) ==
               LET added  == SubSeq(profiles', n + 1, Len(profiles'))
                   blocks == {i \in DOMAIN config : config[i].key = "host"}
               IN  /\ SubSeq(profiles', 1, n) = profiles
                   /\ EndpointsOf(added) =
                        {Described(config, i) : i \in blocks} \ EndpointsOf(profiles)
                   /\ \A i, j \in DOMAIN added : added[i].at = added[j].at => i = j
  <1>1. ASSUME Inv, NEW config \in Configs, Import(config)
        PROVE  Once(config)
    <2> DEFINE list == Imported(config)
               added == SubSeq(list, n + 1, Len(list))
               blocks == {i \in DOMAIN config : config[i].key = "host"}
               all == {i \in 1..Len(config) : config[i].key = "host"}
    <2>1. profiles' = list
      BY <1>1 DEF Import
    <2>2. config \in Seq(Directives) /\ issued \in Nat /\ IsList(profiles, issued)
      BY <1>1, HostStoreAssumption DEF Inv, Types
    <2>3. AddedFor(config, all, list)
      BY <2>2, ImportedAdds
    <2>4. list \in Seq(Saved) /\ Len(list) \in Nat /\ n \in Nat /\ n <= Len(list) /\ profiles \in Seq(Saved)
      BY <2>2, ImportedIsList DEF IsList
    <2>5. DOMAIN config = 1..Len(config)
      BY <2>2
    <2>6. blocks = all
      BY <2>5
    <2> HIDE DEF list
    <2>7. /\ added \in Seq(Saved) /\ Len(added) = Len(list) - n
          /\ \A k \in 1..(Len(list) - n) : added[k] = list[n + k]
      BY <2>4
    <2>8. SubSeq(list, 1, n) = profiles
      <3>1. \A k \in 1..n : list[k] = profiles[k]
        BY <2>3 DEF AddedFor
      <3> DEFINE front == SubSeq(list, 1, n)
      <3>2. front \in Seq(Saved) /\ Len(front) = n /\ \A k \in 1..n : front[k] = list[k]
        BY <2>4
      <3> HIDE DEF front
      <3>3. \A k \in 1..n : front[k] = profiles[k]
        BY <3>1, <3>2
      <3>4. front = profiles
        BY <2>4, <3>2, <3>3
      <3>5. QED
        BY <3>4 DEF front
    <2> HIDE DEF added
    <2>9. \A k \in 1..Len(added) : n + k \in (n + 1)..Len(list) /\ added[k] = list[n + k]
      BY <2>4, <2>7
    <2>10. ASSUME NEW at \in EndpointsOf(added)
           PROVE  at \in {Described(config, i) : i \in blocks} \ EndpointsOf(profiles)
      <3>1. PICK k \in 1..Len(added) : at = added[k].at
        BY <2>7, EndpointsAre
      <3>2. n + k \in (n + 1)..Len(list) /\ at = list[n + k].at
        BY <2>9, <3>1
      <3>3. at \notin EndpointsOf(profiles) /\ \E i \in all : at = Described(config, i)
        BY <2>3, <3>2 DEF AddedFor
      <3>4. QED
        BY <2>6, <3>3
    <2>11. ASSUME NEW i \in all, Described(config, i) \notin EndpointsOf(profiles)
           PROVE  Described(config, i) \in EndpointsOf(added)
      <3>1. Described(config, i) \in EndpointsOf(list)
        BY <2>3 DEF AddedFor
      <3>2. PICK k \in 1..Len(list) : Described(config, i) = list[k].at
        BY <2>4, <3>1, EndpointsAre
      <3>3. k \notin 1..n
        <4>1. ASSUME k \in 1..n PROVE FALSE
          <5>1. list[k] = profiles[k] /\ profiles[k].at \in EndpointsOf(profiles)
            BY <2>3, <2>4, <4>1, EndpointsAre DEF AddedFor
          <5>2. QED
            BY <2>11, <3>2, <5>1
        <4>2. QED
          BY <4>1
      <3>4. k - n \in 1..Len(added) /\ n + (k - n) = k
        BY <2>4, <2>7, <3>3
      <3>5. added[k - n] = list[k]
        BY <2>9, <3>4
      <3>6. QED
        BY <2>7, <3>2, <3>4, <3>5, EndpointsAre
    <2>12. EndpointsOf(added) = {Described(config, i) : i \in blocks} \ EndpointsOf(profiles)
      <3>1. \A at \in {Described(config, i) : i \in blocks} \ EndpointsOf(profiles) :
              at \in EndpointsOf(added)
        BY <2>6, <2>11
      <3>2. QED
        BY <2>10, <3>1
    <2>13. \A i, j \in DOMAIN added : added[i].at = added[j].at => i = j
      <3>1. DOMAIN added = 1..Len(added)
        BY <2>7
      <3>2. ASSUME NEW i \in 1..Len(added), NEW j \in 1..Len(added), added[i].at = added[j].at
            PROVE  i = j
        <4>1. /\ n + i \in (n + 1)..Len(list) /\ n + j \in (n + 1)..Len(list)
              /\ list[n + i].at = list[n + j].at
          BY <2>9, <3>2
        <4>2. n + i = n + j
          BY <2>3, <4>1 DEF AddedFor
        <4>3. QED
          BY <2>4, <4>2
      <3>3. QED
        BY <3>1, <3>2
    <2>14. QED
      BY <2>1, <2>8, <2>12, <2>13 DEF added
  <1>2. Inv /\ [Next]_vars => [\A config \in Configs : Import(config) => Once(config)]_vars
    <2> HIDE DEF Once
    <2>1. QED
      BY <1>1
  <1>3. QED
    BY <1>2, Invariance, PTL DEF Spec, ImportAddsEachOnce

=============================================================================
