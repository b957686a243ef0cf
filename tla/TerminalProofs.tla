--------------------------- MODULE TerminalProofs ---------------------------
(***************************************************************************)
(* Proofs about Terminal, and the operators of Screen it is made of, for   *)
(* any sizes of the window, tab width, scrollback limit and counts; then   *)
(* about VtParser, for any bytes and any limits.                           *)
(*                                                                         *)
(* A screen has twelve fields.  For each operator of Screen a lemma XxxIs  *)
(* says what becomes of them, and a lemma XxxGood that the screen stays a  *)
(* good one; the steps of Terminal are proved from these alone.  The       *)
(* parser has a lemma XxxIs and a lemma XxxGood for each of its operators  *)
(* in the same way, and shares the lemmas on recursion.                    *)
(***************************************************************************)
EXTENDS Terminal, VtParser, TLAPS, WellFoundedInduction, FiniteSetTheorems,
        SequenceTheorems

-----------------------------------------------------------------------------
(***************************************************************************)
(* Induction and recursion.                                                *)
(***************************************************************************)
(* Every set of natural numbers but the empty one has a least element. *)
LEMMA LeastOf ==
  ASSUME NEW T, T \subseteq Nat, T # {}
  PROVE  \E x \in T : \A y \in T : ~(y < x)
  <1>1. PICK x \in T : \A y \in T : ~(<<y, x>> \in OpToRel(<, Nat))
    BY NatLessThanWellFounded, WFMin
  <1>2. \A y \in T : ~(y < x)
    <2>1. ASSUME NEW y \in T, y < x PROVE <<y, x>> \in OpToRel(<, Nat)
      BY <2>1 DEF OpToRel
    <2>2. QED
      BY <1>1, <2>1
  <1>3. QED
    BY <1>2

(* Induction, over a set. *)
LEMMA Induct ==
  ASSUME NEW S, 0 \in S, \A n \in Nat : n \in S => n + 1 \in S
  PROVE  Nat \subseteq S
  <1> SUFFICES ASSUME Nat \ S # {} PROVE FALSE
    OBVIOUS
  <1>1. PICK x \in Nat \ S : \A y \in Nat \ S : ~(y < x)
    BY LeastOf
  <1>2. x - 1 \in Nat /\ x - 1 < x /\ x = (x - 1) + 1
    BY <1>1
  <1>3. QED
    BY <1>1, <1>2

(* A table filled row by row, each row from the one before. *)
IsTable(T, base, step, n, f) ==
  /\ f \in [0..n -> T]
  /\ f[0] = base
  /\ \A i \in 1..n : f[i] = step[i][f[i - 1]]

LEMMA Recursion ==
  ASSUME NEW T, NEW base \in T, NEW step \in [Nat -> [T -> T]], NEW n \in Nat
  PROVE  \E f : IsTable(T, base, step, n, f)
  <1> DEFINE S == {m \in Nat : \E f : IsTable(T, base, step, m, f)}
  <1>1. 0 \in S
    <2>1. IsTable(T, base, step, 0, [i \in 0..0 |-> base])
      BY DEF IsTable
    <2>2. QED
      BY <2>1
  <1>2. ASSUME NEW m \in Nat, m \in S
        PROVE  m + 1 \in S
    <2>1. PICK f : IsTable(T, base, step, m, f)
      BY <1>2
    <2> DEFINE g == [i \in 0..(m + 1) |-> IF i = m + 1 THEN step[m + 1][f[m]] ELSE f[i]]
    <2>2. g \in [0..(m + 1) -> T] /\ g[0] = base
      BY <2>1 DEF IsTable
    <2>3. \A i \in 1..(m + 1) : g[i] = step[i][g[i - 1]]
      BY <2>1 DEF IsTable
    <2>4. IsTable(T, base, step, m + 1, g)
      <3> HIDE DEF g
      <3>1. QED
        BY <2>2, <2>3 DEF IsTable
    <2>5. QED
      BY <2>4
  <1>3. Nat \subseteq S
    <2> HIDE DEF S
    <2>1. QED
      BY <1>1, <1>2, Induct
  <1>4. QED
    BY <1>3

-----------------------------------------------------------------------------
(***************************************************************************)
(* Numbers and vectors.                                                    *)
(***************************************************************************)
LEMMA ClampIs ==
  ASSUME NEW x \in Int, NEW low \in Int, NEW high \in Int, low <= high
  PROVE  /\ Clamp(x, low, high) \in low..high
         /\ x \in low..high => Clamp(x, low, high) = x
  BY DEF Clamp

Line(c) == [0..(c - 1) -> Cells]

Plane(c, r) == [0..(r - 1) -> Line(c)]

Flags(r) == [0..(r - 1) -> BOOLEAN]

LEMMA BlankLineIs ==
  ASSUME NEW c \in Nat
  PROVE  BlankLine(c) \in Line(c)
  BY DEF BlankLine, Line, Cells

LEMMA GapOpened ==
  ASSUME NEW P, NEW m \in Int, NEW f \in [0..m -> P], NEW from \in Nat, NEW to \in Int, to <= m,
         NEW n \in Nat, NEW new \in P
  PROVE  /\ OpenGap(f, from, to, n, new) \in [0..m -> P]
         /\ \A i \in 0..m : OpenGap(f, from, to, n, new)[i] =
              IF i < from \/ i > to THEN f[i] ELSE IF i < from + n THEN new ELSE f[i - n]
  <1> DEFINE g(i) == IF i < from \/ i > to THEN f[i] ELSE IF i < from + n THEN new ELSE f[i - n]
  <1>1. OpenGap(f, from, to, n, new) = [i \in 0..m |-> g(i)]
    BY DEF OpenGap
  <1>2. ASSUME NEW i \in 0..m PROVE g(i) \in P
    <2>1. ~(i < from \/ i > to) /\ ~(i < from + n) => i - n \in 0..m
      OBVIOUS
    <2>2. QED
      BY <2>1
  <1> HIDE DEF g
  <1>3. [i \in 0..m |-> g(i)] \in [0..m -> P]
    BY <1>2
  <1>4. QED
    BY <1>1, <1>3 DEF g

LEMMA GapClosed ==
  ASSUME NEW P, NEW m \in Int, NEW f \in [0..m -> P], NEW from \in Nat, NEW to \in Int, to <= m,
         NEW n \in Nat, NEW new \in P
  PROVE  /\ CloseGap(f, from, to, n, new) \in [0..m -> P]
         /\ \A i \in 0..m : CloseGap(f, from, to, n, new)[i] =
              IF i < from \/ i > to THEN f[i] ELSE IF i > to - n THEN new ELSE f[i + n]
  <1> DEFINE g(i) == IF i < from \/ i > to THEN f[i] ELSE IF i > to - n THEN new ELSE f[i + n]
  <1>1. CloseGap(f, from, to, n, new) = [i \in 0..m |-> g(i)]
    BY DEF CloseGap
  <1>2. ASSUME NEW i \in 0..m PROVE g(i) \in P
    <2>1. ~(i < from \/ i > to) /\ ~(i > to - n) => i + n \in 0..m
      OBVIOUS
    <2>2. QED
      BY <2>1
  <1> HIDE DEF g
  <1>3. [i \in 0..m |-> g(i)] \in [0..m -> P]
    BY <1>2
  <1>4. QED
    BY <1>1, <1>3 DEF g

LEMMA FilledIs ==
  ASSUME NEW P, NEW m \in Int, NEW f \in [0..m -> P], NEW from \in Int, NEW to \in Int, NEW new \in P
  PROVE  Filled(f, from, to, new) \in [0..m -> P]
  BY DEF Filled

LEMMA SuffixIs ==
  ASSUME NEW P, NEW s \in Seq(P), NEW n \in Nat
  PROVE  /\ Suffix(s, n) \in Seq(P)
         /\ Len(Suffix(s, n)) = Least(n, Len(s)) /\ Len(Suffix(s, n)) <= n
         /\ \A i \in 1..Least(n, Len(s)) : Suffix(s, n)[i] = s[Len(s) - Least(n, Len(s)) + i]
  <1> DEFINE k == Least(n, Len(s))
             a == Len(s) - k + 1
  <1>1. Len(s) \in Nat /\ k \in Nat /\ k <= Len(s) /\ k <= n
    BY DEF Least
  <1>2. a \in 1..(Len(s) + 1) /\ Len(s) - a + 1 = k
    BY <1>1
  <1>3. Suffix(s, n) = SubSeq(s, a, Len(s))
    BY DEF Suffix
  <1>4. \A i \in 1..k : Len(s) - k + i = a + i - 1
    BY <1>1
  <1> HIDE DEF a, k
  <1>5. /\ SubSeq(s, a, Len(s)) \in Seq(P)
        /\ Len(SubSeq(s, a, Len(s))) = Len(s) - a + 1
        /\ \A i \in 1..(Len(s) - a + 1) : SubSeq(s, a, Len(s))[i] = s[a + i - 1]
    BY <1>1, <1>2
  <1>6. QED
    BY <1>1, <1>2, <1>3, <1>4, <1>5 DEF k
-----------------------------------------------------------------------------
(***************************************************************************)
(* Screens of c columns and r rows.                                        *)
(***************************************************************************)
IsScreen(s) ==
  s = [columns |-> s.columns, rows |-> s.rows, limit |-> s.limit, lines |-> s.lines,
       wrapped |-> s.wrapped, tabs |-> s.tabs, history |-> s.history, row |-> s.row,
       column |-> s.column, pendingWrap |-> s.pendingWrap, top |-> s.top, bottom |-> s.bottom]

SameSize(s, t) == t.columns = s.columns /\ t.rows = s.rows /\ t.limit = s.limit

SameText(s, t) == t.lines = s.lines /\ t.wrapped = s.wrapped /\ t.history = s.history

SameCursor(s, t) == t.row = s.row /\ t.column = s.column /\ t.pendingWrap = s.pendingWrap

SameRegion(s, t) == t.top = s.top /\ t.bottom = s.bottom

SameTabs(s, t) == t.tabs = s.tabs

(* The vectors have the size of the screen. *)
Sized(s, c, r, l) ==
  /\ IsScreen(s) /\ s.columns = c /\ s.rows = r /\ s.limit = l
  /\ s.lines \in Plane(c, r)
  /\ s.wrapped \in Flags(r)
  /\ s.history \in Seq(Line(c)) /\ Len(s.history) <= l
  /\ s.tabs \subseteq Nat
  /\ s.row \in Int /\ s.column \in Int /\ s.pendingWrap \in BOOLEAN
  /\ s.top \in Int /\ s.bottom \in Int

(* And the cursor, the margins and the tab stops are on it. *)
Region(t, b, r) == (t = 0 /\ b = r - 1) \/ (0 <= t /\ t < b /\ b <= r - 1)

Sound(s, c, r, l) ==
  /\ Sized(s, c, r, l)
  /\ s.tabs \subseteq 0..(c - 1)
  /\ s.row \in 0..(r - 1) /\ s.column \in 0..(c - 1)
  /\ Region(s.top, s.bottom, r)

Good(s, c, r, l) == Sound(s, c, r, l) /\ (s.pendingWrap => s.column = c - 1)

(* A size that a screen may have. *)
IsSize(c, r, l) == c \in Nat \ {0} /\ r \in Nat \ {0} /\ l \in Nat

LEMMA MoveCursorIs ==
  ASSUME NEW s, IsScreen(s), NEW row, NEW column, NEW t, t = MoveCursor(s, row, column)
  PROVE  /\ IsScreen(t) /\ SameSize(s, t) /\ SameText(s, t) /\ SameRegion(s, t) /\ SameTabs(s, t)
         /\ t.row = Clamp(row, 0, LastRow(s)) /\ t.column = Clamp(column, 0, LastColumn(s))
         /\ ~t.pendingWrap
  BY DEF IsScreen, MoveCursor, SameSize, SameText, SameRegion, SameTabs

(* The cursor is moved onto the screen wherever it was. *)
LEMMA OntoScreen ==
  ASSUME NEW c, NEW r, NEW l, IsSize(c, r, l), NEW s, Sized(s, c, r, l),
         NEW row \in Int, NEW column \in Int, NEW t, t = MoveCursor(s, row, column)
  PROVE  /\ Sized(t, c, r, l) /\ SameText(s, t) /\ SameRegion(s, t) /\ SameTabs(s, t)
         /\ t.row \in 0..(r - 1) /\ t.column \in 0..(c - 1) /\ ~t.pendingWrap
  <1>1. IsScreen(s) /\ s.columns = c /\ s.rows = r /\ s.limit = l
    BY DEF Sized
  <1>2. /\ IsScreen(t) /\ SameSize(s, t) /\ SameText(s, t) /\ SameRegion(s, t) /\ SameTabs(s, t)
        /\ t.row = Clamp(row, 0, LastRow(s)) /\ t.column = Clamp(column, 0, LastColumn(s))
        /\ ~t.pendingWrap
    BY <1>1, MoveCursorIs
  <1>3. LastRow(s) = r - 1 /\ LastColumn(s) = c - 1 /\ r - 1 \in Nat /\ c - 1 \in Nat
    BY <1>1 DEF LastRow, LastColumn, IsSize
  <1>4. t.row \in 0..(r - 1) /\ t.column \in 0..(c - 1)
    <2>1. t.row \in 0..(r - 1)
      <3> DEFINE m == r - 1
      <3>1. 0 \in Int /\ m \in Int /\ 0 <= m
        BY <1>3
      <3> HIDE DEF m
      <3>2. Clamp(row, 0, m) \in 0..m
        BY <3>1, ClampIs
      <3>3. QED
        BY <1>2, <1>3, <3>2 DEF m
    <2>2. t.column \in 0..(c - 1)
      <3> DEFINE m == c - 1
      <3>1. 0 \in Int /\ m \in Int /\ 0 <= m
        BY <1>3
      <3> HIDE DEF m
      <3>2. Clamp(column, 0, m) \in 0..m
        BY <3>1, ClampIs
      <3>3. QED
        BY <1>2, <1>3, <3>2 DEF m
    <2>3. QED
      BY <2>1, <2>2
  <1>5. Sized(t, c, r, l)
    <2>1. t.row \in Int /\ t.column \in Int
      BY <1>3, <1>4
    <2>2. t.pendingWrap \in BOOLEAN
      BY DEF MoveCursor, IsScreen, Sized
    <2>3. QED
      BY <1>1, <1>2, <2>1, <2>2 DEF Sized, SameSize, SameText, SameRegion, SameTabs
  <1>6. QED
    BY <1>2, <1>4, <1>5

LEMMA MoveCursorGood ==
  ASSUME NEW c, NEW r, NEW l, IsSize(c, r, l), NEW s, Sized(s, c, r, l),
         s.tabs \subseteq 0..(c - 1), Region(s.top, s.bottom, r),
         NEW row \in Int, NEW column \in Int
  PROVE  Good(MoveCursor(s, row, column), c, r, l)
  <1>1. PICK t : t = MoveCursor(s, row, column)
    OBVIOUS
  <1>2. /\ Sized(t, c, r, l) /\ SameText(s, t) /\ SameRegion(s, t) /\ SameTabs(s, t)
        /\ t.row \in 0..(r - 1) /\ t.column \in 0..(c - 1) /\ ~t.pendingWrap
    BY <1>1, OntoScreen
  <1>3. QED
    BY <1>1, <1>2 DEF Good, Sound, SameRegion, SameTabs

LEMMA ScrollUpIs ==
  ASSUME NEW s, IsScreen(s), NEW count, NEW t, t = ScrollUp(s, count),
         NEW n, n = Clamp(count, 1, s.bottom - s.top + 1)
  PROVE  /\ IsScreen(t) /\ SameSize(s, t) /\ SameCursor(s, t) /\ SameRegion(s, t) /\ SameTabs(s, t)
         /\ t.lines = CloseGap(s.lines, s.top, s.bottom, n, BlankLine(s.columns))
         /\ t.wrapped = CloseGap(s.wrapped, s.top, s.bottom, n, FALSE)
         /\ t.history = IF FullRegion(s) THEN Pushed(s, n) ELSE s.history
  <1> DEFINE a == IF FullRegion(s) THEN Pushed(s, n) ELSE s.history
             b == CloseGap(s.lines, s.top, s.bottom, n, BlankLine(s.columns))
             d == CloseGap(s.wrapped, s.top, s.bottom, n, FALSE)
  <1>1. t = [s EXCEPT !.history = a, !.lines = b, !.wrapped = d]
    BY DEF ScrollUp
  <1> HIDE DEF a, b, d
  <1>2. /\ IsScreen(t) /\ SameSize(s, t) /\ SameCursor(s, t) /\ SameRegion(s, t) /\ SameTabs(s, t)
        /\ t.history = a /\ t.lines = b /\ t.wrapped = d
    BY <1>1 DEF IsScreen, SameSize, SameCursor, SameRegion, SameTabs
  <1>3. QED
    BY <1>2 DEF a, b, d

LEMMA ScrollDownIs ==
  ASSUME NEW s, IsScreen(s), NEW count, NEW t, t = ScrollDown(s, count),
         NEW n, n = Clamp(count, 1, s.bottom - s.top + 1)
  PROVE  /\ IsScreen(t) /\ SameSize(s, t) /\ SameCursor(s, t) /\ SameRegion(s, t) /\ SameTabs(s, t)
         /\ t.lines = OpenGap(s.lines, s.top, s.bottom, n, BlankLine(s.columns))
         /\ t.wrapped = OpenGap(s.wrapped, s.top, s.bottom, n, FALSE)
         /\ t.history = s.history
  <1> DEFINE b == OpenGap(s.lines, s.top, s.bottom, n, BlankLine(s.columns))
             d == OpenGap(s.wrapped, s.top, s.bottom, n, FALSE)
  <1>1. t = [s EXCEPT !.lines = b, !.wrapped = d]
    BY DEF ScrollDown
  <1> HIDE DEF b, d
  <1>2. /\ IsScreen(t) /\ SameSize(s, t) /\ SameCursor(s, t) /\ SameRegion(s, t) /\ SameTabs(s, t)
        /\ t.history = s.history /\ t.lines = b /\ t.wrapped = d
    BY <1>1 DEF IsScreen, SameSize, SameCursor, SameRegion, SameTabs
  <1>3. QED
    BY <1>2 DEF b, d

(* Lines that go off the top are kept up to the limit. *)
LEMMA PushedIs ==
  ASSUME NEW c, NEW r, NEW l, IsSize(c, r, l), NEW s, Sized(s, c, r, l), NEW n \in 0..r
  PROVE  /\ LinesFrom(s, 0, n) \in Seq(Line(c)) /\ Len(LinesFrom(s, 0, n)) = n
         /\ \A i \in 1..n : LinesFrom(s, 0, n)[i] = s.lines[i - 1]
         /\ Pushed(s, n) \in Seq(Line(c)) /\ Len(Pushed(s, n)) <= l
  <1> DEFINE new == LinesFrom(s, 0, n)
  <1>1. s.lines \in Plane(c, r) /\ s.history \in Seq(Line(c)) /\ s.limit = l
    BY DEF Sized
  <1>2. r \in Nat /\ l \in Nat /\ n \in Nat
    BY DEF IsSize
  <1>3. ASSUME NEW i \in 1..n PROVE 0 + i - 1 = i - 1 /\ i - 1 \in 0..(r - 1) /\ s.lines[i - 1] \in Line(c)
    BY <1>1, <1>2 DEF Plane
  <1>4. new = [i \in 1..n |-> s.lines[i - 1]]
    BY <1>3 DEF LinesFrom
  <1>5. new \in Seq(Line(c)) /\ Len(new) = n /\ \A i \in 1..n : new[i] = s.lines[i - 1]
    <2> HIDE DEF new
    <2> DEFINE P == Line(c)
    <2>1. \A i \in 1..n : s.lines[i - 1] \in P
      BY <1>3
    <2> HIDE DEF P
    <2>2. new \in Seq(P) /\ Len(new) = n /\ \A i \in 1..n : new[i] = s.lines[i - 1]
      BY <1>2, <1>4, <2>1
    <2>3. QED
      BY <2>2 DEF P
  <1> DEFINE all == s.history \o new
  <1>6. all \in Seq(Line(c))
    <2> HIDE DEF new
    <2> DEFINE P == Line(c)  h == s.history
    <2>1. h \in Seq(P) /\ new \in Seq(P)
      BY <1>1, <1>5
    <2> HIDE DEF P, h
    <2>2. h \o new \in Seq(P)
      BY <2>1
    <2>3. QED
      BY <2>2 DEF P, h
  <1>7. Pushed(s, n) = Suffix(all, l)
    BY <1>1 DEF Pushed
  <1> HIDE DEF all
  <1>8. Suffix(all, l) \in Seq(Line(c)) /\ Len(Suffix(all, l)) <= l
    BY <1>2, <1>6, SuffixIs
  <1>9. QED
    BY <1>5, <1>7, <1>8

(* How many lines a count may move. *)
LEMMA RegionIs ==
  ASSUME NEW c, NEW r, NEW l, IsSize(c, r, l), NEW s, Sound(s, c, r, l)
  PROVE  /\ s.top \in 0..(r - 1) /\ s.bottom \in 0..(r - 1) /\ s.top <= s.bottom
         /\ \A count \in Int : Clamp(count, 1, s.bottom - s.top + 1) \in 1..r
         /\ FullRegion(s) <=> s.top = 0 /\ s.bottom = r - 1
  <1>1. r \in Nat \ {0} /\ s.top \in Int /\ s.bottom \in Int /\ s.rows = r
    BY DEF IsSize, Sound, Sized
  <1>2. s.top \in 0..(r - 1) /\ s.bottom \in 0..(r - 1) /\ s.top <= s.bottom
    BY <1>1 DEF Sound, Region
  <1> DEFINE h == s.bottom - s.top + 1
  <1>3. h \in 1..r
    BY <1>1, <1>2
  <1> HIDE DEF h
  <1>4. ASSUME NEW count \in Int PROVE Clamp(count, 1, h) \in 1..r
    <2>1. h \in Int /\ 1 <= h /\ h <= r /\ r \in Int
      BY <1>1, <1>3
    <2>2. Clamp(count, 1, h) \in 1..h
      BY <2>1, ClampIs
    <2>3. QED
      BY <2>1, <2>2
  <1>5. QED
    BY <1>1, <1>2, <1>4 DEF FullRegion, LastRow, h

-----------------------------------------------------------------------------
(***************************************************************************)
(* Scrolling, and the cursor's moves that scroll.                          *)
(***************************************************************************)
(* What scrolling and the shifting of lines keep. *)
LEMMA ShiftedSound ==
  ASSUME NEW c, NEW r, NEW l, IsSize(c, r, l), NEW s, Sound(s, c, r, l),
         NEW t, IsScreen(t), SameSize(s, t), SameRegion(s, t), SameTabs(s, t),
         t.row = s.row, t.column \in 0..(c - 1), t.pendingWrap \in BOOLEAN,
         t.lines \in Plane(c, r), t.wrapped \in Flags(r),
         t.history \in Seq(Line(c)), Len(t.history) <= l
  PROVE  Sound(t, c, r, l)
  <1>1. t.column \in Int
    BY DEF IsSize
  <1>2. Sized(t, c, r, l)
    BY <1>1 DEF Sized, Sound, SameSize, SameRegion, SameTabs
  <1>3. QED
    BY <1>2 DEF Sound, SameRegion, SameTabs

(* Gaps in the lines and in the flags, as the region has them. *)
LEMMA GapsGood ==
  ASSUME NEW c, NEW r, NEW l, IsSize(c, r, l), NEW s, Sound(s, c, r, l),
         NEW from \in Nat, NEW n \in Nat
  PROVE  /\ OpenGap(s.lines, from, s.bottom, n, BlankLine(s.columns)) \in Plane(c, r)
         /\ OpenGap(s.wrapped, from, s.bottom, n, FALSE) \in Flags(r)
         /\ CloseGap(s.lines, from, s.bottom, n, BlankLine(s.columns)) \in Plane(c, r)
         /\ CloseGap(s.wrapped, from, s.bottom, n, FALSE) \in Flags(r)
  <1> DEFINE m == r - 1
             P == Line(c)
             B == BOOLEAN
             blank == BlankLine(c)
             no == FALSE
             f == s.lines
             g == s.wrapped
             to == s.bottom
  <1>1. m \in Int /\ to \in Int /\ to <= m
    <2>1. s.bottom \in 0..(r - 1) /\ r \in Nat
      BY RegionIs DEF IsSize
    <2>2. QED
      BY <2>1
  <1>2. blank \in P /\ no \in B /\ s.columns = c
    BY BlankLineIs DEF IsSize, Sound, Sized
  <1>3. f \in [0..m -> P] /\ g \in [0..m -> B]
    BY DEF Sound, Sized, Plane, Flags
  <1> HIDE DEF m, P, B, blank, no, f, g, to
  <1>4. OpenGap(f, from, to, n, blank) \in [0..m -> P]
    BY <1>1, <1>2, <1>3, GapOpened
  <1>5. OpenGap(g, from, to, n, no) \in [0..m -> B]
    BY <1>1, <1>2, <1>3, GapOpened
  <1>6. CloseGap(f, from, to, n, blank) \in [0..m -> P]
    BY <1>1, <1>2, <1>3, GapClosed
  <1>7. CloseGap(g, from, to, n, no) \in [0..m -> B]
    BY <1>1, <1>2, <1>3, GapClosed
  <1>8. QED
    BY <1>2, <1>4, <1>5, <1>6, <1>7 DEF m, P, B, blank, no, f, g, to, Plane, Flags

LEMMA ScrollUpSound ==
  ASSUME NEW c, NEW r, NEW l, IsSize(c, r, l), NEW s, Sound(s, c, r, l),
         NEW count \in Int, NEW t, t = ScrollUp(s, count)
  PROVE  Sound(t, c, r, l) /\ SameCursor(s, t)
  <1> DEFINE n == Clamp(count, 1, s.bottom - s.top + 1)
  <1>1. n \in 1..r /\ n \in Nat /\ n \in 0..r /\ s.top \in Nat
    <2>1. n \in 1..r /\ s.top \in 0..(r - 1) /\ r \in Nat
      BY RegionIs DEF IsSize
    <2> HIDE DEF n
    <2>2. QED
      BY <2>1
  <1> HIDE DEF n
  <1>2. IsScreen(s) /\ Sized(s, c, r, l)
    BY DEF Sound, Sized
  <1>3. /\ IsScreen(t) /\ SameSize(s, t) /\ SameCursor(s, t) /\ SameRegion(s, t) /\ SameTabs(s, t)
        /\ t.lines = CloseGap(s.lines, s.top, s.bottom, n, BlankLine(s.columns))
        /\ t.wrapped = CloseGap(s.wrapped, s.top, s.bottom, n, FALSE)
        /\ t.history = IF FullRegion(s) THEN Pushed(s, n) ELSE s.history
    BY <1>2, ScrollUpIs DEF n
  <1>4. t.lines \in Plane(c, r) /\ t.wrapped \in Flags(r)
    BY <1>1, <1>3, GapsGood
  <1>5. t.history \in Seq(Line(c)) /\ Len(t.history) <= l
    <2>1. Pushed(s, n) \in Seq(Line(c)) /\ Len(Pushed(s, n)) <= l
      BY <1>1, <1>2, PushedIs
    <2>2. s.history \in Seq(Line(c)) /\ Len(s.history) <= l
      BY <1>2 DEF Sized
    <2>3. QED
      BY <1>3, <2>1, <2>2
  <1>6. t.row = s.row /\ t.column \in 0..(c - 1) /\ t.pendingWrap \in BOOLEAN
    BY <1>3 DEF SameCursor, Sound, Sized
  <1>7. QED
    BY <1>3, <1>4, <1>5, <1>6, ShiftedSound

LEMMA ScrollDownSound ==
  ASSUME NEW c, NEW r, NEW l, IsSize(c, r, l), NEW s, Sound(s, c, r, l),
         NEW count \in Int, NEW t, t = ScrollDown(s, count)
  PROVE  Sound(t, c, r, l) /\ SameCursor(s, t)
  <1> DEFINE n == Clamp(count, 1, s.bottom - s.top + 1)
  <1>1. n \in 1..r /\ n \in Nat /\ n \in 0..r /\ s.top \in Nat
    <2>1. n \in 1..r /\ s.top \in 0..(r - 1) /\ r \in Nat
      BY RegionIs DEF IsSize
    <2> HIDE DEF n
    <2>2. QED
      BY <2>1
  <1> HIDE DEF n
  <1>2. IsScreen(s) /\ Sized(s, c, r, l)
    BY DEF Sound, Sized
  <1>3. /\ IsScreen(t) /\ SameSize(s, t) /\ SameCursor(s, t) /\ SameRegion(s, t) /\ SameTabs(s, t)
        /\ t.lines = OpenGap(s.lines, s.top, s.bottom, n, BlankLine(s.columns))
        /\ t.wrapped = OpenGap(s.wrapped, s.top, s.bottom, n, FALSE)
        /\ t.history = s.history
    BY <1>2, ScrollDownIs DEF n
  <1>4. t.lines \in Plane(c, r) /\ t.wrapped \in Flags(r)
    BY <1>1, <1>3, GapsGood
  <1>5. t.history \in Seq(Line(c)) /\ Len(t.history) <= l
    BY <1>2, <1>3 DEF Sized
  <1>6. t.row = s.row /\ t.column \in 0..(c - 1) /\ t.pendingWrap \in BOOLEAN
    BY <1>3 DEF SameCursor, Sound, Sized
  <1>7. QED
    BY <1>3, <1>4, <1>5, <1>6, ShiftedSound

(* The cursor goes to another row, or stays, and no wrap is pending. *)
AtRow(s, row, t) ==
  /\ IsScreen(t) /\ SameSize(s, t) /\ SameText(s, t) /\ SameRegion(s, t) /\ SameTabs(s, t)
  /\ t.row = row /\ t.column = s.column /\ t.pendingWrap = FALSE

LEMMA AtRowGood ==
  ASSUME NEW c, NEW r, NEW l, IsSize(c, r, l), NEW s, Sound(s, c, r, l),
         NEW row \in 0..(r - 1), NEW t, AtRow(s, row, t)
  PROVE  Good(t, c, r, l)
  <1>1. row \in Int
    BY DEF IsSize
  <1>2. t.row \in Int /\ t.pendingWrap \in BOOLEAN
    BY <1>1 DEF AtRow
  <1>3. Sized(t, c, r, l)
    BY <1>2 DEF Sized, Sound, SameSize, SameText, SameRegion, SameTabs, AtRow
  <1>4. QED
    BY <1>3 DEF Good, Sound, SameRegion, SameTabs, AtRow

LEMMA IndexIs ==
  ASSUME NEW s, IsScreen(s), NEW t, t = Index(s)
  PROVE  IF s.row = s.bottom
         THEN LET u == ScrollUp(s, 1) IN IsScreen(u) => AtRow(u, u.row, t)
         ELSE AtRow(s, IF s.row < LastRow(s) THEN s.row + 1 ELSE s.row, t)
  <1>1. CASE s.row = s.bottom
    <2> DEFINE u == ScrollUp(s, 1)
    <2>1. t = [u EXCEPT !.pendingWrap = FALSE]
      BY <1>1 DEF Index
    <2> HIDE DEF u
    <2>2. IsScreen(u) => AtRow(u, u.row, t)
      BY <2>1 DEF IsScreen, AtRow, SameSize, SameText, SameRegion, SameTabs
    <2>3. QED
      BY <1>1, <2>2 DEF u
  <1>2. CASE s.row # s.bottom
    <2> DEFINE row == IF s.row < LastRow(s) THEN s.row + 1 ELSE s.row
               u == [s EXCEPT !.row = row]
    <2>1. t = [u EXCEPT !.pendingWrap = FALSE]
      BY <1>2 DEF Index
    <2> HIDE DEF row
    <2>2. AtRow(s, row, t)
      BY <2>1 DEF IsScreen, AtRow, SameSize, SameText, SameRegion, SameTabs
    <2>3. QED
      BY <1>2, <2>2 DEF row
  <1>3. QED
    BY <1>1, <1>2

(* A line feed leaves a good screen, with the cursor in its column. *)
LEMMA IndexGood ==
  ASSUME NEW c, NEW r, NEW l, IsSize(c, r, l), NEW s, Sound(s, c, r, l), NEW t, t = Index(s)
  PROVE  Good(t, c, r, l) /\ t.column = s.column /\ ~t.pendingWrap
  <1>1. IsScreen(s) /\ s.row \in 0..(r - 1) /\ LastRow(s) = r - 1
    BY DEF Sound, Sized, LastRow
  <1>2. CASE s.row = s.bottom
    <2> DEFINE u == ScrollUp(s, 1)
    <2> HIDE DEF u
    <2>1. Sound(u, c, r, l) /\ SameCursor(s, u)
      BY ScrollUpSound DEF u
    <2>2. AtRow(u, u.row, t)
      BY <1>1, <1>2, <2>1, IndexIs DEF u, Sound, Sized
    <2>3. u.row \in 0..(r - 1)
      BY <2>1 DEF Sound
    <2>4. Good(t, c, r, l)
      BY <2>1, <2>2, <2>3, AtRowGood
    <2>5. QED
      BY <2>1, <2>2, <2>4 DEF SameCursor, AtRow
  <1>3. CASE s.row # s.bottom
    <2> DEFINE row == IF s.row < LastRow(s) THEN s.row + 1 ELSE s.row
    <2>1. row \in 0..(r - 1)
      BY <1>1 DEF IsSize
    <2>2. AtRow(s, row, t)
      BY <1>1, <1>3, IndexIs
    <2> HIDE DEF row
    <2>3. Good(t, c, r, l)
      BY <2>1, <2>2, AtRowGood
    <2>4. QED
      BY <2>2, <2>3 DEF AtRow
  <1>4. QED
    BY <1>2, <1>3

LEMMA ReverseIndexIs ==
  ASSUME NEW s, IsScreen(s), NEW t, t = ReverseIndex(s)
  PROVE  IF s.row = s.top
         THEN LET u == ScrollDown(s, 1) IN IsScreen(u) => AtRow(u, u.row, t)
         ELSE AtRow(s, IF s.row > 0 THEN s.row - 1 ELSE s.row, t)
  <1>1. CASE s.row = s.top
    <2> DEFINE u == ScrollDown(s, 1)
    <2>1. t = [u EXCEPT !.pendingWrap = FALSE]
      BY <1>1 DEF ReverseIndex
    <2> HIDE DEF u
    <2>2. IsScreen(u) => AtRow(u, u.row, t)
      BY <2>1 DEF IsScreen, AtRow, SameSize, SameText, SameRegion, SameTabs
    <2>3. QED
      BY <1>1, <2>2 DEF u
  <1>2. CASE s.row # s.top
    <2> DEFINE row == IF s.row > 0 THEN s.row - 1 ELSE s.row
               u == [s EXCEPT !.row = row]
    <2>1. t = [u EXCEPT !.pendingWrap = FALSE]
      BY <1>2 DEF ReverseIndex
    <2> HIDE DEF row
    <2>2. AtRow(s, row, t)
      BY <2>1 DEF IsScreen, AtRow, SameSize, SameText, SameRegion, SameTabs
    <2>3. QED
      BY <1>2, <2>2 DEF row
  <1>3. QED
    BY <1>1, <1>2

LEMMA ReverseIndexGood ==
  ASSUME NEW c, NEW r, NEW l, IsSize(c, r, l), NEW s, Sound(s, c, r, l), NEW t, t = ReverseIndex(s)
  PROVE  Good(t, c, r, l)
  <1>1. IsScreen(s) /\ s.row \in 0..(r - 1)
    BY DEF Sound, Sized
  <1>2. CASE s.row = s.top
    <2> DEFINE u == ScrollDown(s, 1)
    <2> HIDE DEF u
    <2>1. Sound(u, c, r, l) /\ SameCursor(s, u)
      BY ScrollDownSound DEF u
    <2>2. AtRow(u, u.row, t)
      BY <1>1, <1>2, <2>1, ReverseIndexIs DEF u, Sound, Sized
    <2>3. u.row \in 0..(r - 1)
      BY <2>1 DEF Sound
    <2>4. QED
      BY <2>1, <2>2, <2>3, AtRowGood
  <1>3. CASE s.row # s.top
    <2> DEFINE row == IF s.row > 0 THEN s.row - 1 ELSE s.row
    <2>1. row \in 0..(r - 1)
      BY <1>1 DEF IsSize
    <2>2. AtRow(s, row, t)
      BY <1>1, <1>3, ReverseIndexIs
    <2> HIDE DEF row
    <2>3. QED
      BY <2>1, <2>2, AtRowGood
  <1>4. QED
    BY <1>2, <1>3

(* The cursor goes anywhere on a sound screen. *)
LEMMA MovedGood ==
  ASSUME NEW c, NEW r, NEW l, IsSize(c, r, l), NEW s, Sound(s, c, r, l),
         NEW row \in Int, NEW column \in Int
  PROVE  Good(MoveCursor(s, row, column), c, r, l)
  BY MoveCursorGood DEF Sound

LEMMA CarriageReturnGood ==
  ASSUME NEW c, NEW r, NEW l, IsSize(c, r, l), NEW s, Sound(s, c, r, l)
  PROVE  /\ Good(CarriageReturn(s), c, r, l)
         /\ \A x \in Int : Good(SetColumn(s, x), c, r, l)
         /\ \A x \in Int : Good(SetRow(s, x), c, r, l)
  <1>1. s.row \in Int /\ s.column \in Int /\ 0 \in Int
    BY DEF Sound, Sized
  <1>2. ASSUME NEW x \in Int PROVE Good(SetColumn(s, x), c, r, l)
    BY <1>1, MovedGood DEF SetColumn
  <1>3. ASSUME NEW x \in Int PROVE Good(SetRow(s, x), c, r, l)
    BY <1>1, MovedGood DEF SetRow
  <1>4. QED
    BY <1>1, <1>2, <1>3 DEF CarriageReturn

LEMMA NextLineGood ==
  ASSUME NEW c, NEW r, NEW l, IsSize(c, r, l), NEW s, Sound(s, c, r, l)
  PROVE  Good(NextLine(s), c, r, l)
  <1>1. Sound(CarriageReturn(s), c, r, l)
    BY CarriageReturnGood DEF Good
  <1>2. QED
    BY <1>1, IndexGood DEF NextLine

(* New margins; the cursor is moved by the caller. *)
LEMMA SetRegionIs ==
  ASSUME NEW s, IsScreen(s), NEW top, NEW bottom, NEW t, t = SetRegion(s, top, bottom),
         NEW a, a = Clamp(top, 0, LastRow(s)), NEW b, b = Clamp(bottom, 0, LastRow(s))
  PROVE  /\ IsScreen(t) /\ SameSize(s, t) /\ SameText(s, t) /\ SameCursor(s, t) /\ SameTabs(s, t)
         /\ t.top = IF a >= b THEN 0 ELSE a
         /\ t.bottom = IF a >= b THEN LastRow(s) ELSE b
  <1>1. t = IF a >= b THEN [s EXCEPT !.top = 0, !.bottom = LastRow(s)]
            ELSE [s EXCEPT !.top = a, !.bottom = b]
    BY DEF SetRegion
  <1>2. CASE a >= b
    BY <1>1, <1>2 DEF IsScreen, SameSize, SameText, SameCursor, SameTabs
  <1>3. CASE ~(a >= b)
    BY <1>1, <1>3 DEF IsScreen, SameSize, SameText, SameCursor, SameTabs
  <1>4. QED
    BY <1>2, <1>3

LEMMA ResetRegionIs ==
  ASSUME NEW s, IsScreen(s), NEW t, t = ResetRegion(s)
  PROVE  /\ IsScreen(t) /\ SameSize(s, t) /\ SameText(s, t) /\ SameCursor(s, t) /\ SameTabs(s, t)
         /\ t.top = 0 /\ t.bottom = LastRow(s)
  BY DEF ResetRegion, IsScreen, SameSize, SameText, SameCursor, SameTabs

LEMMA RegionSound ==
  ASSUME NEW c, NEW r, NEW l, IsSize(c, r, l), NEW s, Sound(s, c, r, l),
         NEW t, IsScreen(t), SameSize(s, t), SameText(s, t), SameCursor(s, t), SameTabs(s, t),
         t.top \in Int, t.bottom \in Int, Region(t.top, t.bottom, r)
  PROVE  Sound(t, c, r, l)
  BY DEF Sound, Sized, SameSize, SameText, SameCursor, SameTabs

LEMMA SetRegionSound ==
  ASSUME NEW c, NEW r, NEW l, IsSize(c, r, l), NEW s, Sound(s, c, r, l),
         NEW top \in Int, NEW bottom \in Int, NEW t, t = SetRegion(s, top, bottom)
  PROVE  Sound(t, c, r, l)
  <1> DEFINE m == r - 1
             a == Clamp(top, 0, m)
             b == Clamp(bottom, 0, m)
  <1>1. IsScreen(s) /\ LastRow(s) = m
    BY DEF Sound, Sized, LastRow
  <1>2. m \in Nat /\ m \in Int /\ 0 \in Int /\ 0 <= m
    BY DEF IsSize
  <1> HIDE DEF m
  <1>3. a \in 0..m
    BY <1>2, ClampIs
  <1>4. b \in 0..m
    BY <1>2, ClampIs
  <1> HIDE DEF a, b
  <1>5. /\ IsScreen(t) /\ SameSize(s, t) /\ SameText(s, t) /\ SameCursor(s, t) /\ SameTabs(s, t)
        /\ t.top = IF a >= b THEN 0 ELSE a
        /\ t.bottom = IF a >= b THEN m ELSE b
    BY <1>1, SetRegionIs DEF a, b
  <1>6. t.top \in Int /\ t.bottom \in Int /\ Region(t.top, t.bottom, r)
    <2>1. CASE a >= b
      BY <1>2, <1>5, <2>1 DEF Region, m
    <2>2. CASE ~(a >= b)
      <3>1. t.top = a /\ t.bottom = b
        BY <1>5, <2>2
      <3>2. QED
        BY <1>2, <1>3, <1>4, <2>2, <3>1 DEF Region, m
    <2>3. QED
      BY <2>1, <2>2
  <1>7. QED
    BY <1>5, <1>6, RegionSound

LEMMA ResetRegionSound ==
  ASSUME NEW c, NEW r, NEW l, IsSize(c, r, l), NEW s, Sound(s, c, r, l), NEW t, t = ResetRegion(s)
  PROVE  Sound(t, c, r, l)
  <1>1. IsScreen(s) /\ LastRow(s) = r - 1 /\ r - 1 \in Int
    BY DEF Sound, Sized, LastRow, IsSize
  <1>2. /\ IsScreen(t) /\ SameSize(s, t) /\ SameText(s, t) /\ SameCursor(s, t) /\ SameTabs(s, t)
        /\ t.top = 0 /\ t.bottom = r - 1
    BY <1>1, ResetRegionIs
  <1>3. t.top \in Int /\ t.bottom \in Int /\ Region(t.top, t.bottom, r)
    BY <1>1, <1>2 DEF Region
  <1>4. QED
    BY <1>2, <1>3, RegionSound

-----------------------------------------------------------------------------
(***************************************************************************)
(* Writing.                                                                *)
(***************************************************************************)
LEMMA CellWritten ==
  ASSUME NEW c \in Nat, NEW line \in Line(c), NEW i \in Int, NEW x \in Cells
  PROVE  [line EXCEPT ![i] = x] \in Line(c)
  BY DEF Line

LEMMA CellsAre ==
  /\ "blank" \in Cells /\ "narrow" \in Cells /\ "lead" \in Cells /\ "trail" \in Cells
  /\ \A x \in Cells : x \in {"blank", "narrow", "lead", "trail"}
  BY DEF Cells

LEMMA BlankPartnerIs ==
  ASSUME NEW c \in Nat, NEW line \in Line(c), NEW i \in Int
  PROVE  BlankPartner(line, i) \in Line(c)
  <1> DEFINE b == "blank"
  <1>1. b \in Cells /\ i - 1 \in Int /\ i + 1 \in Int
    BY CellsAre
  <1> HIDE DEF b
  <1>2. [line EXCEPT ![i - 1] = b] \in Line(c)
    BY <1>1 DEF Line
  <1>3. [line EXCEPT ![i + 1] = b] \in Line(c)
    BY <1>1 DEF Line
  <1>4. QED
    BY <1>2, <1>3 DEF BlankPartner, b

LEMMA PlacedIs ==
  ASSUME NEW c \in Nat, NEW line \in Line(c), NEW i \in Int, NEW width
  PROVE  Placed(line, i, width) \in Line(c)
  <1> DEFINE p == BlankPartner(line, i)
             q == BlankPartner(p, i + 1)
             lead == "lead"
             trail == "trail"
             narrow == "narrow"
  <1>1. p \in Line(c) /\ i + 1 \in Int
    BY BlankPartnerIs
  <1>2. q \in Line(c)
    <2> HIDE DEF p
    <2>1. QED
      BY <1>1, BlankPartnerIs
  <1>3. lead \in Cells /\ trail \in Cells /\ narrow \in Cells
    BY CellsAre
  <1>4. Placed(line, i, width) = IF width = 2 THEN [q EXCEPT ![i] = lead, ![i + 1] = trail]
                                 ELSE [p EXCEPT ![i] = narrow]
    BY DEF Placed
  <1> HIDE DEF p, q, lead, trail, narrow
  <1>5. [q EXCEPT ![i] = lead, ![i + 1] = trail] \in Line(c)
    BY <1>2, <1>3 DEF Line
  <1>6. [p EXCEPT ![i] = narrow] \in Line(c)
    BY <1>1, <1>3 DEF Line
  <1>7. QED
    BY <1>4, <1>5, <1>6

(* The line is marked as going on in the next, and the cursor goes there. *)
Marked(s) == [s EXCEPT !.wrapped[s.row] = TRUE, !.column = 0]

LEMMA MarkedIs ==
  ASSUME NEW s, IsScreen(s), NEW t, t = Marked(s)
  PROVE  /\ IsScreen(t) /\ SameSize(s, t) /\ SameRegion(s, t) /\ SameTabs(s, t)
         /\ t.lines = s.lines /\ t.history = s.history
         /\ t.wrapped = [s.wrapped EXCEPT ![s.row] = TRUE]
         /\ t.row = s.row /\ t.column = 0 /\ t.pendingWrap = s.pendingWrap
  BY DEF IsScreen, Marked, SameSize, SameRegion, SameTabs

LEMMA MarkedSound ==
  ASSUME NEW c, NEW r, NEW l, IsSize(c, r, l), NEW s, Sound(s, c, r, l), NEW t, t = Marked(s)
  PROVE  Sound(t, c, r, l) /\ t.column = 0
  <1>1. IsScreen(s) /\ s.wrapped \in Flags(r) /\ s.lines \in Plane(c, r)
    BY DEF Sound, Sized
  <1>2. /\ IsScreen(t) /\ SameSize(s, t) /\ SameRegion(s, t) /\ SameTabs(s, t)
        /\ t.lines = s.lines /\ t.history = s.history
        /\ t.wrapped = [s.wrapped EXCEPT ![s.row] = TRUE]
        /\ t.row = s.row /\ t.column = 0 /\ t.pendingWrap = s.pendingWrap
    BY <1>1, MarkedIs
  <1>3. t.wrapped \in Flags(r)
    BY <1>1, <1>2 DEF Flags
  <1>4. t.column \in 0..(c - 1) /\ t.pendingWrap \in BOOLEAN
    BY <1>2 DEF IsSize, Sound, Sized
  <1>5. t.history \in Seq(Line(c)) /\ Len(t.history) <= l
    BY <1>2 DEF Sound, Sized
  <1>6. QED
    BY <1>1, <1>2, <1>3, <1>4, <1>5, ShiftedSound

LEMMA WrapLineGood ==
  ASSUME NEW c, NEW r, NEW l, IsSize(c, r, l), NEW s, Sound(s, c, r, l)
  PROVE  /\ Good(WrapLine(s), c, r, l)
         /\ WrapLine(s).column = 0 /\ ~WrapLine(s).pendingWrap
  <1>1. PICK u : u = Marked(s)
    OBVIOUS
  <1>2. PICK t : t = Index(u)
    OBVIOUS
  <1>3. WrapLine(s) = t
    BY <1>1, <1>2 DEF WrapLine, Marked
  <1>4. Sound(u, c, r, l) /\ u.column = 0
    BY <1>1, MarkedSound
  <1>5. Good(t, c, r, l) /\ t.column = u.column /\ ~t.pendingWrap
    BY <1>2, <1>4, IndexGood
  <1>6. QED
    BY <1>3, <1>4, <1>5

(* The cursor's line and the cell the glyph is put into. *)
LineBefore(s, width, insertMode) ==
  IF insertMode THEN OpenGap(s.lines[s.row], s.column, LastColumn(s), width, "blank")
  ELSE s.lines[s.row]

LEMMA WriteAtCursorIs ==
  ASSUME NEW s, IsScreen(s), NEW width, NEW insertMode, NEW t, t = WriteAtCursor(s, width, insertMode)
  PROVE  /\ IsScreen(t) /\ SameSize(s, t) /\ SameRegion(s, t) /\ SameTabs(s, t)
         /\ t.wrapped = s.wrapped /\ t.history = s.history /\ t.row = s.row
         /\ t.lines = [s.lines EXCEPT ![s.row] = Placed(LineBefore(s, width, insertMode), s.column, width)]
         /\ t.column = Least(s.column + width, LastColumn(s))
         /\ t.pendingWrap = (s.column + width >= s.columns)
  <1> DEFINE new == Placed(LineBefore(s, width, insertMode), s.column, width)
             column == Least(s.column + width, LastColumn(s))
             pending == (s.column + width >= s.columns)
  <1>1. t = [s EXCEPT !.lines[s.row] = new, !.column = column, !.pendingWrap = pending]
    BY DEF WriteAtCursor, LineBefore
  <1> HIDE DEF new, column, pending
  <1>2. /\ IsScreen(t) /\ SameSize(s, t) /\ SameRegion(s, t) /\ SameTabs(s, t)
        /\ t.wrapped = s.wrapped /\ t.history = s.history /\ t.row = s.row
        /\ t.lines = [s.lines EXCEPT ![s.row] = new]
        /\ t.column = column /\ t.pendingWrap = pending
    BY <1>1 DEF IsScreen, SameSize, SameRegion, SameTabs
  <1>3. QED
    BY <1>2 DEF new, column, pending

LEMMA LineBeforeIs ==
  ASSUME NEW c, NEW r, NEW l, IsSize(c, r, l), NEW s, Sound(s, c, r, l),
         NEW width \in {1, 2}, NEW insertMode \in BOOLEAN
  PROVE  LineBefore(s, width, insertMode) \in Line(c)
  <1> DEFINE m == c - 1
             line == s.lines[s.row]
             b == "blank"
             from == s.column
  <1>1. line \in Line(c) /\ LastColumn(s) = m /\ b \in Cells
    BY CellsAre DEF Sound, Sized, Plane, LastColumn
  <1>2. m \in Int /\ from \in Nat /\ m <= m /\ width \in Nat
    BY DEF IsSize, Sound
  <1>3. LineBefore(s, width, insertMode) = IF insertMode THEN OpenGap(line, from, m, width, b) ELSE line
    BY <1>1 DEF LineBefore
  <1> HIDE DEF line, m, b, from
  <1>4. line \in [0..m -> Cells]
    BY <1>1 DEF Line, m
  <1>5. OpenGap(line, from, m, width, b) \in [0..m -> Cells]
    BY <1>1, <1>2, <1>4, GapOpened
  <1>6. QED
    BY <1>1, <1>3, <1>5 DEF Line, m

LEMMA WriteAtCursorGood ==
  ASSUME NEW c, NEW r, NEW l, IsSize(c, r, l), NEW s, Sound(s, c, r, l),
         NEW width \in {1, 2}, NEW insertMode \in BOOLEAN
  PROVE  Good(WriteAtCursor(s, width, insertMode), c, r, l)
  <1> DEFINE t == WriteAtCursor(s, width, insertMode)
             line == LineBefore(s, width, insertMode)
             new == Placed(line, s.column, width)
  <1>1. IsScreen(s) /\ s.lines \in Plane(c, r) /\ s.row \in 0..(r - 1) /\ s.column \in 0..(c - 1)
    BY DEF Sound, Sized
  <1>2. LastColumn(s) = c - 1 /\ s.columns = c /\ c \in Nat /\ r \in Nat /\ c >= 1
    BY DEF Sound, Sized, LastColumn, IsSize
  <1>3. line \in Line(c) /\ s.column \in Int
    BY <1>1, LineBeforeIs
  <1>4. new \in Line(c)
    <2> HIDE DEF line
    <2>1. QED
      BY <1>2, <1>3, PlacedIs
  <1> HIDE DEF t, line, new
  <1>5. /\ IsScreen(t) /\ SameSize(s, t) /\ SameRegion(s, t) /\ SameTabs(s, t)
        /\ t.wrapped = s.wrapped /\ t.history = s.history /\ t.row = s.row
        /\ t.lines = [s.lines EXCEPT ![s.row] = new]
        /\ t.column = Least(s.column + width, c - 1)
        /\ t.pendingWrap = (s.column + width >= c)
    BY <1>1, <1>2, WriteAtCursorIs DEF t, new, line
  <1>6. t.lines \in Plane(c, r)
    BY <1>1, <1>2, <1>4, <1>5 DEF Plane
  <1>7. /\ t.column \in 0..(c - 1) /\ t.pendingWrap \in BOOLEAN
        /\ t.pendingWrap => t.column = c - 1
    <2>1. s.column + width \in Int /\ s.column + width >= 0 /\ s.column \in Int
      BY <1>1, <1>2
    <2>2. (s.column + width >= c) \in BOOLEAN
      OBVIOUS
    <2>3. Least(s.column + width, c - 1) \in 0..(c - 1)
      BY <1>2, <2>1 DEF Least
    <2>4. s.column + width >= c => Least(s.column + width, c - 1) = c - 1
      BY <1>2, <2>1 DEF Least
    <2>5. QED
      BY <1>5, <2>2, <2>3, <2>4
  <1>8. t.wrapped \in Flags(r) /\ t.history \in Seq(Line(c)) /\ Len(t.history) <= l
    BY <1>5 DEF Sound, Sized
  <1>9. Sound(t, c, r, l)
    BY <1>5, <1>6, <1>7, <1>8, ShiftedSound
  <1>10. QED
    BY <1>7, <1>9 DEF Good, t

(* The screen a glyph is written on, after the wraps it needs. *)
Wrapped(s, autoWrap) == IF s.pendingWrap /\ autoWrap THEN WrapLine(s) ELSE s

Straddles(s, width) == width = 2 /\ s.column = LastColumn(s)

Ready(s, width, autoWrap) ==
  LET w == Wrapped(s, autoWrap) IN IF Straddles(w, width) THEN WrapLine(w) ELSE w

LEMMA WriteCharacterIs ==
  ASSUME NEW s, NEW width, NEW insertMode, NEW autoWrap,
         LastColumn(Wrapped(s, autoWrap)) = LastColumn(s)
  PROVE  WriteCharacter(s, width, insertMode, autoWrap) =
           IF Straddles(Wrapped(s, autoWrap), width) /\ ~autoWrap THEN Wrapped(s, autoWrap)
           ELSE WriteAtCursor(Ready(s, width, autoWrap), width, insertMode)
  <1> DEFINE w == Wrapped(s, autoWrap)
             v == Ready(s, width, autoWrap)
  <1>1. v = IF Straddles(w, width) THEN WrapLine(w) ELSE w
    BY DEF Ready
  <1>2. WriteCharacter(s, width, insertMode, autoWrap) =
          IF (width = 2 /\ w.column = LastColumn(s)) /\ ~autoWrap THEN w
          ELSE WriteAtCursor(IF width = 2 /\ w.column = LastColumn(s) THEN WrapLine(w) ELSE w,
                             width, insertMode)
    BY DEF WriteCharacter, Wrapped
  <1>3. LastColumn(w) = LastColumn(s)
    OBVIOUS
  <1> HIDE DEF w, v
  <1>4. WriteCharacter(s, width, insertMode, autoWrap) =
          IF Straddles(w, width) /\ ~autoWrap THEN w ELSE WriteAtCursor(v, width, insertMode)
    BY <1>1, <1>2, <1>3 DEF Straddles
  <1>5. QED
    BY <1>4 DEF w, v

LEMMA ReadyGood ==
  ASSUME NEW c, NEW r, NEW l, IsSize(c, r, l), NEW s, Good(s, c, r, l),
         NEW width \in {1, 2}, NEW autoWrap \in BOOLEAN
  PROVE  /\ Good(Wrapped(s, autoWrap), c, r, l)
         /\ Good(Ready(s, width, autoWrap), c, r, l)
         /\ c # 1 => ~Straddles(Ready(s, width, autoWrap), width)
  <1> DEFINE w == Wrapped(s, autoWrap)
  <1>1. Good(w, c, r, l)
    BY WrapLineGood DEF Good, Wrapped
  <1> HIDE DEF w
  <1>2. Ready(s, width, autoWrap) = IF Straddles(w, width) THEN WrapLine(w) ELSE w
    BY DEF Ready, w
  <1>3. CASE Straddles(w, width)
    <2> DEFINE v == WrapLine(w)
    <2>1. Good(v, c, r, l) /\ v.column = 0
      BY <1>1, WrapLineGood DEF Good
    <2> HIDE DEF v
    <2>2. LastColumn(v) = c - 1 /\ c \in Nat
      BY <2>1 DEF Good, Sound, Sized, LastColumn, IsSize
    <2>3. c # 1 => ~Straddles(v, width)
      BY <2>1, <2>2 DEF Straddles
    <2>4. QED
      BY <1>1, <1>2, <1>3, <2>1, <2>3 DEF v, w
  <1>4. CASE ~Straddles(w, width)
    BY <1>1, <1>2, <1>4 DEF w
  <1>5. QED
    BY <1>3, <1>4

LEMMA WriteCharacterGood ==
  ASSUME NEW c, NEW r, NEW l, IsSize(c, r, l), NEW s, Good(s, c, r, l),
         NEW width \in {1, 2}, NEW insertMode \in BOOLEAN, NEW autoWrap \in BOOLEAN
  PROVE  Good(WriteCharacter(s, width, insertMode, autoWrap), c, r, l)
  <1> DEFINE w == Wrapped(s, autoWrap)
             v == Ready(s, width, autoWrap)
  <1>1. Good(w, c, r, l) /\ Good(v, c, r, l)
    BY ReadyGood
  <1> HIDE DEF w, v
  <1>2. Good(WriteAtCursor(v, width, insertMode), c, r, l)
    BY <1>1, WriteAtCursorGood DEF Good
  <1>3. LastColumn(w) = LastColumn(s)
    BY <1>1 DEF Good, Sound, Sized, LastColumn
  <1>4. QED
    BY <1>1, <1>2, <1>3, WriteCharacterIs DEF w, v

(* A combining mark. *)
MarkedColumn(s) == IF s.pendingWrap THEN s.column ELSE s.column - 1

LEMMA CombineIs ==
  ASSUME NEW s, IsScreen(s), NEW t, t = Combine(s)
  PROVE  IF MarkedColumn(s) >= 0 /\ s.lines[s.row][MarkedColumn(s)] = "blank"
         THEN /\ IsScreen(t) /\ SameSize(s, t) /\ SameRegion(s, t) /\ SameTabs(s, t) /\ SameCursor(s, t)
              /\ t.wrapped = s.wrapped /\ t.history = s.history
              /\ t.lines = [s.lines EXCEPT ![s.row] =
                              [s.lines[s.row] EXCEPT ![MarkedColumn(s)] = "narrow"]]
         ELSE t = s
  <1> DEFINE k == MarkedColumn(s)
  <1>1. t = IF k >= 0 /\ s.lines[s.row][k] = "blank"
            THEN [s EXCEPT !.lines[s.row][k] = "narrow"] ELSE s
    BY DEF Combine, MarkedColumn
  <1> HIDE DEF k
  <1>2. CASE k >= 0 /\ s.lines[s.row][k] = "blank"
    <2> DEFINE new == [s.lines EXCEPT ![s.row] = [s.lines[s.row] EXCEPT ![k] = "narrow"]]
    <2>1. [s EXCEPT !.lines[s.row][k] = "narrow"] = [s EXCEPT !.lines = new]
      BY DEF IsScreen
    <2> HIDE DEF new
    <2>2. /\ IsScreen(t) /\ SameSize(s, t) /\ SameRegion(s, t) /\ SameTabs(s, t) /\ SameCursor(s, t)
          /\ t.wrapped = s.wrapped /\ t.history = s.history /\ t.lines = new
      BY <1>1, <1>2, <2>1 DEF IsScreen, SameSize, SameRegion, SameTabs, SameCursor
    <2>3. QED
      BY <1>2, <2>2 DEF k, new
  <1>3. CASE ~(k >= 0 /\ s.lines[s.row][k] = "blank")
    BY <1>1, <1>3 DEF k
  <1>4. QED
    BY <1>2, <1>3

LEMMA CombineGood ==
  ASSUME NEW c, NEW r, NEW l, IsSize(c, r, l), NEW s, Good(s, c, r, l)
  PROVE  Good(Combine(s), c, r, l)
  <1> DEFINE t == Combine(s)
             k == MarkedColumn(s)
             line == s.lines[s.row]
             narrow == "narrow"
  <1>1. /\ IsScreen(s) /\ Sound(s, c, r, l) /\ s.lines \in Plane(c, r) /\ s.row \in 0..(r - 1)
        /\ line \in Line(c) /\ c \in Nat /\ r \in Nat /\ narrow \in Cells
    BY CellsAre DEF Good, Sound, Sized, Plane, IsSize
  <1>2. k \in Int
    BY DEF MarkedColumn, Good, Sound, Sized
  <1> HIDE DEF t, k
  <1>3. CASE k >= 0 /\ line[k] = "blank"
    <2>1. /\ IsScreen(t) /\ SameSize(s, t) /\ SameRegion(s, t) /\ SameTabs(s, t) /\ SameCursor(s, t)
          /\ t.wrapped = s.wrapped /\ t.history = s.history
          /\ t.lines = [s.lines EXCEPT ![s.row] = [line EXCEPT ![k] = narrow]]
      BY <1>1, <1>3, CombineIs DEF t, k
    <2> HIDE DEF line, narrow
    <2> DEFINE new == [line EXCEPT ![k] = narrow]
    <2>2. new \in Line(c)
      BY <1>1, <1>2, CellWritten
    <2> HIDE DEF new
    <2>3. t.lines \in Plane(c, r)
      BY <1>1, <2>1, <2>2 DEF Plane, new
    <2>4. t.row = s.row /\ t.column \in 0..(c - 1) /\ t.pendingWrap \in BOOLEAN
      BY <2>1 DEF SameCursor, Good, Sound, Sized
    <2>5. t.wrapped \in Flags(r) /\ t.history \in Seq(Line(c)) /\ Len(t.history) <= l
      BY <2>1 DEF Good, Sound, Sized
    <2>6. Sound(t, c, r, l)
      BY <1>1, <2>1, <2>3, <2>4, <2>5, ShiftedSound
    <2>7. QED
      BY <2>1, <2>6 DEF Good, SameCursor, t
  <1>4. CASE ~(k >= 0 /\ line[k] = "blank")
    <2>1. t = s
      BY <1>1, <1>4, CombineIs DEF t, k
    <2>2. QED
      BY <2>1 DEF t
  <1>5. QED
    BY <1>3, <1>4

-----------------------------------------------------------------------------
(***************************************************************************)
(* Erasing and editing.                                                    *)
(***************************************************************************)
(* The cells of some rows change, and no wrap is pending. *)
LEMMA EditedGood ==
  ASSUME NEW c, NEW r, NEW l, IsSize(c, r, l), NEW s, Sound(s, c, r, l),
         NEW t, IsScreen(t), SameSize(s, t), SameRegion(s, t), SameTabs(s, t),
         t.row = s.row, t.column = s.column \/ t.column = 0, t.pendingWrap = FALSE,
         t.lines \in Plane(c, r), t.wrapped \in Flags(r), t.history = s.history
  PROVE  Good(t, c, r, l)
  <1>1. t.column \in 0..(c - 1) /\ t.pendingWrap \in BOOLEAN
    <2>1. s.column \in 0..(c - 1) /\ 0 \in 0..(c - 1)
      BY DEF Sound, IsSize
    <2>2. t.column \in 0..(c - 1)
      BY <2>1
    <2>3. QED
      BY <2>2
  <1>2. t.history \in Seq(Line(c)) /\ Len(t.history) <= l
    BY DEF Sound, Sized
  <1>3. Sound(t, c, r, l)
    BY <1>1, <1>2, ShiftedSound
  <1>4. QED
    BY <1>3 DEF Good

(* The cursor's line is replaced. *)
WithLine(s, new, t) ==
  /\ IsScreen(t) /\ SameSize(s, t) /\ SameRegion(s, t) /\ SameTabs(s, t)
  /\ t.row = s.row /\ t.column = s.column /\ t.pendingWrap = FALSE
  /\ t.lines = [s.lines EXCEPT ![s.row] = new]
  /\ t.history = s.history

LEMMA WithLineGood ==
  ASSUME NEW c, NEW r, NEW l, IsSize(c, r, l), NEW s, Sound(s, c, r, l),
         NEW new \in Line(c), NEW t, WithLine(s, new, t), t.wrapped \in Flags(r)
  PROVE  Good(t, c, r, l)
  <1>1. s.lines \in Plane(c, r) /\ r \in Nat
    BY DEF Sound, Sized, IsSize
  <1>2. t.lines \in Plane(c, r)
    BY <1>1 DEF Plane, WithLine
  <1>3. QED
    BY <1>2, EditedGood DEF WithLine

(* The line under the cursor, as an edit finds it. *)
LEMMA OwnLine ==
  ASSUME NEW c, NEW r, NEW l, IsSize(c, r, l), NEW s, Sound(s, c, r, l)
  PROVE  /\ s.lines[s.row] \in Line(c) /\ s.lines[s.row] \in [0..(c - 1) -> Cells]
         /\ c - 1 \in Int /\ LastColumn(s) = c - 1 /\ s.column \in Nat /\ s.columns = c
  BY DEF Sound, Sized, Plane, Line, LastColumn, IsSize

LEMMA LineFilled ==
  ASSUME NEW c, NEW r, NEW l, IsSize(c, r, l), NEW s, Sound(s, c, r, l), NEW a \in Int, NEW b \in Int
  PROVE  Filled(s.lines[s.row], a, b, "blank") \in Line(c)
  <1>1. PICK line \in [0..(c - 1) -> Cells] : line = s.lines[s.row]
    BY OwnLine
  <1>2. PICK m \in Int : m = c - 1
    BY OwnLine
  <1>3. PICK x \in Cells : x = "blank"
    BY CellsAre
  <1>4. Filled(line, a, b, x) \in [0..m -> Cells]
    BY <1>1, <1>2, <1>3, FilledIs
  <1>5. QED
    BY <1>1, <1>2, <1>3, <1>4 DEF Line

LEMMA LineShifted ==
  ASSUME NEW c, NEW r, NEW l, IsSize(c, r, l), NEW s, Sound(s, c, r, l), NEW n \in Nat
  PROVE  /\ OpenGap(s.lines[s.row], s.column, LastColumn(s), n, "blank") \in Line(c)
         /\ CloseGap(s.lines[s.row], s.column, LastColumn(s), n, "blank") \in Line(c)
  <1>1. PICK line \in [0..(c - 1) -> Cells] : line = s.lines[s.row]
    BY OwnLine
  <1>2. PICK m \in Int : m = c - 1
    BY OwnLine
  <1>3. PICK x \in Cells : x = "blank"
    BY CellsAre
  <1>4. PICK k \in Nat : k = s.column
    BY OwnLine
  <1>5. m <= m
    BY <1>2
  <1>6. OpenGap(line, k, m, n, x) \in [0..m -> Cells]
    BY <1>1, <1>2, <1>3, <1>5, GapOpened
  <1>7. CloseGap(line, k, m, n, x) \in [0..m -> Cells]
    BY <1>1, <1>2, <1>3, <1>5, GapClosed
  <1>8. LastColumn(s) = m
    BY <1>2, OwnLine
  <1>9. QED
    BY <1>1, <1>2, <1>3, <1>4, <1>6, <1>7, <1>8 DEF Line

LEMMA EraseInLineGood ==
  ASSUME NEW c, NEW r, NEW l, IsSize(c, r, l), NEW s, Sound(s, c, r, l), NEW mode
  PROVE  /\ Good(EraseInLine(s, mode), c, r, l)
         /\ EraseInLine(s, mode).row = s.row /\ EraseInLine(s, mode).column = s.column
         /\ EraseInLine(s, mode).history = s.history
  <1> DEFINE a == ErasedFrom(s, mode)
             b == ErasedTo(s, mode)
             new == Filled(s.lines[s.row], a, b, "blank")
  <1>1. PICK t : t = EraseInLine(s, mode)
    OBVIOUS
  <1>2. t = [s EXCEPT !.lines[s.row] = new, !.wrapped[s.row] = FALSE, !.pendingWrap = FALSE]
    BY <1>1 DEF EraseInLine
  <1>3. a \in Int /\ b \in Int
    BY OwnLine DEF ErasedFrom, ErasedTo
  <1> HIDE DEF a, b
  <1>4. new \in Line(c)
    BY <1>3, LineFilled
  <1> HIDE DEF new
  <1>5. WithLine(s, new, t) /\ t.wrapped = [s.wrapped EXCEPT ![s.row] = FALSE]
    BY <1>2 DEF WithLine, IsScreen, Sound, Sized, SameSize, SameRegion, SameTabs
  <1>6. t.wrapped \in Flags(r)
    BY <1>5 DEF Sound, Sized, Flags
  <1>7. Good(t, c, r, l)
    BY <1>4, <1>5, <1>6, WithLineGood
  <1>8. QED
    BY <1>1, <1>5, <1>7 DEF WithLine

LEMMA EraseInDisplayGood ==
  ASSUME NEW c, NEW r, NEW l, IsSize(c, r, l), NEW s, Sound(s, c, r, l), NEW mode
  PROVE  Good(EraseInDisplay(s, mode), c, r, l)
  <1>1. PICK own : own = IF mode = "all" THEN s ELSE EraseInLine(s, mode)
    OBVIOUS
  <1>2. Sound(own, c, r, l)
    BY <1>1, EraseInLineGood DEF Good
  <1>3. PICK a : a = IF mode = "toEnd" THEN s.row + 1 ELSE 0
    OBVIOUS
  <1>4. PICK b : b = IF mode = "toStart" THEN s.row - 1 ELSE LastRow(s)
    OBVIOUS
  <1>5. a \in Int /\ b \in Int
    BY <1>3, <1>4 DEF Sound, Sized, LastRow, IsSize
  <1>6. PICK blank \in Line(c) : blank = BlankLine(s.columns)
    BY BlankLineIs DEF Sound, Sized, IsSize
  <1>7. PICK no \in BOOLEAN : no = FALSE
    OBVIOUS
  <1>8. PICK m \in Int : m = r - 1
    BY DEF IsSize
  <1>9. PICK P : P = Line(c)
    OBVIOUS
  <1>10. own.lines \in [0..m -> P] /\ own.wrapped \in [0..m -> BOOLEAN] /\ blank \in P
    BY <1>2, <1>6, <1>8, <1>9 DEF Sound, Sized, Plane, Flags
  <1>11. Filled(own.lines, a, b, blank) \in [0..m -> P]
    BY <1>5, <1>10, FilledIs
  <1>12. Filled(own.wrapped, a, b, no) \in [0..m -> BOOLEAN]
    BY <1>5, <1>10, FilledIs
  <1>13. PICK new : new = Filled(own.lines, a, b, blank)
    OBVIOUS
  <1>14. PICK flags : flags = Filled(own.wrapped, a, b, no)
    OBVIOUS
  <1>15. PICK t : t = EraseInDisplay(s, mode)
    OBVIOUS
  <1>16. t = [own EXCEPT !.lines = new, !.wrapped = flags, !.pendingWrap = FALSE]
    BY <1>1, <1>3, <1>4, <1>6, <1>7, <1>13, <1>14, <1>15 DEF EraseInDisplay
  <1>17. new \in Plane(c, r) /\ flags \in Flags(r)
    BY <1>8, <1>9, <1>11, <1>12, <1>13, <1>14 DEF Plane, Flags
  <1>18. /\ IsScreen(t) /\ SameSize(own, t) /\ SameRegion(own, t) /\ SameTabs(own, t)
         /\ t.row = own.row /\ t.column = own.column /\ t.pendingWrap = FALSE
         /\ t.lines = new /\ t.wrapped = flags /\ t.history = own.history
    BY <1>2, <1>16 DEF IsScreen, Sound, Sized, SameSize, SameRegion, SameTabs
  <1>19. Good(t, c, r, l)
    BY <1>2, <1>17, <1>18, EditedGood
  <1>20. QED
    BY <1>15, <1>19

LEMMA ClearScrollbackGood ==
  ASSUME NEW c, NEW r, NEW l, IsSize(c, r, l), NEW s, Good(s, c, r, l)
  PROVE  Good(ClearScrollback(s), c, r, l)
  <1>1. PICK t : t = ClearScrollback(s)
    OBVIOUS
  <1>2. IsScreen(s)
    BY DEF Good, Sound, Sized
  <1>3. /\ IsScreen(t) /\ SameSize(s, t) /\ SameCursor(s, t) /\ SameRegion(s, t) /\ SameTabs(s, t)
        /\ t.lines = s.lines /\ t.wrapped = s.wrapped /\ t.history = << >>
    BY <1>1, <1>2 DEF ClearScrollback, IsScreen, SameSize, SameCursor, SameRegion, SameTabs
  <1>4. t.history \in Seq(Line(c)) /\ Len(t.history) <= l
    <2>1. l \in Nat
      BY DEF IsSize
    <2>2. QED
      BY <1>3, <2>1
  <1>5. /\ Sound(s, c, r, l) /\ t.row = s.row /\ t.column \in 0..(c - 1) /\ t.pendingWrap \in BOOLEAN
        /\ t.lines \in Plane(c, r) /\ t.wrapped \in Flags(r)
    BY <1>3 DEF Good, Sound, Sized, SameCursor
  <1>6. Sound(t, c, r, l)
    BY <1>3, <1>4, <1>5, ShiftedSound
  <1>7. QED
    BY <1>1, <1>3, <1>6 DEF Good, SameCursor

LEMMA EraseCharactersGood ==
  ASSUME NEW c, NEW r, NEW l, IsSize(c, r, l), NEW s, Sound(s, c, r, l), NEW count \in Int
  PROVE  Good(EraseCharacters(s, count), c, r, l)
  <1> DEFINE b == s.column + count - 1
             new == Filled(s.lines[s.row], s.column, b, "blank")
  <1>1. PICK t : t = EraseCharacters(s, count)
    OBVIOUS
  <1>2. t = [s EXCEPT !.lines[s.row] = new, !.pendingWrap = FALSE]
    BY <1>1 DEF EraseCharacters
  <1>3. s.column \in Int /\ b \in Int
    BY OwnLine
  <1> HIDE DEF b
  <1>4. new \in Line(c)
    BY <1>3, LineFilled
  <1> HIDE DEF new
  <1>5. WithLine(s, new, t) /\ t.wrapped = s.wrapped
    BY <1>2 DEF WithLine, IsScreen, Sound, Sized, SameSize, SameRegion, SameTabs
  <1>6. t.wrapped \in Flags(r)
    BY <1>5 DEF Sound, Sized
  <1>7. Good(t, c, r, l)
    BY <1>4, <1>5, <1>6, WithLineGood
  <1>8. QED
    BY <1>1, <1>7

(* How many cells a count may move. *)
LEMMA CellCount ==
  ASSUME NEW c, NEW r, NEW l, IsSize(c, r, l), NEW s, Sound(s, c, r, l), NEW count \in Int
  PROVE  Clamp(count, 1, s.columns - s.column) \in Nat
  BY DEF Clamp, Sound, Sized, IsSize

LEMMA InsertCharactersGood ==
  ASSUME NEW c, NEW r, NEW l, IsSize(c, r, l), NEW s, Sound(s, c, r, l), NEW count \in Int
  PROVE  Good(InsertCharacters(s, count), c, r, l)
  <1> DEFINE n == Clamp(count, 1, s.columns - s.column)
             new == OpenGap(s.lines[s.row], s.column, LastColumn(s), n, "blank")
  <1>1. PICK t : t = InsertCharacters(s, count)
    OBVIOUS
  <1>2. t = [s EXCEPT !.lines[s.row] = new, !.pendingWrap = FALSE]
    BY <1>1 DEF InsertCharacters
  <1>3. n \in Nat
    BY CellCount
  <1> HIDE DEF n
  <1>4. new \in Line(c)
    BY <1>3, LineShifted
  <1> HIDE DEF new
  <1>5. WithLine(s, new, t) /\ t.wrapped = s.wrapped
    BY <1>2 DEF WithLine, IsScreen, Sound, Sized, SameSize, SameRegion, SameTabs
  <1>6. t.wrapped \in Flags(r)
    BY <1>5 DEF Sound, Sized
  <1>7. Good(t, c, r, l)
    BY <1>4, <1>5, <1>6, WithLineGood
  <1>8. QED
    BY <1>1, <1>7

LEMMA DeleteCharactersGood ==
  ASSUME NEW c, NEW r, NEW l, IsSize(c, r, l), NEW s, Sound(s, c, r, l), NEW count \in Int
  PROVE  Good(DeleteCharacters(s, count), c, r, l)
  <1> DEFINE n == Clamp(count, 1, s.columns - s.column)
             new == CloseGap(s.lines[s.row], s.column, LastColumn(s), n, "blank")
  <1>1. PICK t : t = DeleteCharacters(s, count)
    OBVIOUS
  <1>2. t = [s EXCEPT !.lines[s.row] = new, !.pendingWrap = FALSE]
    BY <1>1 DEF DeleteCharacters
  <1>3. n \in Nat
    BY CellCount
  <1> HIDE DEF n
  <1>4. new \in Line(c)
    BY <1>3, LineShifted
  <1> HIDE DEF new
  <1>5. WithLine(s, new, t) /\ t.wrapped = s.wrapped
    BY <1>2 DEF WithLine, IsScreen, Sound, Sized, SameSize, SameRegion, SameTabs
  <1>6. t.wrapped \in Flags(r)
    BY <1>5 DEF Sound, Sized
  <1>7. Good(t, c, r, l)
    BY <1>4, <1>5, <1>6, WithLineGood
  <1>8. QED
    BY <1>1, <1>7

(* How many rows a count may move, with the cursor in the region. *)
LEMMA RowCount ==
  ASSUME NEW c, NEW r, NEW l, IsSize(c, r, l), NEW s, Sound(s, c, r, l), InRegion(s),
         NEW count \in Int
  PROVE  Clamp(count, 1, s.bottom - s.row + 1) \in 1..r /\ s.row \in Nat
  <1>1. s.bottom \in 0..(r - 1) /\ s.row \in 0..(r - 1) /\ s.row <= s.bottom /\ r \in Nat
    BY RegionIs DEF InRegion, Sound, IsSize
  <1>2. QED
    BY <1>1 DEF Clamp

LEMMA InsertLinesIs ==
  ASSUME NEW s, IsScreen(s), NEW count, NEW t, t = InsertLines(s, count),
         NEW n, n = Clamp(count, 1, s.bottom - s.row + 1)
  PROVE  IF ~InRegion(s) THEN t = s
         ELSE /\ IsScreen(t) /\ SameSize(s, t) /\ SameRegion(s, t) /\ SameTabs(s, t)
              /\ t.lines = OpenGap(s.lines, s.row, s.bottom, n, BlankLine(s.columns))
              /\ t.wrapped = OpenGap(s.wrapped, s.row, s.bottom, n, FALSE)
              /\ t.history = s.history /\ t.row = s.row /\ t.column = 0 /\ t.pendingWrap = FALSE
  <1> DEFINE a == OpenGap(s.lines, s.row, s.bottom, n, BlankLine(s.columns))
             b == OpenGap(s.wrapped, s.row, s.bottom, n, FALSE)
  <1>1. t = IF ~InRegion(s) THEN s
            ELSE [s EXCEPT !.lines = a, !.wrapped = b, !.column = 0, !.pendingWrap = FALSE]
    BY DEF InsertLines
  <1> HIDE DEF a, b
  <1>2. CASE InRegion(s)
    <2>1. /\ IsScreen(t) /\ SameSize(s, t) /\ SameRegion(s, t) /\ SameTabs(s, t)
          /\ t.lines = a /\ t.wrapped = b
          /\ t.history = s.history /\ t.row = s.row /\ t.column = 0 /\ t.pendingWrap = FALSE
      BY <1>1, <1>2 DEF IsScreen, SameSize, SameRegion, SameTabs
    <2>2. QED
      BY <1>2, <2>1 DEF a, b
  <1>3. CASE ~InRegion(s)
    BY <1>1, <1>3
  <1>4. QED
    BY <1>2, <1>3

LEMMA DeleteLinesIs ==
  ASSUME NEW s, IsScreen(s), NEW count, NEW t, t = DeleteLines(s, count),
         NEW n, n = Clamp(count, 1, s.bottom - s.row + 1)
  PROVE  IF ~InRegion(s) THEN t = s
         ELSE /\ IsScreen(t) /\ SameSize(s, t) /\ SameRegion(s, t) /\ SameTabs(s, t)
              /\ t.lines = CloseGap(s.lines, s.row, s.bottom, n, BlankLine(s.columns))
              /\ t.wrapped = CloseGap(s.wrapped, s.row, s.bottom, n, FALSE)
              /\ t.history = s.history /\ t.row = s.row /\ t.column = 0 /\ t.pendingWrap = FALSE
  <1> DEFINE a == CloseGap(s.lines, s.row, s.bottom, n, BlankLine(s.columns))
             b == CloseGap(s.wrapped, s.row, s.bottom, n, FALSE)
  <1>1. t = IF ~InRegion(s) THEN s
            ELSE [s EXCEPT !.lines = a, !.wrapped = b, !.column = 0, !.pendingWrap = FALSE]
    BY DEF DeleteLines
  <1> HIDE DEF a, b
  <1>2. CASE InRegion(s)
    <2>1. /\ IsScreen(t) /\ SameSize(s, t) /\ SameRegion(s, t) /\ SameTabs(s, t)
          /\ t.lines = a /\ t.wrapped = b
          /\ t.history = s.history /\ t.row = s.row /\ t.column = 0 /\ t.pendingWrap = FALSE
      BY <1>1, <1>2 DEF IsScreen, SameSize, SameRegion, SameTabs
    <2>2. QED
      BY <1>2, <2>1 DEF a, b
  <1>3. CASE ~InRegion(s)
    BY <1>1, <1>3
  <1>4. QED
    BY <1>2, <1>3

LEMMA InsertLinesGood ==
  ASSUME NEW c, NEW r, NEW l, IsSize(c, r, l), NEW s, Good(s, c, r, l), NEW count \in Int
  PROVE  Good(InsertLines(s, count), c, r, l)
  <1>1. PICK t : t = InsertLines(s, count)
    OBVIOUS
  <1>2. PICK n : n = Clamp(count, 1, s.bottom - s.row + 1)
    OBVIOUS
  <1>3. Sound(s, c, r, l) /\ IsScreen(s)
    BY DEF Good, Sound, Sized
  <1>4. CASE InRegion(s)
    <2>1. n \in Nat /\ s.row \in Nat
      <3>1. n \in 1..r /\ s.row \in Nat
        BY <1>2, <1>3, <1>4, RowCount
      <3>2. QED
        BY <3>1
    <2>2. /\ IsScreen(t) /\ SameSize(s, t) /\ SameRegion(s, t) /\ SameTabs(s, t)
          /\ t.lines = OpenGap(s.lines, s.row, s.bottom, n, BlankLine(s.columns))
          /\ t.wrapped = OpenGap(s.wrapped, s.row, s.bottom, n, FALSE)
          /\ t.history = s.history /\ t.row = s.row /\ t.column = 0 /\ t.pendingWrap = FALSE
      BY <1>1, <1>2, <1>3, <1>4, InsertLinesIs, ZenonT(40)
    <2>3. t.lines \in Plane(c, r) /\ t.wrapped \in Flags(r)
      BY <1>3, <2>1, <2>2, GapsGood
    <2>4. QED
      BY <1>1, <1>3, <2>2, <2>3, EditedGood
  <1>5. CASE ~InRegion(s)
    BY <1>5 DEF InsertLines
  <1>6. QED
    BY <1>4, <1>5

LEMMA DeleteLinesGood ==
  ASSUME NEW c, NEW r, NEW l, IsSize(c, r, l), NEW s, Good(s, c, r, l), NEW count \in Int
  PROVE  Good(DeleteLines(s, count), c, r, l)
  <1>1. PICK t : t = DeleteLines(s, count)
    OBVIOUS
  <1>2. PICK n : n = Clamp(count, 1, s.bottom - s.row + 1)
    OBVIOUS
  <1>3. Sound(s, c, r, l) /\ IsScreen(s)
    BY DEF Good, Sound, Sized
  <1>4. CASE InRegion(s)
    <2>1. n \in Nat /\ s.row \in Nat
      <3>1. n \in 1..r /\ s.row \in Nat
        BY <1>2, <1>3, <1>4, RowCount
      <3>2. QED
        BY <3>1
    <2>2. /\ IsScreen(t) /\ SameSize(s, t) /\ SameRegion(s, t) /\ SameTabs(s, t)
          /\ t.lines = CloseGap(s.lines, s.row, s.bottom, n, BlankLine(s.columns))
          /\ t.wrapped = CloseGap(s.wrapped, s.row, s.bottom, n, FALSE)
          /\ t.history = s.history /\ t.row = s.row /\ t.column = 0 /\ t.pendingWrap = FALSE
      BY <1>1, <1>2, <1>3, <1>4, DeleteLinesIs, ZenonT(40)
    <2>3. t.lines \in Plane(c, r) /\ t.wrapped \in Flags(r)
      BY <1>3, <2>1, <2>2, GapsGood
    <2>4. QED
      BY <1>1, <1>3, <2>2, <2>3, EditedGood
  <1>5. CASE ~InRegion(s)
    BY <1>5 DEF DeleteLines
  <1>6. QED
    BY <1>4, <1>5

LEMMA FillWithGood ==
  ASSUME NEW c, NEW r, NEW l, IsSize(c, r, l), NEW s, Good(s, c, r, l)
  PROVE  Good(FillWith(s), c, r, l)
  <1> DEFINE new == [i \in 0..(r - 1) |-> [j \in 0..(c - 1) |-> "narrow"]]
  <1>1. IsScreen(s) /\ s.lines \in Plane(c, r) /\ LastColumn(s) = c - 1
    BY DEF Good, Sound, Sized, LastColumn
  <1>2. PICK t : t = FillWith(s)
    OBVIOUS
  <1>3. t = [s EXCEPT !.lines = new]
    BY <1>1, <1>2 DEF FillWith, Plane
  <1>4. new \in Plane(c, r)
    <2>1. [j \in 0..(c - 1) |-> "narrow"] \in Line(c)
      BY CellsAre DEF Line
    <2>2. QED
      BY <2>1 DEF Plane
  <1> HIDE DEF new
  <1>5. /\ IsScreen(t) /\ SameSize(s, t) /\ SameCursor(s, t) /\ SameRegion(s, t) /\ SameTabs(s, t)
        /\ t.lines = new /\ t.wrapped = s.wrapped /\ t.history = s.history
    BY <1>1, <1>3 DEF IsScreen, SameSize, SameCursor, SameRegion, SameTabs
  <1>6. Sound(t, c, r, l)
    BY <1>4, <1>5, ShiftedSound DEF Good, Sound, Sized, SameCursor
  <1>7. QED
    BY <1>2, <1>5, <1>6 DEF Good, SameCursor

-----------------------------------------------------------------------------
(***************************************************************************)
(* Tab stops.                                                              *)
(***************************************************************************)
(* Other tab stops, on the screen. *)
LEMMA TabsGood ==
  ASSUME NEW c, NEW r, NEW l, IsSize(c, r, l), NEW s, Good(s, c, r, l),
         NEW tabs, tabs \subseteq 0..(c - 1), NEW t, t = [s EXCEPT !.tabs = tabs]
  PROVE  Good(t, c, r, l)
  <1>1. IsScreen(s)
    BY DEF Good, Sound, Sized
  <1>2. /\ IsScreen(t) /\ SameSize(s, t) /\ SameText(s, t) /\ SameCursor(s, t) /\ SameRegion(s, t)
        /\ t.tabs = tabs
    BY <1>1 DEF IsScreen, SameSize, SameText, SameCursor, SameRegion
  <1>3. tabs \subseteq Nat
    BY DEF IsSize
  <1>4. Sized(t, c, r, l)
    BY <1>2, <1>3 DEF Good, Sound, Sized, SameSize, SameText, SameCursor, SameRegion
  <1>5. QED
    BY <1>2, <1>4 DEF Good, Sound, SameCursor, SameRegion

LEMMA TabStopsGood ==
  ASSUME NEW c, NEW r, NEW l, IsSize(c, r, l), NEW s, Good(s, c, r, l)
  PROVE  /\ Good(SetTabStop(s), c, r, l)
         /\ Good(ClearTabStop(s), c, r, l)
         /\ Good(ClearAllTabStops(s), c, r, l)
  <1>1. s.tabs \subseteq 0..(c - 1) /\ s.column \in 0..(c - 1)
    BY DEF Good, Sound
  <1>2. Good(SetTabStop(s), c, r, l)
    <2>1. PICK tabs : tabs = s.tabs \cup {s.column}
      OBVIOUS
    <2>2. tabs \subseteq 0..(c - 1)
      BY <1>1, <2>1
    <2>3. SetTabStop(s) = [s EXCEPT !.tabs = tabs]
      BY <2>1 DEF SetTabStop
    <2>4. QED
      BY <2>2, <2>3, TabsGood
  <1>3. Good(ClearTabStop(s), c, r, l)
    <2>1. PICK tabs : tabs = s.tabs \ {s.column}
      OBVIOUS
    <2>2. tabs \subseteq 0..(c - 1)
      BY <1>1, <2>1
    <2>3. ClearTabStop(s) = [s EXCEPT !.tabs = tabs]
      BY <2>1 DEF ClearTabStop
    <2>4. QED
      BY <2>2, <2>3, TabsGood
  <1>4. Good(ClearAllTabStops(s), c, r, l)
    <2>1. PICK tabs : tabs = {}
      OBVIOUS
    <2>2. tabs \subseteq 0..(c - 1)
      BY <2>1
    <2>3. ClearAllTabStops(s) = [s EXCEPT !.tabs = tabs]
      BY <2>1 DEF ClearAllTabStops
    <2>4. QED
      BY <2>2, <2>3, TabsGood
  <1>5. QED
    BY <1>2, <1>3, <1>4

(* Every set of natural numbers with an upper bound has a greatest element. *)
LEMMA GreatestOf ==
  ASSUME NEW m \in Nat, NEW T, T \subseteq 0..m, T # {}
  PROVE  \E x \in T : \A y \in T : x >= y
  <1> DEFINE U == {u \in Nat : m - u \in T}
  <1>1. U \subseteq Nat
    OBVIOUS
  <1>2. U # {}
    <2>1. PICK x \in T : TRUE
      OBVIOUS
    <2>2. m - x \in Nat /\ m - (m - x) = x
      BY <2>1
    <2>3. m - x \in U
      BY <2>1, <2>2
    <2>4. QED
      BY <2>3
  <1>3. PICK u \in U : \A v \in U : ~(v < u)
    <2> HIDE DEF U
    <2>1. QED
      BY <1>1, <1>2, LeastOf
  <1>4. ASSUME NEW y \in T PROVE m - u >= y
    <2>1. m - y \in Nat /\ m - (m - y) = y
      OBVIOUS
    <2>2. m - y \in U
      BY <2>1
    <2>3. ~(m - y < u)
      BY <1>3, <2>2
    <2>4. QED
      BY <2>1, <2>3
  <1>5. QED
    BY <1>3, <1>4

LEMMA NextTabStopIs ==
  ASSUME NEW c, NEW r, NEW l, IsSize(c, r, l), NEW s, Sound(s, c, r, l), NEW x
  PROVE  NextTabStop(s, x) \in 0..(c - 1)
  <1>1. PICK T : T = {t \in s.tabs : t > x}
    OBVIOUS
  <1>2. T \subseteq 0..(c - 1) /\ T \subseteq Nat
    BY <1>1 DEF Sound
  <1>3. NextTabStop(s, x) = IF T = {} THEN c - 1 ELSE CHOOSE t \in T : \A u \in T : t <= u
    BY <1>1 DEF NextTabStop, Sound, Sized, LastColumn
  <1>4. CASE T = {}
    BY <1>3, <1>4 DEF IsSize
  <1>5. CASE T # {}
    <2>1. \E t \in T : \A u \in T : t <= u
      <3>1. PICK t \in T : \A u \in T : ~(u < t)
        BY <1>2, <1>5, LeastOf
      <3>2. \A u \in T : t <= u
        BY <1>2, <3>1
      <3>3. QED
        BY <3>2
    <2>2. (CHOOSE t \in T : \A u \in T : t <= u) \in T
      BY <2>1
    <2>3. QED
      BY <1>2, <1>3, <1>5, <2>2
  <1>6. QED
    BY <1>4, <1>5

LEMMA PreviousTabStopIs ==
  ASSUME NEW c, NEW r, NEW l, IsSize(c, r, l), NEW s, Sound(s, c, r, l), NEW x
  PROVE  PreviousTabStop(s, x) \in 0..(c - 1)
  <1>1. PICK T : T = {t \in s.tabs : 0 < t /\ t < x}
    OBVIOUS
  <1>2. T \subseteq 0..(c - 1)
    BY <1>1 DEF Sound
  <1>3. PreviousTabStop(s, x) = IF T = {} THEN 0 ELSE CHOOSE t \in T : \A u \in T : t >= u
    BY <1>1 DEF PreviousTabStop
  <1>4. CASE T = {}
    BY <1>3, <1>4 DEF IsSize
  <1>5. CASE T # {}
    <2>1. PICK m \in Nat : m = c - 1
      BY DEF IsSize
    <2>2. \E t \in T : \A u \in T : t >= u
      BY <1>2, <1>5, <2>1, GreatestOf
    <2>3. (CHOOSE t \in T : \A u \in T : t >= u) \in T
      BY <2>2
    <2>4. QED
      BY <1>2, <1>3, <1>5, <2>3
  <1>6. QED
    BY <1>4, <1>5

(* Going from stop to stop, n times, ends on the screen. *)
IsRun(T, base, stop, n, f) ==
  f \in [0..n -> T] /\ f[0] = base /\ \A i \in 1..n : f[i] = stop[f[i - 1]]

LEMMA Stops ==
  ASSUME NEW T, NEW base \in T, NEW stop \in [T -> T], NEW n \in Nat
  PROVE  \E f : IsRun(T, base, stop, n, f)
  <1> DEFINE step == [i \in Nat |-> stop]
  <1>1. step \in [Nat -> [T -> T]] /\ \A i \in 1..n : step[i] = stop
    OBVIOUS
  <1> HIDE DEF step
  <1>2. PICK f : IsTable(T, base, step, n, f)
    BY <1>1, Recursion
  <1>3. IsRun(T, base, stop, n, f)
    BY <1>1, <1>2 DEF IsTable, IsRun
  <1>4. QED
    BY <1>3

LEMMA ForwardOnScreen ==
  ASSUME NEW c, NEW r, NEW l, IsSize(c, r, l), NEW s, Sound(s, c, r, l), NEW n \in Nat
  PROVE  LET at[i \in 0..n] == IF i = 0 THEN s.column ELSE NextTabStop(s, at[i - 1])
         IN  at[n] \in 0..(c - 1)
  <1> DEFINE T == 0..(c - 1)
             stop == [x \in T |-> NextTabStop(s, x)]
             Row(g, i) == IF i = 0 THEN s.column ELSE NextTabStop(s, g[i - 1])
             Table(g) == g = [i \in 0..n |-> Row(g, i)]
  <1>1. s.column \in T /\ stop \in [T -> T]
    BY NextTabStopIs DEF Sound
  <1>2. \E f : IsRun(T, s.column, stop, n, f)
    <2> DEFINE base == s.column
    <2>1. base \in T
      BY <1>1
    <2> HIDE DEF T, stop, base
    <2>2. \E f : IsRun(T, base, stop, n, f)
      BY <1>1, <2>1, Stops
    <2>3. QED
      BY <2>2 DEF base
  <1>3. PICK f : f \in [0..n -> T] /\ f[0] = s.column /\ \A i \in 1..n : f[i] = stop[f[i - 1]]
    <2> HIDE DEF T, stop
    <2>1. QED
      BY <1>2 DEF IsRun
  <1>4. Table(f)
    <2>1. ASSUME NEW i \in 0..n PROVE f[i] = Row(f, i)
      <3>1. CASE i = 0
        BY <1>3, <3>1
      <3>2. CASE i # 0
        <4>1. i \in 1..n /\ i - 1 \in 0..n
          BY <3>2
        <4>2. f[i - 1] \in T
          <5> HIDE DEF T
          <5>1. QED
            BY <1>3, <4>1
        <4>3. stop[f[i - 1]] = NextTabStop(s, f[i - 1])
          <5> HIDE DEF T
          <5>1. QED
            BY <4>2
        <4>4. f[i] = stop[f[i - 1]]
          <5> HIDE DEF T, stop
          <5>1. QED
            BY <1>3, <4>1
        <4> HIDE DEF T, stop
        <4>5. QED
          BY <3>2, <4>3, <4>4
      <3>3. QED
        BY <3>1, <3>2
    <2> HIDE DEF Row, T, stop
    <2>2. QED
      BY <1>3, <2>1
  <1> DEFINE at == CHOOSE g : Table(g)
  <1>5. Table(at)
    <2> HIDE DEF Table
    <2>1. QED
      BY <1>4
  <1> HIDE DEF at
  <1>6. at[n] = Row(at, n)
    <2> HIDE DEF Row
    <2>1. QED
      BY <1>5
  <1>7. at[n] \in 0..(c - 1)
    <2>1. CASE n = 0
      BY <1>6, <2>1 DEF Sound
    <2>2. CASE n # 0
      <3>1. NextTabStop(s, at[n - 1]) \in 0..(c - 1)
        BY NextTabStopIs
      <3>2. QED
        BY <1>6, <2>2, <3>1
    <2>3. QED
      BY <2>1, <2>2
  <1>8. QED
    BY <1>7 DEF at

LEMMA BackwardOnScreen ==
  ASSUME NEW c, NEW r, NEW l, IsSize(c, r, l), NEW s, Sound(s, c, r, l), NEW n \in Nat
  PROVE  LET at[i \in 0..n] == IF i = 0 THEN s.column ELSE PreviousTabStop(s, at[i - 1])
         IN  at[n] \in 0..(c - 1)
  <1> DEFINE T == 0..(c - 1)
             stop == [x \in T |-> PreviousTabStop(s, x)]
             Row(g, i) == IF i = 0 THEN s.column ELSE PreviousTabStop(s, g[i - 1])
             Table(g) == g = [i \in 0..n |-> Row(g, i)]
  <1>1. s.column \in T /\ stop \in [T -> T]
    BY PreviousTabStopIs DEF Sound
  <1>2. \E f : IsRun(T, s.column, stop, n, f)
    <2> DEFINE base == s.column
    <2>1. base \in T
      BY <1>1
    <2> HIDE DEF T, stop, base
    <2>2. \E f : IsRun(T, base, stop, n, f)
      BY <1>1, <2>1, Stops
    <2>3. QED
      BY <2>2 DEF base
  <1>3. PICK f : f \in [0..n -> T] /\ f[0] = s.column /\ \A i \in 1..n : f[i] = stop[f[i - 1]]
    <2> HIDE DEF T, stop
    <2>1. QED
      BY <1>2 DEF IsRun
  <1>4. Table(f)
    <2>1. ASSUME NEW i \in 0..n PROVE f[i] = Row(f, i)
      <3>1. CASE i = 0
        BY <1>3, <3>1
      <3>2. CASE i # 0
        <4>1. i \in 1..n /\ i - 1 \in 0..n
          BY <3>2
        <4>2. f[i - 1] \in T
          <5> HIDE DEF T
          <5>1. QED
            BY <1>3, <4>1
        <4>3. stop[f[i - 1]] = PreviousTabStop(s, f[i - 1])
          <5> HIDE DEF T
          <5>1. QED
            BY <4>2
        <4>4. f[i] = stop[f[i - 1]]
          <5> HIDE DEF T, stop
          <5>1. QED
            BY <1>3, <4>1
        <4> HIDE DEF T, stop
        <4>5. QED
          BY <3>2, <4>3, <4>4
      <3>3. QED
        BY <3>1, <3>2
    <2> HIDE DEF Row, T, stop
    <2>2. QED
      BY <1>3, <2>1
  <1> DEFINE at == CHOOSE g : Table(g)
  <1>5. Table(at)
    <2> HIDE DEF Table
    <2>1. QED
      BY <1>4
  <1> HIDE DEF at
  <1>6. at[n] = Row(at, n)
    <2> HIDE DEF Row
    <2>1. QED
      BY <1>5
  <1>7. at[n] \in 0..(c - 1)
    <2>1. CASE n = 0
      BY <1>6, <2>1 DEF Sound
    <2>2. CASE n # 0
      <3>1. PreviousTabStop(s, at[n - 1]) \in 0..(c - 1)
        BY PreviousTabStopIs
      <3>2. QED
        BY <1>6, <2>2, <3>1
    <2>3. QED
      BY <2>1, <2>2
  <1>8. QED
    BY <1>7 DEF at

-----------------------------------------------------------------------------
(***************************************************************************)
(* Reset and resize.                                                       *)
(***************************************************************************)
LEMMA DefaultTabsAre ==
  ASSUME NEW c \in Nat \ {0}
  PROVE  DefaultTabs(c) \subseteq 0..(c - 1)
  BY DEF DefaultTabs

LEMMA NewScreenGood ==
  ASSUME NEW c, NEW r, NEW l, IsSize(c, r, l), NEW h \in Seq(Line(c)), Len(h) <= l
  PROVE  Good([NewScreen(c, r, l) EXCEPT !.history = h], c, r, l)
  <1> DEFINE blank == BlankLine(c)
             lines == [i \in 0..(r - 1) |-> blank]
             flags == [i \in 0..(r - 1) |-> FALSE]
             tabs == DefaultTabs(c)
  <1>1. c \in Nat \ {0} /\ r \in Nat \ {0} /\ l \in Nat
    BY DEF IsSize
  <1>2. lines \in Plane(c, r)
    <2>1. blank \in Line(c)
      BY <1>1, BlankLineIs
    <2> HIDE DEF blank
    <2>2. QED
      BY <2>1 DEF Plane
  <1>3. flags \in Flags(r)
    BY DEF Flags
  <1>4. tabs \subseteq 0..(c - 1) /\ tabs \subseteq Nat
    BY <1>1, DefaultTabsAre
  <1>5. PICK t : t = [NewScreen(c, r, l) EXCEPT !.history = h]
    OBVIOUS
  <1>6. t = [columns |-> c, rows |-> r, limit |-> l, lines |-> lines, wrapped |-> flags,
             tabs |-> tabs, history |-> h, row |-> 0, column |-> 0, pendingWrap |-> FALSE,
             top |-> 0, bottom |-> r - 1]
    BY <1>5 DEF NewScreen
  <1> HIDE DEF lines, flags, tabs
  <1>7. /\ IsScreen(t) /\ t.columns = c /\ t.rows = r /\ t.limit = l /\ t.lines = lines
        /\ t.wrapped = flags /\ t.tabs = tabs /\ t.history = h /\ t.row = 0 /\ t.column = 0
        /\ t.pendingWrap = FALSE /\ t.top = 0 /\ t.bottom = r - 1
    BY <1>6 DEF IsScreen
  <1>8. 0 \in 0..(r - 1) /\ 0 \in 0..(c - 1) /\ r - 1 \in Int /\ Region(0, r - 1, r)
    BY <1>1 DEF Region
  <1>9. Sized(t, c, r, l)
    <2>1. t.row \in Int /\ t.column \in Int /\ t.top \in Int /\ t.bottom \in Int
      <3>1. 0 \in Int
        OBVIOUS
      <3>2. QED
        BY <1>7, <1>8, <3>1
    <2> t.pendingWrap \in BOOLEAN
      BY <1>7
    <2>2. t.history \in Seq(Line(c)) /\ Len(t.history) <= l /\ t.tabs \subseteq Nat
      BY <1>4, <1>7
    <2>3. t.lines \in Plane(c, r) /\ t.wrapped \in Flags(r)
      BY <1>2, <1>3, <1>7
    <2>4. QED
      BY <1>7, <2>1, <2>2, <2>3 DEF Sized
  <1>10. Good(t, c, r, l)
    BY <1>4, <1>7, <1>8, <1>9 DEF Good, Sound
  <1>11. QED
    BY <1>5, <1>10

LEMMA ResetGood ==
  ASSUME NEW c, NEW r, NEW l, IsSize(c, r, l), NEW s, Good(s, c, r, l)
  PROVE  Good(Reset(s), c, r, l)
  <1>1. /\ s.columns = c /\ s.rows = r /\ s.limit = l
        /\ s.history \in Seq(Line(c)) /\ Len(s.history) <= l
    BY DEF Good, Sound, Sized
  <1>2. QED
    BY <1>1, NewScreenGood DEF Reset

(* A screen on which nothing was written. *)
LEMMA FreshGood ==
  ASSUME NEW c, NEW r, NEW l, IsSize(c, r, l)
  PROVE  Good(NewScreen(c, r, l), c, r, l)
  <1>1. PICK h : h = << >>
    OBVIOUS
  <1>2. h \in Seq(Line(c)) /\ Len(h) <= l
    BY <1>1 DEF IsSize
  <1>3. NewScreen(c, r, l) = [NewScreen(c, r, l) EXCEPT !.history = h]
    <2>1. PICK s : s = NewScreen(c, r, l)
      OBVIOUS
    <2>2. IsScreen(s) /\ s.history = h
      BY <1>1, <2>1 DEF NewScreen, IsScreen
    <2>3. s = [s EXCEPT !.history = h]
      BY <2>2 DEF IsScreen
    <2>4. QED
      BY <2>1, <2>3
  <1>4. QED
    BY <1>2, <1>3, NewScreenGood

LEMMA FittedIs ==
  ASSUME NEW c \in Nat, NEW d \in Nat, NEW line \in Line(c)
  PROVE  Fitted(line, d) \in Line(d)
  BY CellsAre DEF Fitted, Line

LEMMA WidenedSized ==
  ASSUME NEW c, NEW r, NEW l, IsSize(c, r, l), NEW d \in Nat \ {0}, NEW s, Sized(s, c, r, l)
  PROVE  /\ Sized(Widened(s, d), d, r, l)
         /\ Len(Widened(s, d).history) = Len(s.history)
  <1> DEFINE lines == [i \in 0..(r - 1) |-> Fitted(s.lines[i], d)]
             history == [i \in 1..Len(s.history) |-> Fitted(s.history[i], d)]
  <1>1. /\ IsScreen(s) /\ s.lines \in Plane(c, r) /\ s.history \in Seq(Line(c))
        /\ Len(s.history) <= l /\ c \in Nat /\ Len(s.history) \in Nat
    BY DEF Sized, IsSize
  <1>2. DOMAIN s.lines = 0..(r - 1) /\ DOMAIN s.history = 1..Len(s.history)
    BY <1>1 DEF Plane
  <1>3. lines \in Plane(d, r)
    <2>1. ASSUME NEW i \in 0..(r - 1) PROVE Fitted(s.lines[i], d) \in Line(d)
      <3>1. s.lines[i] \in Line(c)
        BY <1>1 DEF Plane
      <3>2. QED
        BY <1>1, <3>1, FittedIs
    <2>2. QED
      BY <2>1 DEF Plane
  <1>4. history \in Seq(Line(d)) /\ Len(history) = Len(s.history)
    <2>1. ASSUME NEW i \in 1..Len(s.history) PROVE Fitted(s.history[i], d) \in Line(d)
      <3>1. s.history[i] \in Line(c)
        BY <1>1
      <3>2. QED
        BY <1>1, <3>1, FittedIs
    <2>2. PICK n \in Nat : n = Len(s.history)
      BY <1>1
    <2>3. PICK P : P = Line(d)
      OBVIOUS
    <2>4. \A i \in 1..n : Fitted(s.history[i], d) \in P
      BY <2>1, <2>2, <2>3
    <2>5. [i \in 1..n |-> Fitted(s.history[i], d)] \in Seq(P)
      BY <2>4
    <2>6. Len([i \in 1..n |-> Fitted(s.history[i], d)]) = n
      OBVIOUS
    <2>7. QED
      BY <2>2, <2>3, <2>5, <2>6
  <1>5. PICK t : t = Widened(s, d)
    OBVIOUS
  <1>6. t = [s EXCEPT !.lines = lines, !.history = history, !.columns = d]
    BY <1>2, <1>5 DEF Widened
  <1> HIDE DEF lines, history
  <1>7. /\ IsScreen(t) /\ t.columns = d /\ t.rows = s.rows /\ t.limit = s.limit /\ t.lines = lines
        /\ t.wrapped = s.wrapped /\ t.history = history /\ SameTabs(s, t) /\ SameCursor(s, t)
        /\ SameRegion(s, t)
    BY <1>1, <1>6 DEF IsScreen, SameTabs, SameCursor, SameRegion
  <1>8. Sized(t, d, r, l)
    BY <1>1, <1>3, <1>4, <1>7 DEF Sized, SameTabs, SameCursor, SameRegion
  <1>9. QED
    BY <1>4, <1>5, <1>7, <1>8

LEMMA ShrunkSized ==
  ASSUME NEW c, NEW r, NEW l, IsSize(c, r, l), NEW s, Sized(s, c, r, l), NEW q \in 1..(r - 1)
  PROVE  Sized(Shrunk(s, q), c, q, l)
  <1> DEFINE k == r - q
             lines == [i \in 0..(q - 1) |-> s.lines[i + k]]
             flags == [i \in 0..(q - 1) |-> s.wrapped[i + k]]
             history == Pushed(s, k)
             row == Clamp(s.row - k, 0, q - 1)
  <1>1. /\ IsScreen(s) /\ s.lines \in Plane(c, r) /\ s.wrapped \in Flags(r) /\ s.rows = r
        /\ c \in Nat /\ r \in Nat /\ q \in Nat /\ s.row \in Int
    BY DEF Sized, IsSize
  <1>2. /\ k \in 0..r /\ \A i \in 0..(q - 1) : i + k \in 0..(r - 1)
    BY <1>1
  <1>3. history \in Seq(Line(c)) /\ Len(history) <= l
    <2> HIDE DEF k
    <2>1. QED
      BY <1>2, PushedIs
  <1>4. row \in Int
    BY <1>1 DEF Clamp
  <1>5. lines \in Plane(c, q) /\ flags \in Flags(q)
    <2> HIDE DEF k
    <2>1. QED
      BY <1>1, <1>2 DEF Plane, Flags
  <1>6. PICK t : t = Shrunk(s, q)
    OBVIOUS
  <1>7. t = [s EXCEPT !.history = history, !.lines = lines, !.wrapped = flags, !.row = row, !.rows = q]
    BY <1>1, <1>6 DEF Shrunk
  <1> HIDE DEF lines, flags, history, row
  <1>8. /\ IsScreen(t) /\ t.columns = s.columns /\ t.rows = q /\ t.limit = s.limit /\ t.lines = lines
        /\ t.wrapped = flags /\ t.history = history /\ SameTabs(s, t) /\ t.row = row
        /\ t.column = s.column /\ t.pendingWrap = s.pendingWrap /\ SameRegion(s, t)
    BY <1>1, <1>7 DEF IsScreen, SameTabs, SameRegion
  <1>9. Sized(t, c, q, l)
    BY <1>3, <1>4, <1>5, <1>8 DEF Sized, SameTabs, SameRegion
  <1>10. QED
    BY <1>6, <1>9

LEMMA GrownSized ==
  ASSUME NEW c, NEW r, NEW l, IsSize(c, r, l), NEW s, Sized(s, c, r, l), NEW q \in Nat, q > r
  PROVE  Sized(Grown(s, q), c, q, l)
  <1> DEFINE back == Least(q - r, Len(s.history))
             kept == Len(s.history) - back
             blank == BlankLine(c)
             NewLineAt(i) == IF i < back THEN s.history[kept + i + 1]
                             ELSE IF i - back < r THEN s.lines[i - back] ELSE blank
             lines == [i \in 0..(q - 1) |-> NewLineAt(i)]
             flags == [i \in 0..(q - 1) |-> i >= back /\ i - back < r /\ s.wrapped[i - back]]
             history == SubSeq(s.history, 1, kept)
             row == s.row + back
  <1>1. /\ IsScreen(s) /\ s.lines \in Plane(c, r) /\ s.wrapped \in Flags(r) /\ s.rows = r
        /\ s.history \in Seq(Line(c)) /\ Len(s.history) <= l /\ Len(s.history) \in Nat
        /\ c \in Nat /\ r \in Nat /\ l \in Nat /\ s.row \in Int /\ s.columns = c
    BY DEF Sized, IsSize
  <1>2. /\ back \in Nat /\ back <= Len(s.history) /\ back <= q - r
        /\ kept \in Nat /\ kept <= Len(s.history) /\ kept + back = Len(s.history)
    <2>1. PICK a \in Nat : a = q - r
      BY <1>1
    <2>2. PICK b \in Nat : b = Len(s.history)
      BY <1>1
    <2>3. Least(a, b) \in Nat /\ Least(a, b) <= a /\ Least(a, b) <= b
      BY DEF Least
    <2>4. back = Least(a, b)
      BY <2>1, <2>2
    <2> HIDE DEF back
    <2>5. QED
      BY <2>1, <2>2, <2>3, <2>4
  <1> HIDE DEF back, kept
  <1>3. lines \in Plane(c, q)
    <2>1. ASSUME NEW i \in 0..(q - 1) PROVE NewLineAt(i) \in Line(c)
      <3>1. CASE i < back
        <4>1. kept + i + 1 \in 1..Len(s.history)
          BY <1>1, <1>2, <3>1
        <4>2. s.history[kept + i + 1] \in Line(c)
          BY <1>1, <4>1
        <4>3. QED
          BY <3>1, <4>2
      <3>2. CASE ~(i < back) /\ i - back < r
        <4>1. i - back \in 0..(r - 1)
          BY <1>1, <1>2, <3>2
        <4>2. s.lines[i - back] \in Line(c)
          BY <1>1, <4>1 DEF Plane
        <4>3. QED
          BY <3>2, <4>2
      <3>3. CASE ~(i < back) /\ ~(i - back < r)
        <4>1. blank \in Line(c)
          BY <1>1, BlankLineIs
        <4>2. QED
          BY <3>3, <4>1
      <3>4. QED
        BY <3>1, <3>2, <3>3
    <2> HIDE DEF NewLineAt
    <2>2. QED
      BY <2>1 DEF Plane
  <1>4. flags \in Flags(q)
    <2>1. ASSUME NEW i \in 0..(q - 1)
          PROVE  (i >= back /\ i - back < r /\ s.wrapped[i - back]) \in BOOLEAN
      OBVIOUS
    <2>2. QED
      BY <2>1 DEF Flags
  <1>5. history \in Seq(Line(c)) /\ Len(history) <= l
    <2>1. PICK P : P = Line(c)
      OBVIOUS
    <2>2. PICK h \in Seq(P) : h = s.history
      BY <1>1, <2>1
    <2>3. SubSeq(h, 1, kept) \in Seq(P) /\ Len(SubSeq(h, 1, kept)) = kept
      BY <1>2, <2>2
    <2>4. QED
      BY <1>1, <1>2, <2>1, <2>2, <2>3
  <1>6. row \in Int
    BY <1>1, <1>2
  <1>7. PICK t : t = Grown(s, q)
    OBVIOUS
  <1>8. t = [s EXCEPT !.history = history, !.lines = lines, !.wrapped = flags, !.row = row, !.rows = q]
    BY <1>1, <1>7 DEF Grown, back, kept
  <1> HIDE DEF lines, flags, history, row
  <1>9. /\ IsScreen(t) /\ t.columns = s.columns /\ t.rows = q /\ t.limit = s.limit /\ t.lines = lines
        /\ t.wrapped = flags /\ t.history = history /\ SameTabs(s, t) /\ t.row = row
        /\ t.column = s.column /\ t.pendingWrap = s.pendingWrap /\ SameRegion(s, t)
    BY <1>1, <1>8 DEF IsScreen, SameTabs, SameRegion
  <1>10. Sized(t, c, q, l)
    BY <1>3, <1>4, <1>5, <1>6, <1>9 DEF Sized, SameTabs, SameRegion
  <1>11. QED
    BY <1>7, <1>10

(* A resize gives a good screen of the new size. *)
LEMMA ResizeGood ==
  ASSUME NEW c, NEW r, NEW l, IsSize(c, r, l), NEW s, Good(s, c, r, l),
         NEW d, NEW q, IsSize(d, q, l)
  PROVE  Good(Resize(s, d, q), d, q, l)
  <1>1. CASE d = c /\ q = r
    <2>1. Resize(s, d, q) = s
      BY <1>1 DEF Resize, Good, Sound, Sized
    <2>2. QED
      BY <1>1, <2>1
  <1>2. CASE ~(d = c /\ q = r)
    <2>1. s.columns = c /\ s.rows = r /\ Sized(s, c, r, l)
      BY DEF Good, Sound, Sized
    <2>2. PICK wide : wide = IF d # c THEN Widened(s, d) ELSE s
      OBVIOUS
    <2>3. Sized(wide, d, r, l)
      BY <2>1, <2>2, WidenedSized DEF IsSize
    <2>4. PICK tall : tall = IF q < r THEN Shrunk(wide, q) ELSE IF q > r THEN Grown(wide, q) ELSE wide
      OBVIOUS
    <2>5. IsSize(d, r, l) /\ q \in Nat \ {0} /\ r \in Nat
      BY DEF IsSize
    <2>6. Sized(tall, d, q, l)
      <3>1. CASE q < r
        <4>1. q \in 1..(r - 1)
          BY <2>5, <3>1
        <4>2. QED
          BY <2>3, <2>4, <2>5, <3>1, <4>1, ShrunkSized
      <3>2. CASE q > r
        BY <2>3, <2>4, <2>5, <3>2, GrownSized
      <3>3. CASE q = r
        BY <2>3, <2>4, <2>5, <3>3
      <3>4. QED
        BY <2>5, <3>1, <3>2, <3>3
    <2>7. PICK u : u = ResetRegion(tall)
      OBVIOUS
    <2>8. /\ IsScreen(u) /\ SameSize(tall, u) /\ SameText(tall, u) /\ SameCursor(tall, u)
          /\ SameTabs(tall, u) /\ u.top = 0 /\ u.bottom = LastRow(tall)
      BY <2>6, <2>7, ResetRegionIs DEF Sized
    <2>9. LastRow(tall) = q - 1 /\ q - 1 \in Int /\ 0 \in Int
      BY <2>5, <2>6 DEF Sized, LastRow
    <2>10. Sized(u, d, q, l)
      BY <2>6, <2>8, <2>9 DEF Sized, SameSize, SameText, SameCursor, SameTabs
    <2>11. PICK v : v = MoveCursor(u, tall.row, tall.column)
      OBVIOUS
    <2>12. tall.row \in Int /\ tall.column \in Int
      BY <2>6 DEF Sized
    <2>13. /\ Sized(v, d, q, l) /\ SameText(u, v) /\ SameRegion(u, v) /\ SameTabs(u, v)
           /\ v.row \in 0..(q - 1) /\ v.column \in 0..(d - 1) /\ ~v.pendingWrap
      BY <2>10, <2>11, <2>12, OntoScreen
    <2>14. PICK tabs : tabs = DefaultTabs(d)
      OBVIOUS
    <2>15. tabs \subseteq 0..(d - 1) /\ tabs \subseteq Nat
      BY <2>14, DefaultTabsAre DEF IsSize
    <2>16. PICK t : t = Resize(s, d, q)
      OBVIOUS
    <2>17. t = [v EXCEPT !.tabs = tabs]
      BY <1>2, <2>1, <2>2, <2>4, <2>7, <2>11, <2>14, <2>16 DEF Resize
    <2>18. /\ IsScreen(t) /\ SameSize(v, t) /\ SameText(v, t) /\ SameCursor(v, t) /\ SameRegion(v, t)
           /\ t.tabs = tabs
      BY <2>13, <2>17 DEF Sized, IsScreen, SameSize, SameText, SameCursor, SameRegion
    <2>19. Sized(t, d, q, l)
      BY <2>13, <2>15, <2>18 DEF Sized, SameSize, SameText, SameCursor, SameRegion
    <2>20. t.top = 0 /\ t.bottom = q - 1
      BY <2>8, <2>9, <2>13, <2>18 DEF SameRegion
    <2>21. /\ t.row \in 0..(q - 1) /\ t.column \in 0..(d - 1) /\ ~t.pendingWrap
           /\ t.tabs \subseteq 0..(d - 1)
      BY <2>13, <2>15, <2>18 DEF SameCursor
    <2>22. Good(t, d, q, l)
      BY <2>19, <2>20, <2>21 DEF Good, Sound, Region
    <2>23. QED
      BY <2>16, <2>22
  <1>3. QED
    BY <1>1, <1>2

-----------------------------------------------------------------------------
(***************************************************************************)
(* The terminal.                                                           *)
(***************************************************************************)
(* How much history a screen keeps. *)
LimitOf(b) == IF b = "normal" THEN Limit ELSE 0

(* Both screens are good ones, of the size z. *)
Fits(both, z) ==
  /\ both = [normal |-> both["normal"], alternate |-> both["alternate"]]
  /\ Good(both["normal"], z[1], z[2], Limit)
  /\ Good(both["alternate"], z[1], z[2], 0)

ModeRecords ==
  [autoWrap : BOOLEAN, originMode : BOOLEAN, insertMode : BOOLEAN,
   newLineMode : BOOLEAN, alternateScreen : BOOLEAN]

CursorRecords == [row : Int, column : Int, pen : Pens, originMode : BOOLEAN]

SavedRecords == [normal : CursorRecords, alternate : CursorRecords]

(* What a full-screen program found is still there, and its cursor is saved. *)
Untouched ==
  entry # NoEntry =>
    /\ modes.alternateScreen
    /\ entry = <<[lines |-> screens["normal"].lines, wrapped |-> screens["normal"].wrapped,
                  history |-> screens["normal"].history,
                  row |-> screens["normal"].row, column |-> screens["normal"].column,
                  pen |-> saved["normal"].pen, originMode |-> saved["normal"].originMode]>>
    /\ saved["normal"].row = screens["normal"].row
    /\ saved["normal"].column = screens["normal"].column

(* The inductive invariant. *)
Inv ==
  /\ \E z \in Sizes : Fits(screens, z)
  /\ active = Slot(modes.alternateScreen)
  /\ modes \in ModeRecords
  /\ pen \in Pens
  /\ saved \in SavedRecords
  /\ Untouched

LEMMA SizesAre ==
  ASSUME NEW z \in Sizes
  PROVE  /\ z = <<z[1], z[2]>> /\ z[1] \in Nat \ {0, 1} /\ z[2] \in Nat \ {0}
         /\ IsSize(z[1], z[2], Limit) /\ IsSize(z[1], z[2], 0)
  <1>1. z \in (Nat \ {0, 1}) \X (Nat \ {0}) /\ Limit \in Nat
    BY TerminalAssumption
  <1>2. z = <<z[1], z[2]>> /\ z[1] \in Nat \ {0, 1} /\ z[2] \in Nat \ {0}
    BY <1>1
  <1>3. QED
    BY <1>1, <1>2 DEF IsSize

LEMMA SlotsAre ==
  ASSUME NEW m \in BOOLEAN
  PROVE  /\ Slot(m) \in {"normal", "alternate"}
         /\ Slot(m) = "alternate" <=> m
  BY DEF Slot

LEMMA ActiveGood ==
  ASSUME NEW both, NEW z \in Sizes, Fits(both, z), NEW b \in {"normal", "alternate"}
  PROVE  Good(both[b], z[1], z[2], LimitOf(b)) /\ IsSize(z[1], z[2], LimitOf(b))
  BY SizesAre DEF Fits, LimitOf

LEMMA OneChanged ==
  ASSUME NEW both, NEW z \in Sizes, Fits(both, z), NEW b \in {"normal", "alternate"},
         NEW s, Good(s, z[1], z[2], LimitOf(b)), NEW new, new = [both EXCEPT ![b] = s]
  PROVE  /\ Fits(new, z)
         /\ b = "alternate" => new["normal"] = both["normal"]
  <1>1. both = [normal |-> both["normal"], alternate |-> both["alternate"]]
    BY DEF Fits
  <1>2. CASE b = "normal"
    <2>1. new = [normal |-> s, alternate |-> both["alternate"]]
      BY <1>1, <1>2
    <2>2. QED
      BY <1>2, <2>1 DEF Fits, LimitOf
  <1>3. CASE b = "alternate"
    <2>1. new = [normal |-> both["normal"], alternate |-> s]
      BY <1>1, <1>3
    <2>2. QED
      BY <1>3, <2>1 DEF Fits, LimitOf
  <1>4. QED
    BY <1>2, <1>3

LEMMA InitInv == Init => Inv
  <1> SUFFICES ASSUME Init PROVE Inv
    OBVIOUS
  <1>1. FirstSize \in Sizes /\ DefaultPen \in Pens
    BY TerminalAssumption
  <1>2. PICK z \in Sizes : z = FirstSize
    BY <1>1
  <1>3. Good(NewScreen(z[1], z[2], Limit), z[1], z[2], Limit)
    BY SizesAre, FreshGood
  <1>4. Good(NewScreen(z[1], z[2], 0), z[1], z[2], 0)
    BY SizesAre, FreshGood
  <1>5. screens = [normal |-> NewScreen(z[1], z[2], Limit), alternate |-> NewScreen(z[1], z[2], 0)]
    BY <1>2 DEF Init
  <1>6. Fits(screens, z)
    BY <1>3, <1>4, <1>5 DEF Fits
  <1>7. active = Slot(modes.alternateScreen) /\ modes \in ModeRecords
    BY DEF Init, DefaultModes, ModeRecords, Slot
  <1>8. pen \in Pens /\ saved \in SavedRecords
    BY <1>1 DEF Init, NoCursor, SavedRecords, CursorRecords
  <1>9. Untouched
    BY DEF Init, Untouched
  <1>10. QED
    BY <1>6, <1>7, <1>8, <1>9 DEF Inv

(* A step that changes the active screen only, into another good one. *)
LEMMA BecomesInv ==
  ASSUME Inv, NEW z \in Sizes, Fits(screens, z),
         NEW s, Good(s, z[1], z[2], LimitOf(active)),
         screens' = [screens EXCEPT ![active] = s],
         active' = active, modes' \in ModeRecords, modes'.alternateScreen = modes.alternateScreen,
         pen' \in Pens, saved' = saved, entry' = entry
  PROVE  Inv'
  <1>1. active \in {"normal", "alternate"} /\ (active = "alternate" <=> modes.alternateScreen)
    <2>1. modes.alternateScreen \in BOOLEAN
      BY DEF Inv, ModeRecords
    <2>2. active = Slot(modes.alternateScreen)
      BY DEF Inv
    <2>3. QED
      BY <2>1, <2>2, SlotsAre
  <1>2. Fits(screens', z) /\ (active = "alternate" => screens'["normal"] = screens["normal"])
    <2>1. PICK both : both = screens
      OBVIOUS
    <2>2. PICK b \in {"normal", "alternate"} : b = active
      BY <1>1
    <2>3. PICK new : new = [both EXCEPT ![b] = s]
      OBVIOUS
    <2>4. Fits(both, z) /\ Good(s, z[1], z[2], LimitOf(b))
      BY <2>1, <2>2
    <2>5. Fits(new, z) /\ (b = "alternate" => new["normal"] = both["normal"])
      BY <2>3, <2>4, OneChanged, ZenonT(40)
    <2>6. new = screens'
      BY <2>1, <2>2, <2>3
    <2>7. QED
      BY <2>1, <2>2, <2>5, <2>6
  <1>3. Untouched'
    BY <1>1, <1>2 DEF Inv, Untouched
  <1>4. QED
    BY <1>2, <1>3 DEF Inv

-----------------------------------------------------------------------------
(***************************************************************************)
(* What a control function makes of the active screen.                     *)
(***************************************************************************)
(* The screen before is good and so is the one after. *)
Turns(c, r, l) == \E t : Good(t, c, r, l) /\ Becomes(t)

(* The active screen s, and the flags that a control function reads. *)
Given(c, r, l, s) ==
  /\ IsSize(c, r, l) /\ Good(s, c, r, l) /\ Sound(s, c, r, l) /\ s = screen
  /\ s.row \in Int /\ s.column \in Int /\ s.top \in Int /\ s.bottom \in Int /\ s.rows = r
  /\ modes.autoWrap \in BOOLEAN /\ modes.insertMode \in BOOLEAN
  /\ modes.newLineMode \in BOOLEAN /\ modes.originMode \in BOOLEAN

LEMMA GivenIs ==
  ASSUME Inv, NEW z \in Sizes, Fits(screens, z)
  PROVE  \E s : Given(z[1], z[2], LimitOf(active), s)
  <1>1. active \in {"normal", "alternate"} /\ modes \in ModeRecords
    <2>1. modes.alternateScreen \in BOOLEAN
      BY DEF Inv, ModeRecords
    <2>2. active = Slot(modes.alternateScreen) /\ modes \in ModeRecords
      BY DEF Inv
    <2>3. QED
      BY <2>1, <2>2, SlotsAre
  <1>2. PICK s : s = screen
    OBVIOUS
  <1>3. PICK b \in {"normal", "alternate"} : b = active
    BY <1>1
  <1>4. PICK both : both = screens
    OBVIOUS
  <1>5. Good(s, z[1], z[2], LimitOf(b)) /\ IsSize(z[1], z[2], LimitOf(b))
    <2>1. Fits(both, z)
      BY <1>4
    <2>2. s = both[b]
      BY <1>2, <1>3, <1>4 DEF screen
    <2>3. QED
      BY <2>1, <2>2, ActiveGood
  <1>6. /\ modes.autoWrap \in BOOLEAN /\ modes.insertMode \in BOOLEAN
        /\ modes.newLineMode \in BOOLEAN /\ modes.originMode \in BOOLEAN
    BY <1>1 DEF ModeRecords
  <1>7. Given(z[1], z[2], LimitOf(b), s)
    BY <1>2, <1>5, <1>6 DEF Given, Good, Sound, Sized
  <1>8. QED
    BY <1>3, <1>7

LEMMA CountsAre ==
  ASSUME NEW n \in Counts
  PROVE  n \in Nat /\ n \in Int /\ -n \in Int
  BY TerminalAssumption


(* print and execute. *)

LEMMA PrintTurns ==
  ASSUME NEW c, NEW r, NEW l, NEW s, Given(c, r, l, s),
         NEW width \in {1, 2}, PrintCharacter(width)
  PROVE  Turns(c, r, l)
  <1>1. PICK t : t = WriteCharacter(s, width, modes.insertMode, modes.autoWrap)
    OBVIOUS
  <1>2. Good(t, c, r, l)
    BY <1>1, WriteCharacterGood DEF Given
  <1>3. Becomes(t)
    BY <1>1 DEF Given, PrintCharacter
  <1>4. QED
    BY <1>2, <1>3 DEF Turns

LEMMA MarkTurns ==
  ASSUME NEW c, NEW r, NEW l, NEW s, Given(c, r, l, s), PrintMark
  PROVE  Turns(c, r, l)
  <1>1. PICK t : t = Combine(s)
    OBVIOUS
  <1>2. Good(t, c, r, l)
    BY <1>1, CombineGood DEF Given
  <1>3. Becomes(t)
    BY <1>1 DEF Given, PrintMark
  <1>4. QED
    BY <1>2, <1>3 DEF Turns

LEMMA BackspaceTurns ==
  ASSUME NEW c, NEW r, NEW l, NEW s, Given(c, r, l, s), Backspace
  PROVE  Turns(c, r, l)
  <1>1. PICK t : t = IF s.pendingWrap THEN [s EXCEPT !.pendingWrap = FALSE]
                     ELSE IF s.column > 0 THEN SetColumn(s, s.column - 1) ELSE s
    OBVIOUS
  <1>2. Becomes(t)
    BY <1>1 DEF Given, Backspace
  <1>3. Good(t, c, r, l)
    <2>1. CASE s.pendingWrap
      <3>1. t = [s EXCEPT !.pendingWrap = FALSE]
        BY <1>1, <2>1
      <3>2. AtRow(s, s.row, t)
        BY <3>1 DEF Given, Sound, Sized, IsScreen, AtRow, SameSize, SameText, SameRegion, SameTabs
      <3>3. s.row \in 0..(r - 1)
        BY DEF Given, Sound
      <3>4. QED
        BY <3>2, <3>3, AtRowGood DEF Given
    <2>2. CASE ~s.pendingWrap /\ s.column > 0
      <3>1. s.column - 1 \in Int
        BY DEF Given
      <3>2. QED
        BY <1>1, <2>2, <3>1, CarriageReturnGood DEF Given
    <2>3. CASE ~s.pendingWrap /\ ~(s.column > 0)
      BY <1>1, <2>3 DEF Given
    <2>4. QED
      BY <2>1, <2>2, <2>3
  <1>4. QED
    BY <1>2, <1>3 DEF Turns

LEMMA TabTurns ==
  ASSUME NEW c, NEW r, NEW l, NEW s, Given(c, r, l, s), Tab
  PROVE  Turns(c, r, l)
  <1>1. PICK t : t = SetColumn(s, NextTabStop(s, s.column))
    OBVIOUS
  <1>2. NextTabStop(s, s.column) \in Int
    BY NextTabStopIs DEF Given
  <1>3. Good(t, c, r, l)
    BY <1>1, <1>2, CarriageReturnGood DEF Given
  <1>4. Becomes(t)
    BY <1>1 DEF Given, Tab
  <1>5. QED
    BY <1>3, <1>4 DEF Turns

LEMMA LineFeedTurns ==
  ASSUME NEW c, NEW r, NEW l, NEW s, Given(c, r, l, s), LineFeed
  PROVE  Turns(c, r, l)
  <1>1. PICK u : u = Index(s)
    OBVIOUS
  <1>2. Good(u, c, r, l)
    BY <1>1, IndexGood DEF Given
  <1>3. PICK t : t = IF modes.newLineMode THEN CarriageReturn(u) ELSE u
    OBVIOUS
  <1>4. Good(t, c, r, l)
    BY <1>2, <1>3, CarriageReturnGood DEF Given, Good
  <1>5. Becomes(t)
    BY <1>1, <1>3 DEF Given, LineFeed
  <1>6. QED
    BY <1>4, <1>5 DEF Turns

LEMMA ReturnTurns ==
  ASSUME NEW c, NEW r, NEW l, NEW s, Given(c, r, l, s), Return
  PROVE  Turns(c, r, l)
  <1>1. PICK t : t = CarriageReturn(s)
    OBVIOUS
  <1>2. Good(t, c, r, l)
    BY <1>1, CarriageReturnGood DEF Given
  <1>3. Becomes(t)
    BY <1>1 DEF Given, Return
  <1>4. QED
    BY <1>2, <1>3 DEF Turns

(* escDispatch and csiDispatch. *)

LEMMA IndexDownTurns ==
  ASSUME NEW c, NEW r, NEW l, NEW s, Given(c, r, l, s), IndexDown
  PROVE  Turns(c, r, l)
  <1>1. PICK t : t = Index(s)
    OBVIOUS
  <1>2. Good(t, c, r, l)
    BY <1>1, IndexGood DEF Given
  <1>3. Becomes(t)
    BY <1>1 DEF Given, IndexDown
  <1>4. QED
    BY <1>2, <1>3 DEF Turns

LEMMA IndexUpTurns ==
  ASSUME NEW c, NEW r, NEW l, NEW s, Given(c, r, l, s), IndexUp
  PROVE  Turns(c, r, l)
  <1>1. PICK t : t = ReverseIndex(s)
    OBVIOUS
  <1>2. Good(t, c, r, l)
    BY <1>1, ReverseIndexGood DEF Given
  <1>3. Becomes(t)
    BY <1>1 DEF Given, IndexUp
  <1>4. QED
    BY <1>2, <1>3 DEF Turns

LEMMA NewLineTurns ==
  ASSUME NEW c, NEW r, NEW l, NEW s, Given(c, r, l, s), NewLine
  PROVE  Turns(c, r, l)
  <1>1. PICK t : t = NextLine(s)
    OBVIOUS
  <1>2. Good(t, c, r, l)
    BY <1>1, NextLineGood DEF Given
  <1>3. Becomes(t)
    BY <1>1 DEF Given, NewLine
  <1>4. QED
    BY <1>2, <1>3 DEF Turns

LEMMA FillAllTurns ==
  ASSUME NEW c, NEW r, NEW l, NEW s, Given(c, r, l, s), FillAll
  PROVE  Turns(c, r, l)
  <1>1. PICK t : t = FillWith(s)
    OBVIOUS
  <1>2. Good(t, c, r, l)
    BY <1>1, FillWithGood DEF Given
  <1>3. Becomes(t)
    BY <1>1 DEF Given, FillAll
  <1>4. QED
    BY <1>2, <1>3 DEF Turns

LEMMA MoveRelativeTurns ==
  ASSUME NEW c, NEW r, NEW l, NEW s, Given(c, r, l, s),
         NEW dr \in Int,
         NEW dc \in Int, MoveRelative(dr, dc)
  PROVE  Turns(c, r, l)
  <1>1. PICK t : t = MoveCursor(s, s.row + dr, s.column + dc)
    OBVIOUS
  <1>2. s.row + dr \in Int /\ s.column + dc \in Int
    BY DEF Given
  <1>3. Good(t, c, r, l)
    BY <1>1, <1>2, MovedGood DEF Given
  <1>4. Becomes(t)
    BY <1>1 DEF Given, MoveRelative
  <1>5. QED
    BY <1>3, <1>4 DEF Turns

LEMMA MoveLinesTurns ==
  ASSUME NEW c, NEW r, NEW l, NEW s, Given(c, r, l, s), NEW n \in Int, MoveLines(n)
  PROVE  Turns(c, r, l)
  <1>1. PICK u : u = SetRow(s, s.row + n)
    OBVIOUS
  <1>2. s.row + n \in Int
    BY DEF Given
  <1>3. Good(u, c, r, l)
    BY <1>1, <1>2, CarriageReturnGood DEF Given
  <1>4. Good(CarriageReturn(u), c, r, l)
    BY <1>3, CarriageReturnGood DEF Given, Good
  <1>5. Becomes(CarriageReturn(u))
    BY <1>1 DEF Given, MoveLines
  <1>6. QED
    BY <1>4, <1>5 DEF Turns

LEMMA FirstRowIs ==
  ASSUME NEW c, NEW r, NEW l, NEW s, Given(c, r, l, s)
  PROVE  FirstRow \in Int
  BY DEF Given, FirstRow


LEMMA MoveToTurns ==
  ASSUME NEW c, NEW r, NEW l, NEW s, Given(c, r, l, s),
         NEW n \in Int,
         NEW m \in Int, MoveTo(n, m)
  PROVE  Turns(c, r, l)
  <1>1. PICK t : t = MoveCursor(s, n - 1 + FirstRow, m - 1)
    OBVIOUS
  <1>2. n - 1 + FirstRow \in Int /\ m - 1 \in Int
    BY FirstRowIs
  <1>3. Good(t, c, r, l)
    BY <1>1, <1>2, MovedGood DEF Given
  <1>4. Becomes(t)
    BY <1>1 DEF Given, MoveTo, Addressed
  <1>5. QED
    BY <1>3, <1>4 DEF Turns

LEMMA MoveToColumnTurns ==
  ASSUME NEW c, NEW r, NEW l, NEW s, Given(c, r, l, s),
         NEW n \in Int, MoveToColumn(n)
  PROVE  Turns(c, r, l)
  <1>1. PICK t : t = SetColumn(s, n - 1)
    OBVIOUS
  <1>2. n - 1 \in Int
    OBVIOUS
  <1>3. Good(t, c, r, l)
    BY <1>1, <1>2, CarriageReturnGood DEF Given
  <1>4. Becomes(t)
    BY <1>1 DEF Given, MoveToColumn
  <1>5. QED
    BY <1>3, <1>4 DEF Turns

LEMMA MoveToRowTurns ==
  ASSUME NEW c, NEW r, NEW l, NEW s, Given(c, r, l, s),
         NEW n \in Int, MoveToRow(n)
  PROVE  Turns(c, r, l)
  <1>1. PICK t : t = SetRow(s, n - 1)
    OBVIOUS
  <1>2. n - 1 \in Int
    OBVIOUS
  <1>3. Good(t, c, r, l)
    BY <1>1, <1>2, CarriageReturnGood DEF Given
  <1>4. Becomes(t)
    BY <1>1 DEF Given, MoveToRow
  <1>5. QED
    BY <1>3, <1>4 DEF Turns

LEMMA TabForwardTurns ==
  ASSUME NEW c, NEW r, NEW l, NEW s, Given(c, r, l, s), NEW n \in Nat, TabForward(n)
  PROVE  Turns(c, r, l)
  <1>1. PICK k : k = LET at[i \in 0..n] == IF i = 0 THEN s.column ELSE NextTabStop(s, at[i - 1])
                     IN  at[n]
    OBVIOUS
  <1>2. k \in 0..(c - 1)
    BY <1>1, ForwardOnScreen DEF Given
  <1>3. k \in Int
    BY <1>2
  <1>4. Good(SetColumn(s, k), c, r, l)
    BY <1>3, CarriageReturnGood DEF Given
  <1>5. Becomes(SetColumn(s, k))
    BY <1>1 DEF Given, TabForward
  <1>6. QED
    BY <1>4, <1>5 DEF Turns

LEMMA TabBackwardTurns ==
  ASSUME NEW c, NEW r, NEW l, NEW s, Given(c, r, l, s), NEW n \in Nat, TabBackward(n)
  PROVE  Turns(c, r, l)
  <1>1. PICK k : k = LET at[i \in 0..n] == IF i = 0 THEN s.column ELSE PreviousTabStop(s, at[i - 1])
                     IN  at[n]
    OBVIOUS
  <1>2. k \in 0..(c - 1)
    BY <1>1, BackwardOnScreen DEF Given
  <1>3. k \in Int
    BY <1>2
  <1>4. Good(SetColumn(s, k), c, r, l)
    BY <1>3, CarriageReturnGood DEF Given
  <1>5. Becomes(SetColumn(s, k))
    BY <1>1 DEF Given, TabBackward
  <1>6. QED
    BY <1>4, <1>5 DEF Turns

LEMMA TabStopTurns ==
  ASSUME NEW c, NEW r, NEW l, NEW s, Given(c, r, l, s), TabStop
  PROVE  Turns(c, r, l)
  <1>1. PICK t : t = SetTabStop(s)
    OBVIOUS
  <1>2. Good(t, c, r, l)
    BY <1>1, TabStopsGood DEF Given
  <1>3. Becomes(t)
    BY <1>1 DEF Given, TabStop
  <1>4. QED
    BY <1>2, <1>3 DEF Turns

LEMMA NoTabStopTurns ==
  ASSUME NEW c, NEW r, NEW l, NEW s, Given(c, r, l, s), NoTabStop
  PROVE  Turns(c, r, l)
  <1>1. PICK t : t = ClearTabStop(s)
    OBVIOUS
  <1>2. Good(t, c, r, l)
    BY <1>1, TabStopsGood DEF Given
  <1>3. Becomes(t)
    BY <1>1 DEF Given, NoTabStop
  <1>4. QED
    BY <1>2, <1>3 DEF Turns

LEMMA NoTabsTurns ==
  ASSUME NEW c, NEW r, NEW l, NEW s, Given(c, r, l, s), NoTabs
  PROVE  Turns(c, r, l)
  <1>1. PICK t : t = ClearAllTabStops(s)
    OBVIOUS
  <1>2. Good(t, c, r, l)
    BY <1>1, TabStopsGood DEF Given
  <1>3. Becomes(t)
    BY <1>1 DEF Given, NoTabs
  <1>4. QED
    BY <1>2, <1>3 DEF Turns

LEMMA EraseDisplayTurns ==
  ASSUME NEW c, NEW r, NEW l, NEW s, Given(c, r, l, s),
         NEW mode, EraseDisplay(mode)
  PROVE  Turns(c, r, l)
  <1>1. PICK t : t = EraseInDisplay(s, mode)
    OBVIOUS
  <1>2. Good(t, c, r, l)
    BY <1>1, EraseInDisplayGood DEF Given
  <1>3. Becomes(t)
    BY <1>1 DEF Given, EraseDisplay
  <1>4. QED
    BY <1>2, <1>3 DEF Turns

LEMMA EraseHistoryTurns ==
  ASSUME NEW c, NEW r, NEW l, NEW s, Given(c, r, l, s), EraseHistory
  PROVE  Turns(c, r, l)
  <1>1. PICK t : t = ClearScrollback(EraseInDisplay(s, "all"))
    OBVIOUS
  <1>2. Good(EraseInDisplay(s, "all"), c, r, l)
    BY EraseInDisplayGood DEF Given
  <1>3. Good(t, c, r, l)
    BY <1>1, <1>2, ClearScrollbackGood DEF Given
  <1>4. Becomes(t)
    BY <1>1 DEF Given, EraseHistory
  <1>5. QED
    BY <1>3, <1>4 DEF Turns

LEMMA EraseLineTurns ==
  ASSUME NEW c, NEW r, NEW l, NEW s, Given(c, r, l, s),
         NEW mode, EraseLine(mode)
  PROVE  Turns(c, r, l)
  <1>1. PICK t : t = EraseInLine(s, mode)
    OBVIOUS
  <1>2. Good(t, c, r, l)
    BY <1>1, EraseInLineGood DEF Given
  <1>3. Becomes(t)
    BY <1>1 DEF Given, EraseLine
  <1>4. QED
    BY <1>2, <1>3 DEF Turns

LEMMA EraseCharsTurns ==
  ASSUME NEW c, NEW r, NEW l, NEW s, Given(c, r, l, s),
         NEW n \in Int, EraseChars(n)
  PROVE  Turns(c, r, l)
  <1>1. PICK t : t = EraseCharacters(s, n)
    OBVIOUS
  <1>2. Good(t, c, r, l)
    BY <1>1, EraseCharactersGood DEF Given
  <1>3. Becomes(t)
    BY <1>1 DEF Given, EraseChars
  <1>4. QED
    BY <1>2, <1>3 DEF Turns

LEMMA InsertCharsTurns ==
  ASSUME NEW c, NEW r, NEW l, NEW s, Given(c, r, l, s),
         NEW n \in Int, InsertChars(n)
  PROVE  Turns(c, r, l)
  <1>1. PICK t : t = InsertCharacters(s, n)
    OBVIOUS
  <1>2. Good(t, c, r, l)
    BY <1>1, InsertCharactersGood DEF Given
  <1>3. Becomes(t)
    BY <1>1 DEF Given, InsertChars
  <1>4. QED
    BY <1>2, <1>3 DEF Turns

LEMMA DeleteCharsTurns ==
  ASSUME NEW c, NEW r, NEW l, NEW s, Given(c, r, l, s),
         NEW n \in Int, DeleteChars(n)
  PROVE  Turns(c, r, l)
  <1>1. PICK t : t = DeleteCharacters(s, n)
    OBVIOUS
  <1>2. Good(t, c, r, l)
    BY <1>1, DeleteCharactersGood DEF Given
  <1>3. Becomes(t)
    BY <1>1 DEF Given, DeleteChars
  <1>4. QED
    BY <1>2, <1>3 DEF Turns

LEMMA InsertRowsTurns ==
  ASSUME NEW c, NEW r, NEW l, NEW s, Given(c, r, l, s),
         NEW n \in Int, InsertRows(n)
  PROVE  Turns(c, r, l)
  <1>1. PICK t : t = InsertLines(s, n)
    OBVIOUS
  <1>2. Good(t, c, r, l)
    BY <1>1, InsertLinesGood DEF Given
  <1>3. Becomes(t)
    BY <1>1 DEF Given, InsertRows
  <1>4. QED
    BY <1>2, <1>3 DEF Turns

LEMMA DeleteRowsTurns ==
  ASSUME NEW c, NEW r, NEW l, NEW s, Given(c, r, l, s),
         NEW n \in Int, DeleteRows(n)
  PROVE  Turns(c, r, l)
  <1>1. PICK t : t = DeleteLines(s, n)
    OBVIOUS
  <1>2. Good(t, c, r, l)
    BY <1>1, DeleteLinesGood DEF Given
  <1>3. Becomes(t)
    BY <1>1 DEF Given, DeleteRows
  <1>4. QED
    BY <1>2, <1>3 DEF Turns

LEMMA ScrollTurns ==
  ASSUME NEW c, NEW r, NEW l, NEW s, Given(c, r, l, s), NEW n \in Int, Scroll(n)
  PROVE  Turns(c, r, l)
  <1>1. PICK t : t = ScrollUp(s, n)
    OBVIOUS
  <1>2. Sound(t, c, r, l) /\ SameCursor(s, t)
    BY <1>1, ScrollUpSound DEF Given
  <1>3. Good(t, c, r, l)
    BY <1>2 DEF Given, Good, SameCursor
  <1>4. Becomes(t)
    BY <1>1 DEF Given, Scroll
  <1>5. QED
    BY <1>3, <1>4 DEF Turns

LEMMA ScrollBackTurns ==
  ASSUME NEW c, NEW r, NEW l, NEW s, Given(c, r, l, s), NEW n \in Int, ScrollBack(n)
  PROVE  Turns(c, r, l)
  <1>1. PICK t : t = ScrollDown(s, n)
    OBVIOUS
  <1>2. Sound(t, c, r, l) /\ SameCursor(s, t)
    BY <1>1, ScrollDownSound DEF Given
  <1>3. Good(t, c, r, l)
    BY <1>2 DEF Given, Good, SameCursor
  <1>4. Becomes(t)
    BY <1>1 DEF Given, ScrollBack
  <1>5. QED
    BY <1>3, <1>4 DEF Turns

LEMMA HomeGood ==
  ASSUME NEW c, NEW r, NEW l, IsSize(c, r, l), NEW s, Sound(s, c, r, l), NEW originMode
  PROVE  Good(Home(s, originMode), c, r, l)
  <1>1. PICK k : k = IF originMode THEN s.top ELSE 0
    OBVIOUS
  <1>2. k \in Int /\ 0 \in Int
    BY <1>1 DEF Sound, Sized
  <1>3. Good(MoveCursor(s, k, 0), c, r, l)
    BY <1>2, MovedGood
  <1>4. QED
    BY <1>1, <1>3 DEF Home

LEMMA SetMarginsTurns ==
  ASSUME NEW c, NEW r, NEW l, NEW s, Given(c, r, l, s), NEW n \in Int, NEW m \in Int,
         SetMargins(n, m)
  PROVE  Turns(c, r, l)
  <1>1. PICK u : u = SetRegion(s, n - 1, m - 1)
    OBVIOUS
  <1>2. n - 1 \in Int /\ m - 1 \in Int
    OBVIOUS
  <1>3. Sound(u, c, r, l)
    BY <1>1, <1>2, SetRegionSound DEF Given
  <1>4. Good(Home(u, modes.originMode), c, r, l)
    BY <1>3, HomeGood DEF Given
  <1>5. Becomes(Home(u, modes.originMode))
    BY <1>1 DEF Given, SetMargins
  <1>6. QED
    BY <1>4, <1>5 DEF Turns

LEMMA ResetMarginsTurns ==
  ASSUME NEW c, NEW r, NEW l, NEW s, Given(c, r, l, s), ResetMargins
  PROVE  Turns(c, r, l)
  <1>1. PICK u : u = ResetRegion(s)
    OBVIOUS
  <1>2. Sound(u, c, r, l)
    BY <1>1, ResetRegionSound DEF Given
  <1>3. Good(Home(u, modes.originMode), c, r, l)
    BY <1>2, HomeGood DEF Given
  <1>4. Becomes(Home(u, modes.originMode))
    BY <1>1 DEF Given, ResetMargins
  <1>5. QED
    BY <1>3, <1>4 DEF Turns

LEMMA ColumnModeTurns ==
  ASSUME NEW c, NEW r, NEW l, NEW s, Given(c, r, l, s), ColumnMode
  PROVE  Turns(c, r, l)
  <1>1. PICK u : u = EraseInDisplay(s, "all")
    OBVIOUS
  <1>2. Sound(u, c, r, l) /\ 0 \in Int
    BY <1>1, EraseInDisplayGood DEF Given, Good
  <1>3. Good(MoveCursor(u, 0, 0), c, r, l)
    BY <1>2, MovedGood DEF Given
  <1>4. Becomes(MoveCursor(u, 0, 0))
    BY <1>1 DEF Given, ColumnMode
  <1>5. QED
    BY <1>3, <1>4 DEF Turns

LEMMA ClearScreenTurns ==
  ASSUME NEW c, NEW r, NEW l, NEW s, Given(c, r, l, s), ClearScreen
  PROVE  Turns(c, r, l)
  <1>1. PICK u : u = EraseInDisplay(s, "all")
    OBVIOUS
  <1>2. Good(u, c, r, l)
    BY <1>1, EraseInDisplayGood DEF Given
  <1>3. PICK v : v = ClearScrollback(u)
    OBVIOUS
  <1>4. Sound(v, c, r, l) /\ 0 \in Int
    BY <1>2, <1>3, ClearScrollbackGood DEF Given, Good
  <1>5. Good(MoveCursor(v, 0, 0), c, r, l)
    BY <1>4, MovedGood DEF Given
  <1>6. Becomes(MoveCursor(v, 0, 0))
    BY <1>1, <1>3 DEF Given, ClearScreen
  <1>7. QED
    BY <1>5, <1>6 DEF Turns

-----------------------------------------------------------------------------
(***************************************************************************)
(* The steps.                                                              *)
(***************************************************************************)
(* The steps that change nothing but the active screen. *)
ScreenStep == Write \/ Move \/ Feed \/ ShiftRows \/ Edit \/ Tabs \/ Margins

LEMMA WriteTurns ==
  ASSUME NEW c, NEW r, NEW l, NEW s, Given(c, r, l, s), Write
  PROVE  Turns(c, r, l)
  <1>1. ASSUME NEW width \in {1, 2}, PrintCharacter(width) PROVE Turns(c, r, l)
    BY <1>1, PrintTurns
  <1>2. ASSUME PrintMark PROVE Turns(c, r, l)
    BY <1>2, MarkTurns
  <1>3. QED
    BY <1>1, <1>2 DEF Write

LEMMA MoveTurns ==
  ASSUME NEW c, NEW r, NEW l, NEW s, Given(c, r, l, s), Move
  PROVE  Turns(c, r, l)
  <1>1. CASE Backspace \/ Tab \/ Return
    BY <1>1, BackspaceTurns, TabTurns, ReturnTurns
  <1>2. ASSUME NEW n \in Counts,
               \/ MoveRelative(n, 0) \/ MoveRelative(-n, 0)
               \/ MoveRelative(0, n) \/ MoveRelative(0, -n)
        PROVE  Turns(c, r, l)
    <2>1. PICK k \in Int : k = -n
      BY CountsAre
    <2>2. n \in Int /\ 0 \in Int
      BY CountsAre
    <2>3. ASSUME NEW i \in Int, NEW j \in Int, MoveRelative(i, j) PROVE Turns(c, r, l)
      BY <2>3, MoveRelativeTurns
    <2>4. MoveRelative(n, 0) \/ MoveRelative(k, 0) \/ MoveRelative(0, n) \/ MoveRelative(0, k)
      BY <1>2, <2>1
    <2>5. QED
      BY <2>2, <2>3, <2>4
  <1>3. ASSUME NEW n \in Counts, MoveLines(n) \/ MoveLines(-n) PROVE Turns(c, r, l)
    <2>1. PICK k \in Int : k = -n
      BY CountsAre
    <2>2. n \in Int
      BY CountsAre
    <2>3. ASSUME NEW i \in Int, MoveLines(i) PROVE Turns(c, r, l)
      BY <2>3, MoveLinesTurns
    <2>4. MoveLines(n) \/ MoveLines(k)
      BY <1>3, <2>1
    <2>5. QED
      BY <2>2, <2>3, <2>4
  <1>4. ASSUME NEW n \in Counts, MoveToRow(n) \/ MoveToColumn(n) PROVE Turns(c, r, l)
    BY <1>4, CountsAre, MoveToRowTurns, MoveToColumnTurns
  <1>5. ASSUME NEW n \in Counts, TabForward(n) \/ TabBackward(n) PROVE Turns(c, r, l)
    BY <1>5, CountsAre, TabForwardTurns, TabBackwardTurns
  <1>6. ASSUME NEW n \in Counts, NEW m \in Counts, MoveTo(n, m) PROVE Turns(c, r, l)
    <2>1. n \in Int /\ m \in Int
      BY CountsAre
    <2>2. QED
      BY <1>6, <2>1, MoveToTurns
  <1>7. QED
    BY <1>1, <1>2, <1>3, <1>4, <1>5, <1>6 DEF Move

LEMMA EditTurns ==
  ASSUME NEW c, NEW r, NEW l, NEW s, Given(c, r, l, s), Edit
  PROVE  Turns(c, r, l)
  <1>1. ASSUME NEW mode \in Modes, EraseDisplay(mode) \/ EraseLine(mode) PROVE Turns(c, r, l)
    BY <1>1, EraseDisplayTurns, EraseLineTurns
  <1>2. ASSUME NEW n \in Counts, EraseChars(n) \/ InsertChars(n) \/ DeleteChars(n)
        PROVE  Turns(c, r, l)
    BY <1>2, CountsAre, EraseCharsTurns, InsertCharsTurns, DeleteCharsTurns
  <1>3. CASE EraseHistory \/ FillAll \/ ColumnMode \/ ClearScreen
    BY <1>3, EraseHistoryTurns, FillAllTurns, ColumnModeTurns, ClearScreenTurns
  <1>4. QED
    BY <1>1, <1>2, <1>3 DEF Edit

LEMMA ScreenStepTurns ==
  ASSUME NEW c, NEW r, NEW l, NEW s, Given(c, r, l, s), ScreenStep
  PROVE  Turns(c, r, l)
  <1>1. CASE Write
    BY <1>1, WriteTurns
  <1>2. CASE Move
    BY <1>2, MoveTurns
  <1>3. CASE Feed
    BY <1>3, LineFeedTurns, IndexDownTurns, IndexUpTurns, NewLineTurns DEF Feed
  <1>4. CASE ShiftRows
    <2>1. PICK n \in Counts : InsertRows(n) \/ DeleteRows(n) \/ Scroll(n) \/ ScrollBack(n)
      BY <1>4 DEF ShiftRows
    <2>2. n \in Int
      BY CountsAre
    <2>3. QED
      BY <2>1, <2>2, InsertRowsTurns, DeleteRowsTurns, ScrollTurns, ScrollBackTurns
  <1>5. CASE Edit
    BY <1>5, EditTurns
  <1>6. CASE Tabs
    BY <1>6, TabStopTurns, NoTabStopTurns, NoTabsTurns DEF Tabs
  <1>7. CASE Margins
    <2>1. ASSUME NEW n \in Counts, NEW m \in Counts \cup {screen.rows}, SetMargins(n, m)
          PROVE  Turns(c, r, l)
      <3>1. n \in Int /\ m \in Int
        BY CountsAre DEF Given, IsSize
      <3>2. QED
        BY <2>1, <3>1, SetMarginsTurns
    <2>2. QED
      BY <1>7, <2>1, ResetMarginsTurns DEF Margins
  <1>8. QED
    BY <1>1, <1>2, <1>3, <1>4, <1>5, <1>6, <1>7 DEF ScreenStep

LEMMA ScreenStepInv ==
  ASSUME Inv, ScreenStep
  PROVE  Inv'
  <1>1. PICK z \in Sizes : Fits(screens, z)
    BY DEF Inv
  <1>2. PICK s : Given(z[1], z[2], LimitOf(active), s)
    BY <1>1, GivenIs
  <1>3. Turns(z[1], z[2], LimitOf(active))
    BY <1>2, ScreenStepTurns
  <1>4. PICK t : Good(t, z[1], z[2], LimitOf(active)) /\ Becomes(t)
    BY <1>3 DEF Turns
  <1>5. /\ screens' = [screens EXCEPT ![active] = t] /\ active' = active /\ modes' = modes
        /\ pen' = pen /\ saved' = saved /\ entry' = entry
    BY <1>4 DEF Becomes
  <1>6. modes' \in ModeRecords /\ modes'.alternateScreen = modes.alternateScreen /\ pen' \in Pens
    BY <1>5 DEF Inv
  <1>7. QED
    BY <1>1, <1>4, <1>5, <1>6, BecomesInv

LEMMA SetModeInv ==
  ASSUME Inv, NEW x \in BOOLEAN, NEW mode \in {"autoWrap", "insertMode", "newLineMode"},
         SetMode(mode, x)
  PROVE  Inv'
  <1>1. /\ screens' = screens /\ active' = active /\ pen' = pen /\ saved' = saved /\ entry' = entry
        /\ modes' = [modes EXCEPT ![mode] = x]
    BY DEF SetMode
  <1>2. modes \in ModeRecords
    BY DEF Inv
  <1>3. modes' \in ModeRecords /\ modes'.alternateScreen = modes.alternateScreen
    BY <1>1, <1>2 DEF ModeRecords
  <1>4. Untouched'
    BY <1>1, <1>3 DEF Inv, Untouched
  <1>5. QED
    BY <1>1, <1>3, <1>4 DEF Inv

LEMMA SetPenInv ==
  ASSUME Inv, NEW p \in Pens, SetPen(p)
  PROVE  Inv'
  <1>1. /\ screens' = screens /\ active' = active /\ pen' = p /\ saved' = saved /\ entry' = entry
        /\ modes' = modes
    BY DEF SetPen
  <1>2. Untouched'
    BY <1>1 DEF Inv, Untouched
  <1>3. QED
    BY <1>1, <1>2 DEF Inv

LEMMA OriginModeInv ==
  ASSUME Inv, NEW x \in BOOLEAN, OriginMode(x)
  PROVE  Inv'
  <1>1. PICK z \in Sizes : Fits(screens, z)
    BY DEF Inv
  <1>2. PICK s : Given(z[1], z[2], LimitOf(active), s)
    BY <1>1, GivenIs
  <1>3. PICK t : t = Home(s, x)
    OBVIOUS
  <1>4. Good(t, z[1], z[2], LimitOf(active))
    BY <1>2, <1>3, HomeGood DEF Given
  <1>5. /\ screens' = [screens EXCEPT ![active] = t] /\ active' = active /\ pen' = pen
        /\ saved' = saved /\ entry' = entry /\ modes' = [modes EXCEPT !.originMode = x]
    BY <1>2, <1>3 DEF OriginMode, Given
  <1>6. modes \in ModeRecords /\ pen \in Pens
    BY DEF Inv
  <1>7. modes' \in ModeRecords /\ modes'.alternateScreen = modes.alternateScreen /\ pen' \in Pens
    BY <1>5, <1>6 DEF ModeRecords
  <1>8. QED
    BY <1>1, <1>4, <1>5, <1>7, BecomesInv

LEMMA SoftResetInv ==
  ASSUME Inv, SoftReset
  PROVE  Inv'
  <1>1. PICK z \in Sizes : Fits(screens, z)
    BY DEF Inv
  <1>2. PICK s : Given(z[1], z[2], LimitOf(active), s)
    BY <1>1, GivenIs
  <1>3. PICK u : u = ResetRegion(s)
    OBVIOUS
  <1>4. Sound(u, z[1], z[2], LimitOf(active)) /\ 0 \in Int
    BY <1>2, <1>3, ResetRegionSound DEF Given
  <1>5. PICK t : t = MoveCursor(u, 0, 0)
    OBVIOUS
  <1>6. Good(t, z[1], z[2], LimitOf(active))
    BY <1>2, <1>4, <1>5, MovedGood DEF Given
  <1>7. screens' = [screens EXCEPT ![active] = t]
    BY <1>2, <1>3, <1>5 DEF SoftReset, Given, screen
  <1>8. /\ active' = active /\ pen' = DefaultPen /\ saved' = saved /\ entry' = entry
        /\ modes' = [modes EXCEPT !.originMode = FALSE, !.insertMode = FALSE, !.autoWrap = TRUE]
    BY DEF SoftReset
  <1>9. modes \in ModeRecords /\ DefaultPen \in Pens
    BY TerminalAssumption DEF Inv
  <1>10. modes' \in ModeRecords /\ modes'.alternateScreen = modes.alternateScreen /\ pen' \in Pens
    BY <1>8, <1>9 DEF ModeRecords
  <1>11. QED
    BY <1>1, <1>6, <1>7, <1>8, <1>10, BecomesInv

LEMMA SavedIs ==
  ASSUME Inv
  PROVE  /\ Saved \in SavedRecords
         /\ modes.alternateScreen => Saved["normal"] = saved["normal"]
         /\ ~modes.alternateScreen =>
              Saved["normal"] = [row |-> screens["normal"].row, column |-> screens["normal"].column,
                                 pen |-> pen, originMode |-> modes.originMode]
  <1>1. PICK z \in Sizes : Fits(screens, z)
    BY DEF Inv
  <1>2. PICK s : Given(z[1], z[2], LimitOf(active), s)
    BY <1>1, GivenIs
  <1>3. PICK now : now = [row |-> s.row, column |-> s.column, pen |-> pen, originMode |-> modes.originMode]
    OBVIOUS
  <1>4. now \in CursorRecords
    BY <1>2, <1>3 DEF CursorRecords, Given, Inv
  <1>5. PICK b \in {"normal", "alternate"} : b = Slot(modes.alternateScreen)
    BY SlotsAre DEF Inv, ModeRecords
  <1>6. Saved = [saved EXCEPT ![b] = now] /\ saved \in SavedRecords
    BY <1>2, <1>3, <1>5 DEF Saved, Given, Inv
  <1>7. Saved \in SavedRecords
    BY <1>4, <1>6 DEF SavedRecords
  <1>8. CASE modes.alternateScreen
    <2>1. b = "alternate"
      BY <1>5, <1>8 DEF Slot
    <2>2. Saved["normal"] = saved["normal"]
      BY <1>6, <2>1 DEF SavedRecords
    <2>3. QED
      BY <1>7, <1>8, <2>2
  <1>9. CASE ~modes.alternateScreen
    <2>1. b = "normal" /\ active = "normal"
      BY <1>5, <1>9 DEF Slot, Inv
    <2>2. Saved["normal"] = now
      BY <1>6, <2>1 DEF SavedRecords
    <2>3. s = screens["normal"]
      BY <1>2, <2>1 DEF Given, screen
    <2>4. QED
      BY <1>3, <1>7, <1>9, <2>2, <2>3
  <1>10. QED
    BY <1>8, <1>9

LEMMA SaveCursorInv ==
  ASSUME Inv, SaveCursor
  PROVE  Inv'
  <1>1. /\ screens' = screens /\ active' = active /\ pen' = pen /\ entry' = entry
        /\ modes' = modes /\ saved' = Saved
    BY DEF SaveCursor
  <1>2. Saved \in SavedRecords /\ (modes.alternateScreen => Saved["normal"] = saved["normal"])
    BY SavedIs
  <1>3. Untouched'
    BY <1>1, <1>2 DEF Inv, Untouched
  <1>4. QED
    BY <1>1, <1>2, <1>3 DEF Inv

LEMMA RestoreCursorInv ==
  ASSUME Inv, RestoreCursor
  PROVE  Inv'
  <1>1. PICK z \in Sizes : Fits(screens, z)
    BY DEF Inv
  <1>2. PICK s : Given(z[1], z[2], LimitOf(active), s)
    BY <1>1, GivenIs
  <1>3. PICK b \in {"normal", "alternate"} : b = Slot(modes.alternateScreen)
    BY SlotsAre DEF Inv, ModeRecords
  <1>4. PICK cursor : cursor = saved[b]
    OBVIOUS
  <1>5. cursor.row \in Int /\ cursor.column \in Int /\ cursor.pen \in Pens /\ cursor.originMode \in BOOLEAN
    BY <1>4 DEF Inv, SavedRecords, CursorRecords
  <1>6. PICK t : t = MoveCursor(s, cursor.row, cursor.column)
    OBVIOUS
  <1>7. Good(t, z[1], z[2], LimitOf(active))
    BY <1>2, <1>5, <1>6, MovedGood DEF Given
  <1>8. /\ screens' = [screens EXCEPT ![active] = t]
        /\ pen' = cursor.pen /\ modes' = [modes EXCEPT !.originMode = cursor.originMode]
        /\ active' = active /\ saved' = saved /\ entry' = entry
    BY <1>2, <1>3, <1>4, <1>6 DEF RestoreCursor, Restored, Given, screen
  <1>9. modes \in ModeRecords
    BY DEF Inv
  <1>10. modes' \in ModeRecords /\ modes'.alternateScreen = modes.alternateScreen /\ pen' \in Pens
    BY <1>5, <1>8, <1>9 DEF ModeRecords
  <1>11. QED
    BY <1>1, <1>7, <1>8, <1>10, BecomesInv

LEMMA UseAlternateScreenInv ==
  ASSUME Inv, NEW x \in BOOLEAN, UseAlternateScreen(x)
  PROVE  Inv'
  <1>1. /\ screens' = screens /\ pen' = pen /\ saved' = saved
        /\ modes' = [modes EXCEPT !.alternateScreen = x]
        /\ entry' = IF x THEN entry ELSE NoEntry
        /\ active' = IF modes.alternateScreen = x THEN active ELSE Slot(x)
    BY DEF UseAlternateScreen
  <1>2. modes \in ModeRecords /\ active = Slot(modes.alternateScreen)
    BY DEF Inv
  <1>3. modes' \in ModeRecords /\ modes'.alternateScreen = x
    BY <1>1, <1>2 DEF ModeRecords
  <1>4. active' = Slot(modes'.alternateScreen)
    <2>1. CASE modes.alternateScreen = x
      BY <1>1, <1>2, <1>3, <2>1
    <2>2. CASE modes.alternateScreen # x
      BY <1>1, <1>3, <2>2
    <2>3. QED
      BY <2>1, <2>2
  <1>5. Untouched'
    <2>1. CASE x
      <3>1. entry' = entry /\ modes'.alternateScreen
        BY <1>1, <1>3, <2>1
      <3>2. QED
        BY <1>1, <3>1 DEF Inv, Untouched
    <2>2. CASE ~x
      <3>1. entry' = NoEntry
        BY <1>1, <2>2
      <3>2. QED
        BY <3>1 DEF Untouched
    <2>3. QED
      BY <2>1, <2>2
  <1>6. QED
    BY <1>1, <1>3, <1>4, <1>5 DEF Inv

LEMMA EnterFullScreenInv ==
  ASSUME Inv, EnterFullScreen
  PROVE  Inv'
  <1>1. PICK z \in Sizes : Fits(screens, z)
    BY DEF Inv
  <1>2. /\ saved' = Saved /\ screens' = Entered(TRUE) /\ active' = "alternate" /\ pen' = pen
        /\ modes' = [modes EXCEPT !.alternateScreen = TRUE]
        /\ entry' = IF modes.alternateScreen THEN entry ELSE <<Found(normal, pen, modes)>>
    BY DEF EnterFullScreen
  <1>3. modes \in ModeRecords /\ pen \in Pens
    BY DEF Inv
  <1>4. modes' \in ModeRecords /\ modes'.alternateScreen
    BY <1>2, <1>3 DEF ModeRecords
  <1>5. active' = Slot(modes'.alternateScreen)
    BY <1>2, <1>4 DEF Slot
  <1>6. /\ Saved \in SavedRecords
        /\ modes.alternateScreen => Saved["normal"] = saved["normal"]
        /\ ~modes.alternateScreen =>
             Saved["normal"] = [row |-> screens["normal"].row, column |-> screens["normal"].column,
                                pen |-> pen, originMode |-> modes.originMode]
    BY SavedIs
  <1>7. CASE modes.alternateScreen
    <2>1. screens' = screens /\ entry' = entry
      BY <1>2, <1>7 DEF Entered
    <2>2. Untouched'
      BY <1>2, <1>4, <1>6, <1>7, <2>1 DEF Inv, Untouched
    <2>3. QED
      BY <1>2, <1>3, <1>4, <1>5, <1>6, <2>1, <2>2 DEF Inv
  <1>8. CASE ~modes.alternateScreen
    <2>1. PICK u : u = screens["alternate"]
      OBVIOUS
    <2>2. Good(u, z[1], z[2], 0) /\ IsSize(z[1], z[2], 0)
      BY <1>1, <2>1, SizesAre DEF Fits
    <2>3. PICK v : v = Reset(u)
      OBVIOUS
    <2>4. Sound(v, z[1], z[2], 0) /\ 0 \in Int
      BY <2>2, <2>3, ResetGood DEF Good
    <2>5. PICK t : t = MoveCursor(v, 0, 0)
      OBVIOUS
    <2>6. Good(t, z[1], z[2], LimitOf("alternate"))
      BY <2>2, <2>4, <2>5, MovedGood DEF LimitOf
    <2>7. screens' = [screens EXCEPT !["alternate"] = t]
      BY <1>2, <1>8, <2>1, <2>3, <2>5 DEF Entered
    <2>8. Fits(screens', z) /\ screens'["normal"] = screens["normal"]
      <3>1. screens' = [normal |-> screens["normal"], alternate |-> t]
        BY <1>1, <2>7 DEF Fits
      <3>2. QED
        BY <1>1, <2>6, <3>1 DEF Fits, LimitOf
    <2>9. entry' = <<Found(screens["normal"], pen, modes)>>
      BY <1>2, <1>8 DEF normal
    <2>10. Untouched'
      <3>1. PICK n : n = screens["normal"]
        OBVIOUS
      <3>2. PICK w : w = saved'["normal"]
        OBVIOUS
      <3>3. w = [row |-> n.row, column |-> n.column, pen |-> pen, originMode |-> modes.originMode]
        BY <1>2, <1>6, <1>8, <3>1, <3>2
      <3>4. w.row = n.row /\ w.column = n.column /\ w.pen = pen /\ w.originMode = modes.originMode
        BY <3>3
      <3>5. entry' = <<[lines |-> n.lines, wrapped |-> n.wrapped, history |-> n.history,
                        row |-> n.row, column |-> n.column,
                        pen |-> w.pen, originMode |-> w.originMode]>>
        BY <2>9, <3>1, <3>4 DEF Found
      <3>6. screens'["normal"] = n
        BY <2>8, <3>1
      <3>7. QED
        BY <1>4, <3>2, <3>4, <3>5, <3>6 DEF Untouched
    <2>11. QED
      BY <1>2, <1>3, <1>4, <1>5, <1>6, <2>8, <2>10 DEF Inv
  <1>9. QED
    BY <1>7, <1>8

LEMMA LeaveFullScreenInv ==
  ASSUME Inv, LeaveFullScreen
  PROVE  Inv'
  <1>1. PICK z \in Sizes : Fits(screens, z)
    BY DEF Inv
  <1>2. PICK s : s = screens["normal"]
    OBVIOUS
  <1>3. PICK cursor : cursor = saved["normal"]
    OBVIOUS
  <1>4. cursor.row \in Int /\ cursor.column \in Int /\ cursor.pen \in Pens /\ cursor.originMode \in BOOLEAN
    BY <1>3 DEF Inv, SavedRecords, CursorRecords
  <1>5. PICK t : t = MoveCursor(s, cursor.row, cursor.column)
    OBVIOUS
  <1>6. Good(t, z[1], z[2], Limit)
    BY <1>1, <1>2, <1>4, <1>5, MovedGood, SizesAre DEF Fits, Good
  <1>7. /\ screens' = [screens EXCEPT !["normal"] = t] /\ active' = "normal" /\ pen' = cursor.pen
        /\ modes' = [modes EXCEPT !.alternateScreen = FALSE, !.originMode = cursor.originMode]
        /\ entry' = NoEntry /\ saved' = saved
    BY <1>2, <1>3, <1>5 DEF LeaveFullScreen, Restored
  <1>8. Fits(screens', z)
    <2>1. screens' = [normal |-> t, alternate |-> screens["alternate"]]
      BY <1>1, <1>7 DEF Fits
    <2>2. QED
      BY <1>1, <1>6, <2>1 DEF Fits
  <1>9. modes \in ModeRecords
    BY DEF Inv
  <1>10. modes' \in ModeRecords /\ ~modes'.alternateScreen
    BY <1>4, <1>7, <1>9 DEF ModeRecords
  <1>11. active' = Slot(modes'.alternateScreen)
    BY <1>7, <1>10 DEF Slot
  <1>12. Untouched'
    BY <1>7 DEF Untouched
  <1>13. QED
    BY <1>4, <1>7, <1>8, <1>10, <1>11, <1>12 DEF Inv

LEMMA FullResetInv ==
  ASSUME Inv, FullReset
  PROVE  Inv'
  <1>1. PICK z \in Sizes : Fits(screens, z)
    BY DEF Inv
  <1>2. PICK s : s = Reset(screens["normal"])
    OBVIOUS
  <1>3. PICK u : u = Reset(screens["alternate"])
    OBVIOUS
  <1>4. Good(s, z[1], z[2], Limit)
    BY <1>1, <1>2, ResetGood, SizesAre DEF Fits
  <1>5. Good(u, z[1], z[2], 0)
    BY <1>1, <1>3, ResetGood, SizesAre DEF Fits
  <1>6. PICK t : t = ClearScrollback(s)
    OBVIOUS
  <1>7. Good(t, z[1], z[2], Limit)
    BY <1>4, <1>6, ClearScrollbackGood, SizesAre
  <1>8. screens' = [normal |-> t, alternate |-> u]
    BY <1>2, <1>3, <1>6 DEF FullReset, normal
  <1>9. Fits(screens', z)
    BY <1>5, <1>7, <1>8 DEF Fits
  <1>10. /\ active' = "normal" /\ modes' = DefaultModes /\ pen' = DefaultPen /\ entry' = NoEntry
         /\ saved' = [normal |-> NoCursor, alternate |-> NoCursor]
    BY DEF FullReset
  <1>11. modes' \in ModeRecords /\ active' = Slot(modes'.alternateScreen)
    BY <1>10 DEF DefaultModes, ModeRecords, Slot
  <1>12. pen' \in Pens /\ saved' \in SavedRecords
    BY <1>10, TerminalAssumption DEF NoCursor, SavedRecords, CursorRecords
  <1>13. Untouched'
    BY <1>10 DEF Untouched
  <1>14. QED
    BY <1>9, <1>11, <1>12, <1>13 DEF Inv

LEMMA ResizeWindowInv ==
  ASSUME Inv, NEW size \in Sizes, ResizeWindow(size)
  PROVE  Inv'
  <1>1. PICK z \in Sizes : Fits(screens, z)
    BY DEF Inv
  <1>2. PICK s : s = Resize(screens["normal"], size[1], size[2])
    OBVIOUS
  <1>3. PICK u : u = Resize(screens["alternate"], size[1], size[2])
    OBVIOUS
  <1>4. Good(s, size[1], size[2], Limit)
    BY <1>1, <1>2, ResizeGood, SizesAre DEF Fits
  <1>5. Good(u, size[1], size[2], 0)
    BY <1>1, <1>3, ResizeGood, SizesAre DEF Fits
  <1>6. DOMAIN screens = {"normal", "alternate"}
    BY <1>1 DEF Fits
  <1>7. screens' = [b \in {"normal", "alternate"} |-> Resize(screens[b], size[1], size[2])]
    BY <1>6 DEF ResizeWindow
  <1>8. screens' = [normal |-> s, alternate |-> u]
    BY <1>2, <1>3, <1>7
  <1>9. Fits(screens', size)
    BY <1>4, <1>5, <1>8 DEF Fits
  <1>10. active' = active /\ modes' = modes /\ pen' = pen /\ entry' = NoEntry /\ saved' = saved
    BY DEF ResizeWindow
  <1>11. Untouched'
    BY <1>10 DEF Untouched
  <1>12. QED
    BY <1>9, <1>10, <1>11 DEF Inv

LEMMA NextInv == Inv /\ [Next]_vars => Inv'
  <1> SUFFICES ASSUME Inv, [Next]_vars PROVE Inv'
    OBVIOUS
  <1>1. CASE ScreenStep
    BY <1>1, ScreenStepInv
  <1>2. CASE Settings
    <2>1. PICK x \in BOOLEAN :
            \/ \E mode \in {"autoWrap", "insertMode", "newLineMode"} : SetMode(mode, x)
            \/ OriginMode(x)
            \/ UseAlternateScreen(x)
      BY <1>2 DEF Settings
    <2>2. QED
      BY <2>1, SetModeInv, OriginModeInv, UseAlternateScreenInv
  <1>3. CASE Cursors
    BY <1>3, SaveCursorInv, RestoreCursorInv, EnterFullScreenInv, LeaveFullScreenInv DEF Cursors
  <1>4. CASE FullReset \/ SoftReset
    BY <1>4, FullResetInv, SoftResetInv
  <1>5. ASSUME NEW p \in Pens, SetPen(p) PROVE Inv'
    BY <1>5, SetPenInv
  <1>6. ASSUME NEW size \in Sizes, ResizeWindow(size) PROVE Inv'
    BY <1>6, ResizeWindowInv
  <1>7. CASE UNCHANGED vars
    <2>1. /\ screens' = screens /\ active' = active /\ pen' = pen /\ entry' = entry
          /\ modes' = modes /\ saved' = saved
      BY <1>7 DEF vars
    <2>2. QED
      BY <2>1 DEF Inv, Untouched
  <1>8. QED
    BY <1>1, <1>2, <1>3, <1>4, <1>5, <1>6, <1>7 DEF Next, ScreenStep

(* Both screens are good ones of one size of the window, the active one is    *)
(* the one the mode flag names, and what a full-screen program found is       *)
(* untouched while it runs.                                                   *)
THEOREM Invariance == Spec => []Inv
  <1>1. Init => Inv
    BY InitInv
  <1>2. Inv /\ [Next]_vars => Inv'
    BY NextInv
  <1>3. QED
    BY <1>1, <1>2, PTL DEF Spec

LEMMA GoodIsOK ==
  ASSUME NEW c, NEW r, NEW l, IsSize(c, r, l), NEW s, Good(s, c, r, l)
  PROVE  ScreenOK(s, c, r, l)
  <1>1. /\ Sound(s, c, r, l) /\ Sized(s, c, r, l) /\ (s.pendingWrap => s.column = c - 1)
    BY DEF Good, Sound
  <1>2. s.lines \in [0..(r - 1) -> [0..(c - 1) -> Cells]] /\ s.wrapped \in [0..(r - 1) -> BOOLEAN]
    BY <1>1 DEF Sized, Plane, Line, Flags
  <1>3. \A i \in 1..Len(s.history) : s.history[i] \in [0..(c - 1) -> Cells]
    <2>1. PICK h : h = s.history
      OBVIOUS
    <2>2. PICK P : P = [0..(c - 1) -> Cells]
      OBVIOUS
    <2>3. h \in Seq(P)
      BY <1>1, <2>1, <2>2 DEF Sized, Line
    <2>4. \A i \in 1..Len(h) : h[i] \in P
      BY <2>3
    <2>5. QED
      BY <2>1, <2>2, <2>4
  <1>4. PendingWrapAtEdge(s)
    BY <1>1 DEF PendingWrapAtEdge, LastColumn, Sized
  <1>5. RegionOK(s)
    BY <1>1 DEF RegionOK, FullRegion, LastRow, Sound, Sized, Region
  <1>6. /\ s.columns = c /\ s.rows = r /\ s.limit = l /\ Len(s.history) <= l
        /\ s.tabs \subseteq 0..(c - 1) /\ s.row \in 0..(r - 1) /\ s.column \in 0..(c - 1)
        /\ s.pendingWrap \in BOOLEAN
    BY <1>1 DEF Sound, Sized
  <1>7. QED
    BY <1>2, <1>3, <1>4, <1>5, <1>6 DEF ScreenOK

(* The position that is reported is addressed back to. *)
LEMMA ReportedIsAddressed ==
  ASSUME NEW c, NEW r, NEW l, NEW s, Given(c, r, l, s)
  PROVE  ReportLeadsBack
  <1>1. PICK k \in Int : k = FirstRow
    BY FirstRowIs
  <1>2. s.row \in 0..(r - 1) /\ s.column \in 0..(c - 1) /\ IsScreen(s)
    BY DEF Given, Sound, Sized
  <1>3. LastRow(s) = r - 1 /\ LastColumn(s) = c - 1 /\ c \in Nat /\ r \in Nat /\ s = screen
    BY DEF Given, Sound, Sized, LastRow, LastColumn, IsSize
  <1>4. PICK i \in Int : i = s.row + 1 - k
    BY <1>2
  <1>5. PICK j \in Int : j = s.column + 1
    BY <1>2
  <1>6. i - 1 + k = s.row /\ j - 1 = s.column
    BY <1>2, <1>4, <1>5
  <1>7. PICK there : there = MoveCursor(s, s.row, s.column)
    OBVIOUS
  <1>8. there.row = Clamp(s.row, 0, r - 1) /\ there.column = Clamp(s.column, 0, c - 1)
    BY <1>2, <1>3, <1>7, MoveCursorIs
  <1>9. there.row = s.row /\ there.column = s.column
    BY <1>2, <1>3, <1>8 DEF Clamp
  <1>10. ReportedPosition = <<i, j>>
    BY <1>1, <1>3, <1>4, <1>5 DEF ReportedPosition
  <1>11. Addressed(i, j) = there
    BY <1>1, <1>3, <1>6, <1>7 DEF Addressed
  <1>12. QED
    BY <1>3, <1>9, <1>10, <1>11 DEF ReportLeadsBack

(* Both screens have the size of the window in every vector, the margins, the *)
(* cursor and the tab stops are on them, a wrap is pending in the last column *)
(* only, the active screen is the one the mode flag names, and a program that *)
(* asks where the cursor is and sends it there finds it where it was.         *)
THEOREM TypeCorrect == Spec => []TypeOK
  <1>1. ASSUME Inv PROVE TypeOK
    <2>1. PICK z \in Sizes : Fits(screens, z)
      BY <1>1 DEF Inv
    <2>2. PICK s : Given(z[1], z[2], LimitOf(active), s)
      BY <1>1, <2>1, GivenIs
    <2>3. screen.columns = z[1] /\ screen.rows = z[2]
      BY <2>2 DEF Given, Sound, Sized
    <2>4. <<screen.columns, screen.rows>> \in Sizes
      BY <2>3, SizesAre
    <2>5. ScreenOK(screens["normal"], z[1], z[2], Limit)
      BY <2>1, GoodIsOK, SizesAre DEF Fits
    <2>6. ScreenOK(screens["alternate"], z[1], z[2], 0)
      BY <2>1, GoodIsOK, SizesAre DEF Fits
    <2>7. DOMAIN screens = {"normal", "alternate"}
      BY <2>1 DEF Fits
    <2>8. \A b \in DOMAIN screens :
            ScreenOK(screens[b], screen.columns, screen.rows, IF b = "normal" THEN Limit ELSE 0)
      BY <2>3, <2>5, <2>6, <2>7
    <2>9. modes \in [DOMAIN DefaultModes -> BOOLEAN]
      BY <1>1 DEF Inv, ModeRecords, DefaultModes
    <2>10. ReportLeadsBack
      BY <2>2, ReportedIsAddressed
    <2>11. active = Slot(modes.alternateScreen) /\ pen \in Pens
      BY <1>1 DEF Inv
    <2>12. QED
      BY <2>4, <2>8, <2>9, <2>10, <2>11 DEF TypeOK
  <1>2. QED
    BY <1>1, Invariance, PTL

(* A full-screen program that came with 1049 and goes with 1049 leaves the    *)
(* normal screen, its history, the cursor, the pen and the origin mode as it  *)
(* found them, whatever it did in between.                                    *)
THEOREM LeavesNoTraceCorrect == Spec => LeavesNoTrace
  <1> DEFINE Trace == LeaveFullScreen /\ entry # NoEntry => entry = <<Found(normal', pen', modes')>>
  <1>1. ASSUME Inv, LeaveFullScreen, entry # NoEntry
        PROVE  entry = <<Found(normal', pen', modes')>>
    <2>1. PICK z \in Sizes : Fits(screens, z)
      BY <1>1 DEF Inv
    <2>2. PICK n : n = screens["normal"]
      OBVIOUS
    <2>3. PICK w : w = saved["normal"]
      OBVIOUS
    <2>4. /\ entry = <<[lines |-> n.lines, wrapped |-> n.wrapped, history |-> n.history,
                        row |-> n.row, column |-> n.column, pen |-> w.pen, originMode |-> w.originMode]>>
          /\ w.row = n.row /\ w.column = n.column
      BY <1>1, <2>2, <2>3 DEF Inv, Untouched
    <2>5. PICK t : t = MoveCursor(n, w.row, w.column)
      OBVIOUS
    <2>6. /\ IsScreen(n) /\ n.row \in 0..(z[2] - 1) /\ n.column \in 0..(z[1] - 1)
          /\ n.columns = z[1] /\ n.rows = z[2]
      BY <2>1, <2>2 DEF Fits, Good, Sound, Sized
    <2>7. /\ SameText(n, t) /\ t.row = Clamp(n.row, 0, z[2] - 1) /\ t.column = Clamp(n.column, 0, z[1] - 1)
      BY <2>4, <2>5, <2>6, MoveCursorIs DEF LastRow, LastColumn
    <2>8. t.row = n.row /\ t.column = n.column
      <3>1. PICK c \in Nat : c = z[1]
        BY SizesAre
      <3>2. PICK r \in Nat : r = z[2]
        BY SizesAre
      <3>3. QED
        BY <2>6, <2>7, <3>1, <3>2 DEF Clamp
    <2>9. normal' = t
      <3>1. screens' = [screens EXCEPT !["normal"] = t]
        BY <1>1, <2>2, <2>3, <2>5 DEF LeaveFullScreen, Restored
      <3>2. "normal" \in DOMAIN screens
        BY <2>1 DEF Fits
      <3>3. QED
        BY <3>1, <3>2 DEF normal
    <2>10. modes \in ModeRecords
      BY <1>1 DEF Inv
    <2>11. pen' = w.pen /\ modes'.originMode = w.originMode
      BY <1>1, <2>3, <2>10 DEF LeaveFullScreen, ModeRecords
    <2>12. Found(normal', pen', modes') =
             [lines |-> n.lines, wrapped |-> n.wrapped, history |-> n.history,
              row |-> n.row, column |-> n.column, pen |-> w.pen, originMode |-> w.originMode]
      BY <2>7, <2>8, <2>9, <2>11 DEF Found, SameText
    <2>13. QED
      BY <2>4, <2>12
  <1>2. ASSUME Inv, [Next]_vars PROVE [Trace]_vars
    BY <1>1, <1>2
  <1>3. QED
    BY <1>2, Invariance, PTL DEF Spec, LeavesNoTrace

-----------------------------------------------------------------------------
(***************************************************************************)
(* Lines that move, and their flags.                                       *)
(***************************************************************************)
(* Row i of t is blank and not wrapped, or it is row j of s with its flag. *)
Comes(s, t, i, j) == t.lines[i] = s.lines[j] /\ t.wrapped[i] = s.wrapped[j]

Blank(s, t, i) == t.lines[i] = BlankLine(s.columns) /\ ~t.wrapped[i]

RowsMove(s, t, r) == \A i \in 0..(r - 1) : Blank(s, t, i) \/ \E j \in 0..(r - 1) : Comes(s, t, i, j)

LEMMA OpenedMoves ==
  ASSUME NEW c, NEW r, NEW l, IsSize(c, r, l), NEW s, Sound(s, c, r, l), NEW from \in Nat, NEW n \in Nat,
         NEW t, t.lines = OpenGap(s.lines, from, s.bottom, n, BlankLine(s.columns)),
         t.wrapped = OpenGap(s.wrapped, from, s.bottom, n, FALSE)
  PROVE  RowsMove(s, t, r)
  <1>1. PICK m \in Int : m = r - 1
    BY DEF IsSize
  <1>2. PICK to \in Int : to = s.bottom
    BY DEF Sound, Sized
  <1>3. to <= m
    <2>1. s.bottom \in 0..(r - 1)
      BY RegionIs
    <2>2. QED
      BY <1>1, <1>2, <2>1
  <1>4. PICK P : P = Line(c)
    OBVIOUS
  <1>5. PICK f \in [0..m -> P] : f = s.lines
    BY <1>1, <1>4 DEF Sound, Sized, Plane
  <1>6. PICK g \in [0..m -> BOOLEAN] : g = s.wrapped
    BY <1>1 DEF Sound, Sized, Flags
  <1>7. PICK x \in P : x = BlankLine(s.columns)
    BY <1>4, BlankLineIs DEF Sound, Sized, IsSize
  <1>8. PICK no \in BOOLEAN : ~no
    OBVIOUS
  <1>9. \A i \in 0..m : OpenGap(f, from, to, n, x)[i] =
          IF i < from \/ i > to THEN f[i] ELSE IF i < from + n THEN x ELSE f[i - n]
    BY DEF OpenGap
  <1>10. \A i \in 0..m : OpenGap(g, from, to, n, no)[i] =
           IF i < from \/ i > to THEN g[i] ELSE IF i < from + n THEN no ELSE g[i - n]
    BY DEF OpenGap
  <1>11. t.lines = OpenGap(f, from, to, n, x)
    BY <1>2, <1>5, <1>7
  <1>12. t.wrapped = OpenGap(g, from, to, n, no)
    <2>1. no = FALSE
      BY <1>8
    <2>2. QED
      BY <1>2, <1>6, <2>1
  <1>13. ASSUME NEW i \in 0..m
         PROVE  Blank(s, t, i) \/ \E j \in 0..m : Comes(s, t, i, j)
    <2>1. CASE i < from \/ i > to
      <3>1. Comes(s, t, i, i)
        BY <1>5, <1>6, <1>9, <1>10, <1>11, <1>12, <2>1 DEF Comes
      <3>2. QED
        BY <3>1
    <2>2. CASE ~(i < from \/ i > to) /\ i < from + n
      BY <1>7, <1>8, <1>9, <1>10, <1>11, <1>12, <2>2 DEF Blank
    <2>3. CASE ~(i < from \/ i > to) /\ ~(i < from + n)
      <3>1. i - n \in 0..m
        BY <2>3
      <3>2. Comes(s, t, i, i - n)
        BY <1>5, <1>6, <1>9, <1>10, <1>11, <1>12, <2>3 DEF Comes
      <3>3. QED
        BY <3>1, <3>2
    <2>4. QED
      BY <2>1, <2>2, <2>3
  <1>14. QED
    BY <1>1, <1>13 DEF RowsMove

LEMMA ClosedMoves ==
  ASSUME NEW c, NEW r, NEW l, IsSize(c, r, l), NEW s, Sound(s, c, r, l), NEW from \in Nat, NEW n \in Nat,
         NEW t, t.lines = CloseGap(s.lines, from, s.bottom, n, BlankLine(s.columns)),
         t.wrapped = CloseGap(s.wrapped, from, s.bottom, n, FALSE)
  PROVE  RowsMove(s, t, r)
  <1>1. PICK m \in Int : m = r - 1
    BY DEF IsSize
  <1>2. PICK to \in Int : to = s.bottom
    BY DEF Sound, Sized
  <1>3. to <= m
    <2>1. s.bottom \in 0..(r - 1)
      BY RegionIs
    <2>2. QED
      BY <1>1, <1>2, <2>1
  <1>4. PICK P : P = Line(c)
    OBVIOUS
  <1>5. PICK f \in [0..m -> P] : f = s.lines
    BY <1>1, <1>4 DEF Sound, Sized, Plane
  <1>6. PICK g \in [0..m -> BOOLEAN] : g = s.wrapped
    BY <1>1 DEF Sound, Sized, Flags
  <1>7. PICK x \in P : x = BlankLine(s.columns)
    BY <1>4, BlankLineIs DEF Sound, Sized, IsSize
  <1>8. PICK no \in BOOLEAN : ~no
    OBVIOUS
  <1>9. \A i \in 0..m : CloseGap(f, from, to, n, x)[i] =
          IF i < from \/ i > to THEN f[i] ELSE IF i > to - n THEN x ELSE f[i + n]
    BY DEF CloseGap
  <1>10. \A i \in 0..m : CloseGap(g, from, to, n, no)[i] =
           IF i < from \/ i > to THEN g[i] ELSE IF i > to - n THEN no ELSE g[i + n]
    BY DEF CloseGap
  <1>11. t.lines = CloseGap(f, from, to, n, x)
    BY <1>2, <1>5, <1>7
  <1>12. t.wrapped = CloseGap(g, from, to, n, no)
    <2>1. no = FALSE
      BY <1>8
    <2>2. QED
      BY <1>2, <1>6, <2>1
  <1>13. ASSUME NEW i \in 0..m
         PROVE  Blank(s, t, i) \/ \E j \in 0..m : Comes(s, t, i, j)
    <2>1. CASE i < from \/ i > to
      <3>1. Comes(s, t, i, i)
        BY <1>5, <1>6, <1>9, <1>10, <1>11, <1>12, <2>1 DEF Comes
      <3>2. QED
        BY <3>1
    <2>2. CASE ~(i < from \/ i > to) /\ i > to - n
      BY <1>7, <1>8, <1>9, <1>10, <1>11, <1>12, <2>2 DEF Blank
    <2>3. CASE ~(i < from \/ i > to) /\ ~(i > to - n)
      <3>1. i + n \in 0..m
        BY <1>3, <2>3
      <3>2. Comes(s, t, i, i + n)
        BY <1>5, <1>6, <1>9, <1>10, <1>11, <1>12, <2>3 DEF Comes
      <3>3. QED
        BY <3>1, <3>2
    <2>4. QED
      BY <2>1, <2>2, <2>3
  <1>14. QED
    BY <1>1, <1>13 DEF RowsMove

LEMMA SameRowsMove ==
  ASSUME NEW r, NEW s, NEW t, t.lines = s.lines, t.wrapped = s.wrapped
  PROVE  RowsMove(s, t, r)
  BY DEF RowsMove, Comes

LEMMA ScrollUpMoves ==
  ASSUME NEW c, NEW r, NEW l, IsSize(c, r, l), NEW s, Sound(s, c, r, l),
         NEW count \in Int, NEW t, t = ScrollUp(s, count)
  PROVE  RowsMove(s, t, r)
  <1>1. PICK n : n = Clamp(count, 1, s.bottom - s.top + 1)
    OBVIOUS
  <1>2. n \in Nat /\ s.top \in Nat
    <2>1. n \in 1..r /\ s.top \in 0..(r - 1)
      BY <1>1, RegionIs
    <2>2. QED
      BY <2>1
  <1>3. IsScreen(s)
    BY DEF Sound, Sized
  <1>4. /\ t.lines = CloseGap(s.lines, s.top, s.bottom, n, BlankLine(s.columns))
        /\ t.wrapped = CloseGap(s.wrapped, s.top, s.bottom, n, FALSE)
    BY <1>1, <1>3, ScrollUpIs
  <1>5. QED
    BY <1>2, <1>4, ClosedMoves

LEMMA ScrollDownMoves ==
  ASSUME NEW c, NEW r, NEW l, IsSize(c, r, l), NEW s, Sound(s, c, r, l),
         NEW count \in Int, NEW t, t = ScrollDown(s, count)
  PROVE  RowsMove(s, t, r)
  <1>1. PICK n : n = Clamp(count, 1, s.bottom - s.top + 1)
    OBVIOUS
  <1>2. n \in Nat /\ s.top \in Nat
    <2>1. n \in 1..r /\ s.top \in 0..(r - 1)
      BY <1>1, RegionIs
    <2>2. QED
      BY <2>1
  <1>3. IsScreen(s)
    BY DEF Sound, Sized
  <1>4. /\ t.lines = OpenGap(s.lines, s.top, s.bottom, n, BlankLine(s.columns))
        /\ t.wrapped = OpenGap(s.wrapped, s.top, s.bottom, n, FALSE)
    BY <1>1, <1>3, ScrollDownIs
  <1>5. QED
    BY <1>2, <1>4, OpenedMoves

LEMMA InsertLinesMoves ==
  ASSUME NEW c, NEW r, NEW l, IsSize(c, r, l), NEW s, Sound(s, c, r, l),
         NEW count \in Int, NEW t, t = InsertLines(s, count)
  PROVE  RowsMove(s, t, r)
  <1>1. PICK n : n = Clamp(count, 1, s.bottom - s.row + 1)
    OBVIOUS
  <1>2. IsScreen(s)
    BY DEF Sound, Sized
  <1>3. CASE InRegion(s)
    <2>1. n \in Nat /\ s.row \in Nat
      <3>1. n \in 1..r /\ s.row \in Nat
        BY <1>1, <1>3, RowCount
      <3>2. QED
        BY <3>1
    <2>2. /\ t.lines = OpenGap(s.lines, s.row, s.bottom, n, BlankLine(s.columns))
          /\ t.wrapped = OpenGap(s.wrapped, s.row, s.bottom, n, FALSE)
      BY <1>1, <1>2, <1>3, InsertLinesIs, ZenonT(40)
    <2>3. QED
      BY <2>1, <2>2, OpenedMoves
  <1>4. CASE ~InRegion(s)
    <2>1. t = s
      BY <1>4 DEF InsertLines
    <2>2. QED
      BY <2>1, SameRowsMove
  <1>5. QED
    BY <1>3, <1>4

LEMMA DeleteLinesMoves ==
  ASSUME NEW c, NEW r, NEW l, IsSize(c, r, l), NEW s, Sound(s, c, r, l),
         NEW count \in Int, NEW t, t = DeleteLines(s, count)
  PROVE  RowsMove(s, t, r)
  <1>1. PICK n : n = Clamp(count, 1, s.bottom - s.row + 1)
    OBVIOUS
  <1>2. IsScreen(s)
    BY DEF Sound, Sized
  <1>3. CASE InRegion(s)
    <2>1. n \in Nat /\ s.row \in Nat
      <3>1. n \in 1..r /\ s.row \in Nat
        BY <1>1, <1>3, RowCount
      <3>2. QED
        BY <3>1
    <2>2. /\ t.lines = CloseGap(s.lines, s.row, s.bottom, n, BlankLine(s.columns))
          /\ t.wrapped = CloseGap(s.wrapped, s.row, s.bottom, n, FALSE)
      BY <1>1, <1>2, <1>3, DeleteLinesIs, ZenonT(40)
    <2>3. QED
      BY <2>1, <2>2, ClosedMoves
  <1>4. CASE ~InRegion(s)
    <2>1. t = s
      BY <1>4 DEF DeleteLines
    <2>2. QED
      BY <2>1, SameRowsMove
  <1>5. QED
    BY <1>3, <1>4

LEMMA IndexMoves ==
  ASSUME NEW c, NEW r, NEW l, IsSize(c, r, l), NEW s, Sound(s, c, r, l), NEW t, t = Index(s)
  PROVE  RowsMove(s, t, r)
  <1>1. IsScreen(s)
    BY DEF Sound, Sized
  <1>2. CASE s.row = s.bottom
    <2>1. PICK u : u = ScrollUp(s, 1)
      OBVIOUS
    <2>2. Sound(u, c, r, l) /\ RowsMove(s, u, r)
      BY <2>1, ScrollUpSound, ScrollUpMoves
    <2>3. AtRow(u, u.row, t)
      BY <1>1, <1>2, <2>1, <2>2, IndexIs DEF Sound, Sized
    <2>4. t.lines = u.lines /\ t.wrapped = u.wrapped
      BY <2>3 DEF AtRow, SameText
    <2>5. QED
      BY <2>2, <2>4 DEF RowsMove, Blank, Comes
  <1>3. CASE s.row # s.bottom
    <2>1. t.lines = s.lines /\ t.wrapped = s.wrapped
      BY <1>1, <1>3, IndexIs DEF AtRow, SameText
    <2>2. QED
      BY <2>1, SameRowsMove
  <1>4. QED
    BY <1>2, <1>3

LEMMA ReverseIndexMoves ==
  ASSUME NEW c, NEW r, NEW l, IsSize(c, r, l), NEW s, Sound(s, c, r, l), NEW t, t = ReverseIndex(s)
  PROVE  RowsMove(s, t, r)
  <1>1. IsScreen(s)
    BY DEF Sound, Sized
  <1>2. CASE s.row = s.top
    <2>1. PICK u : u = ScrollDown(s, 1)
      OBVIOUS
    <2>2. Sound(u, c, r, l) /\ RowsMove(s, u, r)
      BY <2>1, ScrollDownSound, ScrollDownMoves
    <2>3. AtRow(u, u.row, t)
      BY <1>1, <1>2, <2>1, <2>2, ReverseIndexIs DEF Sound, Sized
    <2>4. t.lines = u.lines /\ t.wrapped = u.wrapped
      BY <2>3 DEF AtRow, SameText
    <2>5. QED
      BY <2>2, <2>4 DEF RowsMove, Blank, Comes
  <1>3. CASE s.row # s.top
    <2>1. t.lines = s.lines /\ t.wrapped = s.wrapped
      BY <1>1, <1>3, ReverseIndexIs DEF AtRow, SameText
    <2>2. QED
      BY <2>1, SameRowsMove
  <1>4. QED
    BY <1>2, <1>3

(* The active screen after a step that changes it alone. *)
LEMMA ScreenAfter ==
  ASSUME Inv, NEW t, Becomes(t)
  PROVE  screen' = t
  <1>1. PICK z \in Sizes : Fits(screens, z)
    BY DEF Inv
  <1>2. DOMAIN screens = {"normal", "alternate"}
    BY <1>1 DEF Fits
  <1>3. active \in {"normal", "alternate"}
    <2>1. modes.alternateScreen \in BOOLEAN /\ active = Slot(modes.alternateScreen)
      BY DEF Inv, ModeRecords
    <2>2. QED
      BY <2>1, SlotsAre
  <1>4. screens' = [screens EXCEPT ![active] = t] /\ active' = active
    BY DEF Becomes
  <1>5. QED
    BY <1>2, <1>3, <1>4 DEF screen

(* A line keeps its wrap flag when rows are inserted, deleted or scrolled: no *)
(* row that moves gets the flag of another, and the rows that come in are not *)
(* wrapped.                                                                   *)
THEOREM FlagsMoveWithLinesCorrect == Spec => FlagsMoveWithLines
  <1> DEFINE Rows(s) == {<<s.lines[r], s.wrapped[r]>> : r \in DOMAIN s.lines}
             Keep == Rows(screen') \subseteq
                       Rows(screen) \cup {<<BlankLine(screen.columns), FALSE>>}
  <1>1. ASSUME Inv, ShiftRows \/ IndexUp
        PROVE  Keep
    <2>1. PICK z \in Sizes : Fits(screens, z)
      BY <1>1 DEF Inv
    <2>2. PICK s : Given(z[1], z[2], LimitOf(active), s)
      BY <1>1, <2>1, GivenIs
    <2>3. PICK c, r, l : c = z[1] /\ r = z[2] /\ l = LimitOf(active)
      OBVIOUS
    <2>4. Given(c, r, l, s)
      BY <2>2, <2>3
    <2>5. IsSize(c, r, l) /\ Sound(s, c, r, l) /\ Good(s, c, r, l) /\ s = screen
      BY <2>4 DEF Given
    <2>6. \E t : Good(t, c, r, l) /\ RowsMove(s, t, r) /\ Becomes(t)
      <3>1. CASE IndexUp
        <4>1. PICK t : t = ReverseIndex(s)
          OBVIOUS
        <4>2. Becomes(t)
          BY <2>5, <3>1, <4>1 DEF IndexUp
        <4>3. QED
          BY <2>5, <4>1, <4>2, ReverseIndexGood, ReverseIndexMoves
      <3>2. CASE ShiftRows
        <4>1. PICK n \in Counts : InsertRows(n) \/ DeleteRows(n) \/ Scroll(n) \/ ScrollBack(n)
          BY <3>2 DEF ShiftRows
        <4>2. n \in Int
          BY CountsAre
        <4>3. CASE InsertRows(n)
          <5>1. PICK t : t = InsertLines(s, n)
            OBVIOUS
          <5>2. Becomes(t)
            BY <2>5, <4>3, <5>1 DEF InsertRows
          <5>3. QED
            BY <2>5, <4>2, <5>1, <5>2, InsertLinesGood, InsertLinesMoves
        <4>4. CASE DeleteRows(n)
          <5>1. PICK t : t = DeleteLines(s, n)
            OBVIOUS
          <5>2. Becomes(t)
            BY <2>5, <4>4, <5>1 DEF DeleteRows
          <5>3. QED
            BY <2>5, <4>2, <5>1, <5>2, DeleteLinesGood, DeleteLinesMoves
        <4>5. CASE Scroll(n)
          <5>1. PICK t : t = ScrollUp(s, n)
            OBVIOUS
          <5>2. Becomes(t)
            BY <2>5, <4>5, <5>1 DEF Scroll
          <5>3. Good(t, c, r, l)
            BY <2>5, <4>2, <5>1, ScrollUpSound DEF Good, SameCursor
          <5>4. QED
            BY <2>5, <4>2, <5>1, <5>2, <5>3, ScrollUpMoves
        <4>6. CASE ScrollBack(n)
          <5>1. PICK t : t = ScrollDown(s, n)
            OBVIOUS
          <5>2. Becomes(t)
            BY <2>5, <4>6, <5>1 DEF ScrollBack
          <5>3. Good(t, c, r, l)
            BY <2>5, <4>2, <5>1, ScrollDownSound DEF Good, SameCursor
          <5>4. QED
            BY <2>5, <4>2, <5>1, <5>2, <5>3, ScrollDownMoves
        <4>7. QED
          BY <4>1, <4>3, <4>4, <4>5, <4>6
      <3>3. QED
        BY <1>1, <3>1, <3>2
    <2>7. PICK t : Good(t, c, r, l) /\ RowsMove(s, t, r) /\ Becomes(t)
      BY <2>6
    <2>8. screen' = t
      BY <1>1, <2>7, ScreenAfter
    <2>9. DOMAIN t.lines = 0..(r - 1) /\ DOMAIN s.lines = 0..(r - 1) /\ t.wrapped \in Flags(r)
      BY <2>5, <2>7 DEF Good, Sound, Sized, Plane
    <2>10. PICK blank : blank = BlankLine(s.columns)
      OBVIOUS
    <2>11. ASSUME NEW i \in 0..(r - 1)
           PROVE  <<t.lines[i], t.wrapped[i]>> \in Rows(s) \cup {<<blank, FALSE>>}
      <3>1. CASE Blank(s, t, i)
        <4>1. t.lines[i] = blank /\ ~t.wrapped[i] /\ t.wrapped[i] \in BOOLEAN
          BY <2>9, <2>10, <3>1 DEF Blank, Flags
        <4>2. t.wrapped[i] = FALSE
          BY <4>1
        <4>3. QED
          BY <4>1, <4>2
      <3>2. ASSUME NEW j \in 0..(r - 1), Comes(s, t, i, j)
            PROVE  <<t.lines[i], t.wrapped[i]>> \in Rows(s)
        BY <2>9, <3>2 DEF Comes
      <3>3. QED
        BY <2>7, <3>1, <3>2 DEF RowsMove
    <2>12. Rows(t) \subseteq Rows(s) \cup {<<blank, FALSE>>}
      BY <2>9, <2>11
    <2>13. QED
      BY <2>5, <2>8, <2>10, <2>12
  <1>2. ASSUME Inv, [Next]_vars PROVE [ShiftRows \/ IndexUp => Keep]_vars
    BY <1>1, <1>2
  <1>3. QED
    BY <1>2, Invariance, PTL DEF Spec, FlagsMoveWithLines

-----------------------------------------------------------------------------
(***************************************************************************)
(* Glyphs of two columns.                                                  *)
(***************************************************************************)
(* Whole, cell by cell, for a line of m + 1 cells. *)
Joined(f, m) ==
  \A j \in 0..m :
    /\ f[j] = "lead" => j + 1 <= m /\ f[j + 1] = "trail"
    /\ f[j] = "trail" => j - 1 >= 0 /\ f[j - 1] = "lead"

LEMMA WholeIsJoined ==
  ASSUME NEW m \in Nat, NEW f, DOMAIN f = 0..m
  PROVE  Whole(f) <=> Joined(f, m)
  <1>1. \A j \in 0..m : (j + 1 \in 0..m <=> j + 1 <= m) /\ (j - 1 \in 0..m <=> j - 1 >= 0)
    OBVIOUS
  <1>2. QED
    BY <1>1 DEF Whole, Joined

(* What a glyph of two columns leaves of the cells around it. *)
PairAt(f, i, j) ==
  IF j = i THEN "lead" ELSE IF j = i + 1 THEN "trail"
  ELSE IF j = i - 1 /\ f[i] = "trail" THEN "blank"
  ELSE IF j = i + 2 /\ f[i + 1] = "lead" THEN "blank" ELSE f[j]

LEMMA PairPlaced ==
  ASSUME NEW m \in Nat, NEW f \in [0..m -> Cells], Joined(f, m), NEW i \in 0..m, i + 1 \in 0..m,
         NEW j \in 0..m
  PROVE  Placed(f, i, 2)[j] = PairAt(f, i, j)
  <1>1. PICK p : p = BlankPartner(f, i)
    OBVIOUS
  <1>2. PICK q : q = BlankPartner(p, i + 1)
    OBVIOUS
  <1>3. Placed(f, i, 2) = [q EXCEPT ![i] = "lead", ![i + 1] = "trail"]
    BY <1>1, <1>2 DEF Placed
  <1>4. PICK k \in 0..m : k = i + 1
    OBVIOUS
  <1>5. CASE f[i] = "trail"
    <2>1. i > 0 /\ i - 1 \in 0..m /\ f[i - 1] = "lead"
      BY <1>5 DEF Joined
    <2>2. p = [f EXCEPT ![i - 1] = "blank"]
      BY <1>1, <1>5, <2>1 DEF BlankPartner
    <2>3. p[k] = f[k] /\ f[k] # "trail" /\ DOMAIN p = 0..m
      <3>1. k - 1 = i /\ k # i - 1
        BY <1>4
      <3>2. QED
        BY <1>5, <2>2, <3>1 DEF Joined
    <2>4. CASE f[k] = "lead"
      <3>1. k + 1 \in 0..m
        BY <2>4 DEF Joined
      <3>2. q = [p EXCEPT ![k + 1] = "blank"]
        BY <1>2, <1>4, <2>3, <2>4, <3>1 DEF BlankPartner
      <3>3. \A x \in 0..m : q[x] = IF x = k + 1 THEN "blank" ELSE p[x]
        BY <2>3, <3>2
      <3>4. DOMAIN q = 0..m
        BY <2>3, <3>2
      <3>5. \A x \in 0..m : p[x] = IF x = i - 1 THEN "blank" ELSE f[x]
        BY <2>2
      <3>6. QED
        BY <1>3, <1>4, <1>5, <2>4, <3>3, <3>4, <3>5 DEF PairAt
    <2>5. CASE f[k] # "lead"
      <3>1. q = p
        BY <1>2, <1>4, <2>3, <2>5 DEF BlankPartner
      <3>2. \A x \in 0..m : p[x] = IF x = i - 1 THEN "blank" ELSE f[x]
        BY <2>2
      <3>3. QED
        BY <1>3, <1>4, <1>5, <2>3, <2>5, <3>1, <3>2 DEF PairAt
    <2>6. QED
      BY <2>4, <2>5
  <1>6. CASE f[i] = "lead"
    <2>1. f[k] = "trail"
      BY <1>4, <1>6 DEF Joined
    <2>2. p = [f EXCEPT ![k] = "blank"]
      BY <1>1, <1>4, <1>6 DEF BlankPartner
    <2>3. p[k] = "blank" /\ DOMAIN p = 0..m
      BY <2>2
    <2>4. q = p
      BY <1>2, <1>4, <2>3 DEF BlankPartner
    <2>5. \A x \in 0..m : p[x] = IF x = k THEN "blank" ELSE f[x]
      BY <2>2
    <2>6. QED
      BY <1>3, <1>4, <1>6, <2>1, <2>3, <2>4, <2>5 DEF PairAt
  <1>7. CASE f[i] # "trail" /\ f[i] # "lead"
    <2>1. p = f
      BY <1>1, <1>7 DEF BlankPartner
    <2>2. f[k] # "trail"
      <3>1. k - 1 = i
        BY <1>4
      <3>2. QED
        BY <1>7, <3>1 DEF Joined
    <2>3. CASE f[k] = "lead"
      <3>1. k + 1 \in 0..m
        BY <2>3 DEF Joined
      <3>2. q = [f EXCEPT ![k + 1] = "blank"]
        BY <1>2, <1>4, <2>1, <2>3, <3>1 DEF BlankPartner
      <3>3. \A x \in 0..m : q[x] = IF x = k + 1 THEN "blank" ELSE f[x]
        BY <3>2
      <3>4. DOMAIN q = 0..m
        BY <3>2
      <3>5. QED
        BY <1>3, <1>4, <1>7, <2>3, <3>3, <3>4 DEF PairAt
    <2>4. CASE f[k] # "lead"
      <3>1. q = f
        BY <1>2, <1>4, <2>1, <2>2, <2>4 DEF BlankPartner
      <3>2. QED
        BY <1>3, <1>4, <1>7, <2>4, <3>1 DEF PairAt
    <2>5. QED
      BY <2>3, <2>4
  <1>8. QED
    BY <1>5, <1>6, <1>7

LEMMA PairJoined ==
  ASSUME NEW m \in Nat, NEW f, Joined(f, m), NEW i \in 0..m, i + 1 \in 0..m,
         NEW g, \A j \in 0..m : g[j] = PairAt(f, i, j)
  PROVE  Joined(g, m)
  <1> SUFFICES ASSUME NEW j \in 0..m
               PROVE  /\ g[j] = "lead" => j + 1 <= m /\ g[j + 1] = "trail"
                      /\ g[j] = "trail" => j - 1 >= 0 /\ g[j - 1] = "lead"
    BY DEF Joined
  <1>1. ASSUME g[j] = "lead" PROVE j + 1 <= m /\ g[j + 1] = "trail"
    <2>1. CASE j = i
      <3>1. j + 1 \in 0..m /\ j + 1 <= m
        BY <2>1
      <3>2. g[j + 1] = PairAt(f, i, j + 1)
        BY <3>1
      <3>3. QED
        BY <2>1, <3>1, <3>2 DEF PairAt
    <2>2. CASE j # i
      <3>1. f[j] = "lead" /\ j # i + 1 /\ ~(j = i - 1 /\ f[i] = "trail")
        BY <1>1, <2>2 DEF PairAt
      <3>2. j + 1 \in 0..m /\ j + 1 <= m /\ f[j + 1] = "trail"
        BY <3>1 DEF Joined
      <3>3. g[j + 1] = PairAt(f, i, j + 1)
        BY <3>2
      <3>4. j + 1 # i
        BY <3>1, <3>2
      <3>5. ~(j + 1 = i + 2 /\ f[i + 1] = "lead")
        BY <3>1
      <3>6. j + 1 # i + 1 /\ ~(j + 1 = i - 1 /\ f[i] = "trail")
        <4>1. j + 1 = i - 1 /\ f[i] = "trail" => f[i - 1] = "lead"
          BY DEF Joined
        <4>2. QED
          BY <2>2, <3>2, <4>1
      <3>7. QED
        BY <3>2, <3>3, <3>4, <3>5, <3>6 DEF PairAt
    <2>3. QED
      BY <2>1, <2>2
  <1>2. ASSUME g[j] = "trail" PROVE j - 1 >= 0 /\ g[j - 1] = "lead"
    <2>1. CASE j = i + 1
      <3>1. j - 1 \in 0..m /\ j - 1 = i
        BY <2>1
      <3>2. g[j - 1] = PairAt(f, i, j - 1)
        BY <3>1
      <3>3. QED
        BY <3>1, <3>2 DEF PairAt
    <2>2. CASE j # i + 1
      <3>1. f[j] = "trail" /\ j # i /\ ~(j = i + 2 /\ f[i + 1] = "lead")
        BY <1>2, <2>2 DEF PairAt
      <3>2. j - 1 \in 0..m /\ j - 1 >= 0 /\ f[j - 1] = "lead"
        BY <3>1 DEF Joined
      <3>3. g[j - 1] = PairAt(f, i, j - 1)
        BY <3>2
      <3>4. j - 1 # i
        BY <2>2
      <3>5. j - 1 # i + 1
        BY <3>1, <3>2
      <3>6. ~(j - 1 = i - 1 /\ f[i] = "trail")
        BY <3>1
      <3>7. ~(j - 1 = i + 2 /\ f[i + 1] = "lead")
        <4>1. f[i + 1] = "lead" => f[(i + 1) + 1] = "trail"
          BY DEF Joined
        <4>2. (i + 1) + 1 = i + 2
          OBVIOUS
        <4>3. QED
          BY <3>2, <4>1, <4>2
      <3>8. QED
        BY <3>2, <3>3, <3>4, <3>5, <3>6, <3>7 DEF PairAt
    <2>3. QED
      BY <2>1, <2>2
  <1>3. QED
    BY <1>1, <1>2

(* And a glyph of one column. *)
OneAt(f, i, j) ==
  IF j = i THEN "narrow"
  ELSE IF j = i - 1 /\ f[i] = "trail" THEN "blank"
  ELSE IF j = i + 1 /\ f[i] = "lead" THEN "blank" ELSE f[j]

LEMMA OnePlaced ==
  ASSUME NEW m \in Nat, NEW f \in [0..m -> Cells], Joined(f, m), NEW i \in 0..m, NEW j \in 0..m
  PROVE  Placed(f, i, 1)[j] = OneAt(f, i, j)
  <1>1. PICK p : p = BlankPartner(f, i)
    OBVIOUS
  <1>2. Placed(f, i, 1) = [p EXCEPT ![i] = "narrow"]
    BY <1>1 DEF Placed
  <1>3. CASE f[i] = "trail"
    <2>1. i > 0 /\ i - 1 \in 0..m
      BY <1>3 DEF Joined
    <2>2. p = [f EXCEPT ![i - 1] = "blank"]
      BY <1>1, <1>3, <2>1 DEF BlankPartner
    <2>3. QED
      BY <1>2, <1>3, <2>2 DEF OneAt
  <1>4. CASE f[i] = "lead"
    <2>1. i + 1 \in 0..m
      BY <1>4 DEF Joined
    <2>2. p = [f EXCEPT ![i + 1] = "blank"]
      BY <1>1, <1>4, <2>1 DEF BlankPartner
    <2>3. QED
      BY <1>2, <1>4, <2>2 DEF OneAt
  <1>5. CASE f[i] # "trail" /\ f[i] # "lead"
    <2>1. p = f
      BY <1>1, <1>5 DEF BlankPartner
    <2>2. QED
      BY <1>2, <1>5, <2>1 DEF OneAt
  <1>6. QED
    BY <1>3, <1>4, <1>5

LEMMA OneJoined ==
  ASSUME NEW m \in Nat, NEW f, Joined(f, m), NEW i \in 0..m,
         NEW g, \A j \in 0..m : g[j] = OneAt(f, i, j)
  PROVE  Joined(g, m)
  <1> SUFFICES ASSUME NEW j \in 0..m
               PROVE  /\ g[j] = "lead" => j + 1 <= m /\ g[j + 1] = "trail"
                      /\ g[j] = "trail" => j - 1 >= 0 /\ g[j - 1] = "lead"
    BY DEF Joined
  <1>1. ASSUME g[j] = "lead" PROVE j + 1 <= m /\ g[j + 1] = "trail"
    <2>1. f[j] = "lead" /\ j # i /\ ~(j = i - 1 /\ f[i] = "trail")
      BY <1>1 DEF OneAt
    <2>2. j + 1 \in 0..m /\ j + 1 <= m /\ f[j + 1] = "trail"
      BY <2>1 DEF Joined
    <2>3. g[j + 1] = OneAt(f, i, j + 1)
      BY <2>2
    <2>4. j + 1 # i /\ j + 1 # i + 1
      BY <2>1, <2>2
    <2>5. ~(j + 1 = i - 1 /\ f[i] = "trail")
      <3>1. f[i] = "trail" => f[i - 1] = "lead"
        BY DEF Joined
      <3>2. QED
        BY <2>2, <3>1
    <2>6. QED
      BY <2>2, <2>3, <2>4, <2>5 DEF OneAt
  <1>2. ASSUME g[j] = "trail" PROVE j - 1 >= 0 /\ g[j - 1] = "lead"
    <2>1. f[j] = "trail" /\ j # i /\ ~(j = i + 1 /\ f[i] = "lead")
      BY <1>2 DEF OneAt
    <2>2. j - 1 \in 0..m /\ j - 1 >= 0 /\ f[j - 1] = "lead"
      BY <2>1 DEF Joined
    <2>3. g[j - 1] = OneAt(f, i, j - 1)
      BY <2>2
    <2>4. j - 1 # i /\ j - 1 # i - 1
      BY <2>1, <2>2
    <2>5. ~(j - 1 = i + 1 /\ f[i] = "lead")
      <3>1. f[i] = "lead" => f[i + 1] = "trail"
        BY DEF Joined
      <3>2. QED
        BY <2>2, <3>1
    <2>6. QED
      BY <2>2, <2>3, <2>4, <2>5 DEF OneAt
  <1>3. QED
    BY <1>1, <1>2

LEMMA PlacedWhole ==
  ASSUME NEW c \in Nat \ {0}, NEW line \in Line(c), Whole(line), NEW i \in 0..(c - 1),
         NEW width \in {1, 2}, width = 2 => i + 1 \in 0..(c - 1)
  PROVE  Whole(Placed(line, i, width))
  <1>1. PICK m \in Nat : m = c - 1
    OBVIOUS
  <1>2. line \in [0..m -> Cells] /\ DOMAIN line = 0..m /\ i \in 0..m
    BY <1>1 DEF Line
  <1>3. Joined(line, m)
    BY <1>2, WholeIsJoined
  <1>4. PICK g : g = Placed(line, i, width)
    OBVIOUS
  <1>5. g \in Line(c)
    <2>1. i \in Int
      OBVIOUS
    <2>2. QED
      BY <1>4, <2>1, PlacedIs
  <1>6. DOMAIN g = 0..m
    BY <1>1, <1>5 DEF Line
  <1>7. CASE width = 1
    <2>1. \A j \in 0..m : g[j] = OneAt(line, i, j)
      BY <1>2, <1>3, <1>4, <1>7, OnePlaced
    <2>2. Joined(g, m)
      BY <1>2, <1>3, <2>1, OneJoined
    <2>3. QED
      BY <1>4, <1>6, <2>2, WholeIsJoined
  <1>8. CASE width = 2
    <2>1. i + 1 \in 0..m
      BY <1>1, <1>8
    <2>2. \A j \in 0..m : g[j] = PairAt(line, i, j)
      BY <1>2, <1>3, <1>4, <1>8, <2>1, PairPlaced
    <2>3. Joined(g, m)
      BY <1>2, <1>3, <2>1, <2>2, PairJoined
    <2>4. QED
      BY <1>4, <1>6, <2>3, WholeIsJoined
  <1>9. QED
    BY <1>7, <1>8

LEMMA BlankLineWhole ==
  ASSUME NEW c \in Nat
  PROVE  Whole(BlankLine(c))
  <1>1. \A j \in 0..(c - 1) : BlankLine(c)[j] = "blank"
    BY DEF BlankLine
  <1>2. DOMAIN BlankLine(c) = 0..(c - 1)
    BY DEF BlankLine
  <1>3. QED
    BY <1>1, <1>2 DEF Whole

LEMMA RowsMoveWhole ==
  ASSUME NEW c, NEW r, NEW l, IsSize(c, r, l), NEW s, Sound(s, c, r, l), AllWhole(s),
         NEW t, Sound(t, c, r, l), RowsMove(s, t, r)
  PROVE  AllWhole(t)
  <1>1. DOMAIN s.lines = 0..(r - 1) /\ DOMAIN t.lines = 0..(r - 1) /\ s.columns = c /\ c \in Nat
    BY DEF Sound, Sized, Plane, IsSize
  <1>2. ASSUME NEW i \in 0..(r - 1) PROVE Whole(t.lines[i])
    <2>1. CASE Blank(s, t, i)
      BY <1>1, <2>1, BlankLineWhole DEF Blank
    <2>2. ASSUME NEW j \in 0..(r - 1), Comes(s, t, i, j) PROVE Whole(t.lines[i])
      BY <1>1, <2>2 DEF Comes, AllWhole
    <2>3. QED
      BY <2>1, <2>2 DEF RowsMove
  <1>3. QED
    BY <1>1, <1>2 DEF AllWhole

LEMMA WrapLineWhole ==
  ASSUME NEW c, NEW r, NEW l, IsSize(c, r, l), NEW s, Sound(s, c, r, l), AllWhole(s)
  PROVE  AllWhole(WrapLine(s))
  <1>1. PICK u : u = Marked(s)
    OBVIOUS
  <1>2. PICK t : t = Index(u)
    OBVIOUS
  <1>3. WrapLine(s) = t
    BY <1>1, <1>2 DEF WrapLine, Marked
  <1>4. IsScreen(s)
    BY DEF Sound, Sized
  <1>5. Sound(u, c, r, l) /\ u.lines = s.lines
    BY <1>1, <1>4, MarkedSound, MarkedIs
  <1>6. AllWhole(u)
    BY <1>5 DEF AllWhole
  <1>7. Sound(t, c, r, l) /\ RowsMove(u, t, r)
    BY <1>2, <1>5, IndexGood, IndexMoves DEF Good
  <1>8. AllWhole(t)
    BY <1>5, <1>6, <1>7, RowsMoveWhole
  <1>9. QED
    BY <1>3, <1>8

LEMMA ReadyWhole ==
  ASSUME NEW c, NEW r, NEW l, IsSize(c, r, l), NEW s, Good(s, c, r, l), AllWhole(s),
         NEW width \in {1, 2}, NEW autoWrap \in BOOLEAN
  PROVE  AllWhole(Wrapped(s, autoWrap)) /\ AllWhole(Ready(s, width, autoWrap))
  <1>1. PICK w : w = Wrapped(s, autoWrap)
    OBVIOUS
  <1>2. Good(w, c, r, l)
    BY <1>1, ReadyGood
  <1>3. AllWhole(w)
    BY <1>1, WrapLineWhole DEF Wrapped, Good
  <1>4. AllWhole(WrapLine(w))
    BY <1>2, <1>3, WrapLineWhole DEF Good
  <1>5. Ready(s, width, autoWrap) = IF Straddles(w, width) THEN WrapLine(w) ELSE w
    BY <1>1 DEF Ready
  <1>6. QED
    BY <1>1, <1>3, <1>4, <1>5

(* Only the cursor's line changes, and is whole. *)
LEMMA OneLineWhole ==
  ASSUME NEW c, NEW r, NEW l, IsSize(c, r, l), NEW s, Sound(s, c, r, l), AllWhole(s),
         NEW new, Whole(new), NEW t, t.lines = [s.lines EXCEPT ![s.row] = new]
  PROVE  AllWhole(t)
  <1>1. DOMAIN s.lines = 0..(r - 1)
    BY DEF Sound, Sized, Plane
  <1>2. DOMAIN t.lines = 0..(r - 1)
    BY <1>1
  <1>3. ASSUME NEW i \in 0..(r - 1) PROVE Whole(t.lines[i])
    <2>1. CASE i = s.row
      <3>1. t.lines[i] = new
        BY <1>1, <2>1
      <3>2. QED
        BY <3>1
    <2>2. CASE i # s.row
      <3>1. t.lines[i] = s.lines[i]
        BY <1>1, <2>2
      <3>2. QED
        BY <1>1, <3>1 DEF AllWhole
    <2>3. QED
      BY <2>1, <2>2
  <1>4. QED
    BY <1>2, <1>3 DEF AllWhole

LEMMA OwnLineWhole ==
  ASSUME NEW c, NEW r, NEW l, IsSize(c, r, l), NEW s, Sound(s, c, r, l), AllWhole(s)
  PROVE  s.lines[s.row] \in Line(c) /\ Whole(s.lines[s.row])
  BY DEF Sound, Sized, Plane, AllWhole

LEMMA WriteAtCursorWhole ==
  ASSUME NEW c, NEW r, NEW l, IsSize(c, r, l), NEW s, Sound(s, c, r, l), AllWhole(s),
         NEW width \in {1, 2}, ~Straddles(s, width)
  PROVE  AllWhole(WriteAtCursor(s, width, FALSE))
  <1>1. PICK t : t = WriteAtCursor(s, width, FALSE)
    OBVIOUS
  <1>2. PICK line \in Line(c) : line = s.lines[s.row] /\ Whole(line)
    BY OwnLineWhole
  <1>3. /\ s.column \in 0..(c - 1) /\ c \in Nat \ {0} /\ LastColumn(s) = c - 1 /\ IsScreen(s)
    BY DEF Sound, Sized, LastColumn, IsSize
  <1>4. width = 2 => s.column + 1 \in 0..(c - 1)
    BY <1>3 DEF Straddles
  <1>5. PICK i \in 0..(c - 1) : i = s.column
    BY <1>3
  <1>6. Whole(Placed(line, i, width))
    BY <1>2, <1>3, <1>4, <1>5, PlacedWhole
  <1>7. LineBefore(s, width, FALSE) = line
    BY <1>2 DEF LineBefore
  <1>8. t.lines = [s.lines EXCEPT ![s.row] = Placed(line, i, width)]
    <2>1. PICK no \in BOOLEAN : no = FALSE
      OBVIOUS
    <2>2. t = WriteAtCursor(s, width, no)
      BY <1>1, <2>1
    <2>3. t.lines = [s.lines EXCEPT ![s.row] = Placed(LineBefore(s, width, no), s.column, width)]
      BY <1>3, <2>2, WriteAtCursorIs
    <2>4. QED
      BY <1>5, <1>7, <2>1, <2>3
  <1>9. AllWhole(t)
    BY <1>6, <1>8, OneLineWhole
  <1>10. QED
    BY <1>1, <1>9

LEMMA WriteCharacterWhole ==
  ASSUME NEW c, NEW r, NEW l, IsSize(c, r, l), c # 1, NEW s, Good(s, c, r, l), AllWhole(s),
         NEW width \in {1, 2}, NEW autoWrap \in BOOLEAN
  PROVE  AllWhole(WriteCharacter(s, width, FALSE, autoWrap))
  <1>1. PICK w : w = Wrapped(s, autoWrap)
    OBVIOUS
  <1>2. PICK v : v = Ready(s, width, autoWrap)
    OBVIOUS
  <1>3. Good(w, c, r, l) /\ Good(v, c, r, l) /\ ~Straddles(v, width)
    BY <1>1, <1>2, ReadyGood
  <1>4. AllWhole(w) /\ AllWhole(v)
    BY <1>1, <1>2, ReadyWhole
  <1>5. AllWhole(WriteAtCursor(v, width, FALSE))
    BY <1>3, <1>4, WriteAtCursorWhole DEF Good
  <1>6. LastColumn(w) = LastColumn(s)
    BY <1>3 DEF Good, Sound, Sized, LastColumn
  <1>7. WriteCharacter(s, width, FALSE, autoWrap) =
          IF Straddles(w, width) /\ ~autoWrap THEN w ELSE WriteAtCursor(v, width, FALSE)
    BY <1>1, <1>2, <1>6, WriteCharacterIs
  <1>8. QED
    BY <1>4, <1>5, <1>7

LEMMA CombineWhole ==
  ASSUME NEW c, NEW r, NEW l, IsSize(c, r, l), NEW s, Good(s, c, r, l), AllWhole(s)
  PROVE  AllWhole(Combine(s))
  <1>1. PICK t : t = Combine(s)
    OBVIOUS
  <1>2. Sound(s, c, r, l) /\ IsScreen(s)
    BY DEF Good, Sound, Sized
  <1>3. PICK k : k = MarkedColumn(s)
    OBVIOUS
  <1>4. PICK line \in Line(c) : line = s.lines[s.row] /\ Whole(line)
    BY <1>2, OwnLineWhole
  <1>5. CASE k >= 0 /\ line[k] = "blank"
    <2>1. PICK new : new = [line EXCEPT ![k] = "narrow"]
      OBVIOUS
    <2>2. t.lines = [s.lines EXCEPT ![s.row] = new]
      BY <1>1, <1>2, <1>3, <1>4, <1>5, <2>1, CombineIs
    <2>3. DOMAIN line = 0..(c - 1) /\ DOMAIN new = 0..(c - 1)
      BY <2>1 DEF Line
    <2>4. Whole(new)
      <3>1. \A j \in 0..(c - 1) : new[j] = IF j = k THEN "narrow" ELSE line[j]
        BY <2>1, <2>3
      <3>2. ASSUME NEW j \in 0..(c - 1), new[j] = "lead"
            PROVE  j + 1 \in 0..(c - 1) /\ new[j + 1] = "trail"
        <4>1. line[j] = "lead"
          BY <3>1, <3>2
        <4>2. j + 1 \in 0..(c - 1) /\ line[j + 1] = "trail"
          BY <1>4, <2>3, <4>1 DEF Whole
        <4>3. j + 1 # k
          BY <1>5, <4>2
        <4>4. QED
          BY <3>1, <4>2, <4>3
      <3>3. ASSUME NEW j \in 0..(c - 1), new[j] = "trail"
            PROVE  j - 1 \in 0..(c - 1) /\ new[j - 1] = "lead"
        <4>1. line[j] = "trail"
          BY <3>1, <3>3
        <4>2. j - 1 \in 0..(c - 1) /\ line[j - 1] = "lead"
          BY <1>4, <2>3, <4>1 DEF Whole
        <4>3. j - 1 # k
          BY <1>5, <4>2
        <4>4. QED
          BY <3>1, <4>2, <4>3
      <3>4. QED
        BY <2>3, <3>2, <3>3 DEF Whole
    <2>5. AllWhole(t)
      BY <1>2, <2>2, <2>4, OneLineWhole
    <2>6. QED
      BY <1>1, <2>5
  <1>6. CASE ~(k >= 0 /\ line[k] = "blank")
    <2>1. t = s
      BY <1>1, <1>2, <1>3, <1>4, <1>6, CombineIs
    <2>2. QED
      BY <1>1, <2>1
  <1>7. QED
    BY <1>5, <1>6

(* Writing over a part of a wide glyph takes the rest of it away, wraps and   *)
(* scrolls included: in replace mode no half of one is ever left alone.       *)
THEOREM WritingKeepsGlyphsWholeCorrect == Spec => WritingKeepsGlyphsWhole
  <1>1. ASSUME Inv, Write, ~modes.insertMode, AllWhole(screen)
        PROVE  AllWhole(screen')
    <2>1. PICK z \in Sizes : Fits(screens, z)
      BY <1>1 DEF Inv
    <2>2. PICK s : Given(z[1], z[2], LimitOf(active), s)
      BY <1>1, <2>1, GivenIs
    <2>3. PICK c, r, l : c = z[1] /\ r = z[2] /\ l = LimitOf(active)
      OBVIOUS
    <2>4. IsSize(c, r, l) /\ Good(s, c, r, l) /\ s = screen /\ AllWhole(s) /\ c # 1
      BY <1>1, <2>2, <2>3, SizesAre DEF Given
    <2>5. modes.autoWrap \in BOOLEAN /\ modes.insertMode = FALSE
      BY <1>1, <2>2 DEF Given
    <2>6. ASSUME NEW width \in {1, 2}, PrintCharacter(width)
          PROVE  AllWhole(screen')
      <3>1. PICK wrap \in BOOLEAN : wrap = modes.autoWrap
        BY <2>5
      <3>2. PICK t : t = WriteCharacter(s, width, FALSE, wrap)
        OBVIOUS
      <3>3. AllWhole(t)
        BY <2>4, <3>2, WriteCharacterWhole
      <3>4. Becomes(t)
        BY <2>4, <2>5, <2>6, <3>1, <3>2 DEF PrintCharacter
      <3>5. screen' = t
        BY <1>1, <3>4, ScreenAfter
      <3>6. QED
        BY <3>3, <3>5 DEF AllWhole
    <2>7. ASSUME PrintMark
          PROVE  AllWhole(screen')
      <3>1. PICK t : t = Combine(s)
        OBVIOUS
      <3>2. AllWhole(t)
        BY <2>4, <3>1, CombineWhole
      <3>3. Becomes(t)
        BY <2>4, <2>7, <3>1 DEF PrintMark
      <3>4. screen' = t
        BY <1>1, <3>3, ScreenAfter
      <3>5. QED
        BY <3>2, <3>4 DEF AllWhole
    <2>8. QED
      BY <1>1, <2>6, <2>7 DEF Write
  <1>2. ASSUME Inv, [Next]_vars
        PROVE  [Write /\ ~modes.insertMode /\ AllWhole(screen) => AllWhole(screen')]_vars
    BY <1>1, <1>2
  <1>3. QED
    BY <1>2, Invariance, PTL DEF Spec, WritingKeepsGlyphsWhole

-----------------------------------------------------------------------------
(***************************************************************************)
(* The text of a screen, its history included, as one long page.           *)
(***************************************************************************)
(* The line at a place of the page; behind the last row all lines are blank. *)
At(s, j) ==
  IF j <= Len(s.history) THEN s.history[j]
  ELSE IF j <= Len(s.history) + s.rows THEN s.lines[j - Len(s.history) - 1]
  ELSE BlankLine(s.columns)

LEMMA Joining ==
  ASSUME NEW P, NEW f \in Seq(P), NEW g \in Seq(P)
  PROVE  /\ f \o g \in Seq(P) /\ Len(f \o g) = Len(f) + Len(g)
         /\ \A i \in 1..Len(f) : (f \o g)[i] = f[i]
         /\ \A i \in 1..Len(g) : (f \o g)[Len(f) + i] = g[i]
  OBVIOUS

(* Two sequences of the same length and the same elements. *)
LEMMA SameElements ==
  ASSUME NEW P, NEW f \in Seq(P), NEW g \in Seq(P), Len(f) = Len(g),
         \A i \in 1..Len(f) : f[i] = g[i]
  PROVE  f = g
  OBVIOUS

LEMMA LinesFromIs ==
  ASSUME NEW c, NEW r, NEW l, IsSize(c, r, l), NEW s, Sized(s, c, r, l), NEW n \in 0..r
  PROVE  LET page == s.history \o LinesFrom(s, 0, n)
         IN  /\ page \in Seq(Line(c)) /\ Len(page) = Len(s.history) + n
             /\ \A j \in 1..(Len(s.history) + n) : page[j] = At(s, j)
  <1>1. /\ s.history \in Seq(Line(c)) /\ Len(s.history) \in Nat /\ s.rows = r
        /\ r \in Nat /\ n \in Nat /\ n <= r
    BY DEF Sized, IsSize
  <1>2. /\ LinesFrom(s, 0, n) \in Seq(Line(c)) /\ Len(LinesFrom(s, 0, n)) = n
        /\ \A i \in 1..n : LinesFrom(s, 0, n)[i] = s.lines[i - 1]
    BY PushedIs
  <1>3. PICK P : P = Line(c)
    OBVIOUS
  <1>4. PICK f \in Seq(P) : f = s.history
    BY <1>1, <1>3
  <1>5. PICK g \in Seq(P) : g = LinesFrom(s, 0, n)
    BY <1>2, <1>3
  <1>6. PICK page : page = f \o g
    OBVIOUS
  <1>7. /\ page \in Seq(P) /\ Len(page) = Len(f) + Len(g)
        /\ \A i \in 1..Len(f) : page[i] = f[i]
        /\ \A i \in 1..Len(g) : page[Len(f) + i] = g[i]
    BY <1>6, Joining
  <1>8. Len(f) = Len(s.history) /\ Len(g) = n
    BY <1>2, <1>4, <1>5
  <1>9. ASSUME NEW j \in 1..(Len(s.history) + n) PROVE page[j] = At(s, j)
    <2>1. CASE j <= Len(s.history)
      <3>1. j \in 1..Len(f)
        BY <1>1, <1>8, <2>1
      <3>2. page[j] = s.history[j]
        BY <1>4, <1>7, <3>1
      <3>3. QED
        BY <2>1, <3>2 DEF At
    <2>2. CASE ~(j <= Len(s.history))
      <3>1. PICK i \in 1..n : j = Len(s.history) + i
        <4>1. j - Len(s.history) \in 1..n /\ j = Len(s.history) + (j - Len(s.history))
          BY <1>1, <2>2
        <4>2. QED
          BY <4>1
      <3>2. page[j] = s.lines[i - 1]
        BY <1>2, <1>5, <1>7, <1>8, <3>1
      <3>3. j - Len(s.history) - 1 = i - 1 /\ j <= Len(s.history) + s.rows
        BY <1>1, <3>1
      <3>4. At(s, j) = s.lines[j - Len(s.history) - 1]
        BY <2>2, <3>3 DEF At
      <3>5. QED
        BY <3>2, <3>3, <3>4
    <2>3. QED
      BY <2>1, <2>2
  <1>10. QED
    BY <1>3, <1>4, <1>5, <1>6, <1>7, <1>8, <1>9

LEMMA TextIs ==
  ASSUME NEW c, NEW r, NEW l, IsSize(c, r, l), NEW s, Sized(s, c, r, l)
  PROVE  /\ Text(s) \in Seq(Line(c)) /\ Len(Text(s)) = Len(s.history) + r
         /\ \A j \in 1..(Len(s.history) + r) : Text(s)[j] = At(s, j)
  <1>1. r \in 0..r /\ s.rows = r
    BY DEF IsSize, Sized
  <1>2. PICK n \in 0..r : n = r
    BY <1>1
  <1>3. LET page == s.history \o LinesFrom(s, 0, n)
        IN  /\ page \in Seq(Line(c)) /\ Len(page) = Len(s.history) + n
            /\ \A j \in 1..(Len(s.history) + n) : page[j] = At(s, j)
    BY LinesFromIs
  <1>4. QED
    BY <1>1, <1>2, <1>3 DEF Text

(* What the history holds after lines went off the top. *)
LEMMA PushedAt ==
  ASSUME NEW c, NEW r, NEW l, IsSize(c, r, l), NEW s, Sized(s, c, r, l), NEW n \in 0..r
  PROVE  LET m == Least(l, Len(s.history) + n)
         IN  /\ Len(Pushed(s, n)) = m
             /\ \A i \in 1..m : Pushed(s, n)[i] = At(s, Len(s.history) + n - m + i)
  <1>1. PICK page : page = s.history \o LinesFrom(s, 0, n)
    OBVIOUS
  <1>2. PICK h \in Nat : h = Len(s.history)
    BY DEF Sized
  <1>3. PICK P : P = Line(c)
    OBVIOUS
  <1>4. /\ page \in Seq(P) /\ Len(page) = h + n
        /\ \A j \in 1..(h + n) : page[j] = At(s, j)
    BY <1>1, <1>2, <1>3, LinesFromIs
  <1>5. l \in Nat /\ n \in Nat /\ s.limit = l
    BY DEF IsSize, Sized
  <1>6. PICK m : m = Least(l, h + n)
    OBVIOUS
  <1>7. m \in Nat /\ m <= h + n
    BY <1>5, <1>6 DEF Least
  <1>8. PICK end : end = Suffix(page, l)
    OBVIOUS
  <1>9. /\ Len(end) = Least(l, Len(page))
        /\ \A i \in 1..Least(l, Len(page)) : end[i] = page[Len(page) - Least(l, Len(page)) + i]
    BY <1>4, <1>5, <1>8, SuffixIs
  <1>10. Len(end) = m /\ \A i \in 1..m : end[i] = page[h + n - m + i]
    BY <1>4, <1>6, <1>9
  <1>11. \A i \in 1..m : h + n - m + i \in 1..(h + n)
    BY <1>5, <1>7
  <1>12. \A i \in 1..m : end[i] = At(s, h + n - m + i)
    BY <1>4, <1>10, <1>11
  <1>13. end = Pushed(s, n)
    BY <1>1, <1>5, <1>8 DEF Pushed
  <1>14. QED
    BY <1>2, <1>6, <1>10, <1>12, <1>13

(* A page of h lines of history, and r rows. *)
Page(s, h, r) == h = Len(s.history) /\ r = s.rows

(* Of h + r lines and k behind them, m is what q rows and a full history take. *)
Takes(h, r, k, q, w, m) == w = h + r + k /\ m = Least(Limit + q, w)

(* The m lines of one page are the last of w lines of the other. *)
Ends(s, t, w, m) == \A i \in 1..m : At(t, i) = At(s, w - m + i)

(* A page is continued when its last lines are there, place by place. *)
LEMMA ContinuesIs ==
  ASSUME NEW c, NEW r, NEW q, IsSize(c, r, Limit), IsSize(c, q, Limit),
         NEW s, Sized(s, c, r, Limit), NEW t, Sized(t, c, q, Limit), NEW k \in Nat,
         NEW h \in Nat, Page(s, h, r), NEW g \in Nat, Page(t, g, q),
         NEW w \in Nat, NEW m \in Nat, Takes(h, r, k, q, w, m), Ends(s, t, w, m), m = g + q
  PROVE  Continues(t, s, k)
  <1>1. h = Len(s.history)
    BY DEF Page
  <1>2. g = Len(t.history)
    BY DEF Page
  <1>3. /\ c \in Nat /\ r \in Nat /\ q \in Nat /\ Limit \in Nat
        /\ s.columns = c /\ t.columns = c /\ s.rows = r /\ t.rows = q
    BY DEF IsSize, Sized
  <1>4. PICK P : P = Line(c)
    OBVIOUS
  <1>5. PICK old : old = Text(s)
    OBVIOUS
  <1>6. PICK new : new = Text(t)
    OBVIOUS
  <1>7. old \in Seq(P) /\ Len(old) = h + r /\ \A j \in 1..(h + r) : old[j] = At(s, j)
    BY <1>1, <1>4, <1>5, TextIs
  <1>8. new \in Seq(P) /\ Len(new) = g + q /\ \A j \in 1..(g + q) : new[j] = At(t, j)
    BY <1>2, <1>4, <1>6, TextIs
  <1>9. PICK blank : blank = BlankLine(c)
    OBVIOUS
  <1>10. blank \in P
    BY <1>3, <1>4, <1>9, BlankLineIs
  <1>11. PICK blanks : blanks = [i \in 1..k |-> blank]
    OBVIOUS
  <1>12. blanks \in Seq(P) /\ Len(blanks) = k /\ \A i \in 1..k : blanks[i] = blank
    BY <1>10, <1>11
  <1>13. PICK all : all = old \o blanks
    OBVIOUS
  <1>14. /\ all \in Seq(P) /\ Len(all) = h + r + k
         /\ \A j \in 1..(h + r) : all[j] = old[j]
         /\ \A i \in 1..k : all[h + r + i] = blanks[i]
    <2>0. old \in Seq(P) /\ blanks \in Seq(P)
      BY <1>7, <1>12
    <2>1. /\ all \in Seq(P) /\ Len(all) = Len(old) + Len(blanks)
          /\ \A i \in 1..Len(old) : all[i] = old[i]
          /\ \A i \in 1..Len(blanks) : all[Len(old) + i] = blanks[i]
      BY <1>13, <2>0, Joining
    <2>2. Len(old) = h + r /\ Len(blanks) = k
      BY <1>7, <1>12
    <2>3. Len(all) = h + r + k
      BY <2>1, <2>2
    <2>4. \A j \in 1..(h + r) : all[j] = old[j]
      BY <2>1, <2>2
    <2>5. \A i \in 1..k : all[h + r + i] = blanks[i]
      BY <2>1, <2>2
    <2>6. QED
      BY <2>1, <2>3, <2>4, <2>5
  <1>15. ASSUME NEW j \in 1..(h + r + k) PROVE all[j] = At(s, j)
    <2>1. CASE j <= h + r
      BY <1>3, <1>7, <1>14, <2>1
    <2>2. CASE ~(j <= h + r)
      <3>1. PICK i \in 1..k : j = h + r + i
        <4>1. j - h - r \in 1..k /\ j = h + r + (j - h - r)
          BY <1>3, <2>2
        <4>2. QED
          BY <4>1
      <3>2. all[j] = blank
        BY <1>12, <1>14, <3>1
      <3>3. ~(j <= Len(s.history)) /\ ~(j <= Len(s.history) + s.rows)
        BY <1>1, <1>3, <2>2
      <3>4. At(s, j) = BlankLine(s.columns)
        BY <3>3 DEF At
      <3>5. QED
        BY <1>3, <1>9, <3>2, <3>4
    <2>3. QED
      BY <2>1, <2>2
  <1>16. PICK n \in Nat : n = Limit + q
    BY <1>3
  <1>17. m = Least(n, Len(all)) /\ m = g + q /\ m \in Nat /\ m <= h + r + k
    <2>1. m = Least(n, h + r + k) /\ m = g + q
      BY <1>16 DEF Takes
    <2>2. Least(n, h + r + k) <= h + r + k
      BY <1>3, <1>16 DEF Least
    <2>3. QED
      BY <1>3, <1>14, <2>1, <2>2
  <1>18. PICK end : end = Suffix(all, n)
    OBVIOUS
  <1>19. /\ end \in Seq(P) /\ Len(end) = m
         /\ \A i \in 1..m : end[i] = all[Len(all) - m + i]
    <2>1. /\ end \in Seq(P) /\ Len(end) = Least(n, Len(all))
          /\ \A i \in 1..Least(n, Len(all)) : end[i] = all[Len(all) - Least(n, Len(all)) + i]
      BY <1>14, <1>18, SuffixIs
    <2>2. QED
      BY <1>17, <2>1
  <1>20. ASSUME NEW i \in 1..m PROVE new[i] = end[i]
    <2>1. PICK j : j = w - m + i
      OBVIOUS
    <2>2. w = h + r + k
      BY DEF Takes
    <2>3. m \in Nat /\ m <= w
      BY <1>17, <2>2
    <2>4. j \in 1..w
      BY <2>1, <2>3
    <2>5. end[i] = all[j]
      BY <1>14, <1>19, <2>1, <2>2
    <2>6. all[j] = At(s, j)
      BY <1>15, <2>2, <2>4
    <2>7. At(t, i) = At(s, j)
      BY <2>1 DEF Ends
    <2>8. new[i] = At(t, i)
      BY <1>8, <1>17
    <2>9. QED
      BY <2>5, <2>6, <2>7, <2>8
  <1>21. new = end
    BY <1>8, <1>17, <1>19, <1>20, SameElements
  <1>22. QED
    BY <1>3, <1>5, <1>6, <1>9, <1>11, <1>13, <1>16, <1>18, <1>21 DEF Continues

BlankOf(s, blank) == blank = BlankLine(s.columns)

PageAt(s, h, r, blank) ==
  /\ \A j \in 1..h : At(s, j) = s.history[j]
  /\ \A x \in Nat : At(s, h + 1 + x) = IF x < r THEN s.lines[x] ELSE blank

LEMMA AtIs ==
  ASSUME NEW s, NEW h \in Nat, NEW r \in Nat, Page(s, h, r), NEW blank, BlankOf(s, blank)
  PROVE  PageAt(s, h, r, blank)
  <1>1. ASSUME NEW j \in 1..h PROVE At(s, j) = s.history[j]
    BY <1>1 DEF At, Page
  <1>2. ASSUME NEW x \in Nat PROVE At(s, h + 1 + x) = IF x < r THEN s.lines[x] ELSE blank
    <2>1. PICK j : j = h + 1 + x
      OBVIOUS
    <2>2. ~(j <= h) /\ (j <= h + r <=> x < r) /\ j - h - 1 = x
      BY <2>1
    <2>3. At(s, j) = IF j <= h THEN s.history[j]
                     ELSE IF j <= h + r THEN s.lines[j - h - 1] ELSE blank
      BY DEF At, Page, BlankOf
    <2>4. QED
      BY <2>1, <2>2, <2>3
  <1>3. QED
    BY <1>1, <1>2 DEF PageAt

(* The same, of the history and of the rows. *)
PageEnds(s, t, w, g, q) ==
  /\ \A i \in 1..g : t.history[i] = At(s, w - (g + q) + i)
  /\ \A x \in 0..(q - 1) : t.lines[x] = At(s, w - q + x + 1)

LEMMA PageContinues ==
  ASSUME NEW c, NEW r, NEW q, IsSize(c, r, Limit), IsSize(c, q, Limit),
         NEW s, Sized(s, c, r, Limit), NEW t, Sized(t, c, q, Limit), NEW k \in Nat,
         NEW h \in Nat, Page(s, h, r), NEW g \in Nat, Page(t, g, q),
         NEW w \in Nat, NEW m \in Nat, Takes(h, r, k, q, w, m), m = g + q,
         PageEnds(s, t, w, g, q)
  PROVE  Continues(t, s, k)
  <1>1. q \in Nat
    BY DEF IsSize
  <1>2. PICK blank : BlankOf(t, blank)
    BY DEF BlankOf
  <1>3. /\ \A j \in 1..g : At(t, j) = t.history[j]
        /\ \A x \in Nat : At(t, g + 1 + x) = IF x < q THEN t.lines[x] ELSE blank
    <2>1. PageAt(t, g, q, blank)
      BY <1>1, <1>2, AtIs
    <2>2. QED
      BY <2>1 DEF PageAt
  <1>4. ASSUME NEW i \in 1..m PROVE At(t, i) = At(s, w - m + i)
    <2>1. CASE i <= g
      <3>1. i \in 1..g
        BY <2>1
      <3>2. t.history[i] = At(s, w - m + i)
        BY <3>1 DEF PageEnds
      <3>3. QED
        BY <1>3, <3>1, <3>2
    <2>2. CASE ~(i <= g)
      <3>1. PICK x \in 0..(q - 1) : i = g + 1 + x
        <4>1. i - g - 1 \in 0..(q - 1) /\ i = g + 1 + (i - g - 1)
          BY <1>1, <2>2
        <4>2. QED
          BY <4>1
      <3>2. x \in Nat /\ x < q
        BY <1>1
      <3>3. At(t, i) = t.lines[x]
        BY <1>3, <3>1, <3>2
      <3>4. w - q + x + 1 = w - m + i
        BY <1>1, <3>1, <3>2
      <3>5. t.lines[x] = At(s, w - q + x + 1)
        BY DEF PageEnds
      <3>6. QED
        BY <3>3, <3>4, <3>5
    <2>3. QED
      BY <2>1, <2>2
  <1>5. Ends(s, t, w, m)
    BY <1>4 DEF Ends
  <1>6. QED
    BY <1>5, ContinuesIs

(* Continues depends on the text alone. *)
LEMMA ContinuesWithText ==
  ASSUME NEW s, NEW t, NEW u, NEW k, Continues(t, s, k),
         SameText(t, u), u.rows = t.rows, u.columns = t.columns
  PROVE  Continues(u, s, k)
  BY DEF Continues, Text, LinesFrom, SameText

(* What a full history takes. *)
LEMMA KeptLines ==
  ASSUME NEW a \in Nat, NEW b \in Nat, NEW q \in Nat
  PROVE  /\ Least(a, b) \in Nat /\ Least(a, b) <= b
         /\ Least(a, b) + q = Least(a + q, b + q)
  BY DEF Least

LEMMA ScrollUpContinues ==
  ASSUME NEW c, NEW r, IsSize(c, r, Limit), NEW s, Sound(s, c, r, Limit), FullRegion(s),
         NEW count \in Int, NEW t, t = ScrollUp(s, count)
  PROVE  Continues(t, s, Clamp(count, 1, r))
  <1>1. PICK n : n = Clamp(count, 1, s.bottom - s.top + 1)
    OBVIOUS
  <1>2. /\ Sized(s, c, r, Limit) /\ Sized(t, c, r, Limit) /\ IsScreen(s)
    BY ScrollUpSound, SMTT(30) DEF Sound, Sized
  <1>3. /\ s.rows = r /\ r \in Nat \ {0} /\ Limit \in Nat /\ s.lines \in Plane(c, r)
    BY <1>2 DEF Sized, IsSize
  <1>4. PICK last : last = r - 1
    OBVIOUS
  <1>5. s.top = 0 /\ s.bottom = last /\ last \in Int
    BY <1>3, <1>4 DEF FullRegion, LastRow
  <1>6. n = Clamp(count, 1, r)
    BY <1>1, <1>3, <1>4, <1>5
  <1>7. n \in 1..r /\ n \in Nat /\ n \in 0..r
    <2>1. n \in 1..r
      BY <1>3, <1>6, ClampIs
    <2>2. QED
      BY <1>3, <2>1
  <1>8. PICK h \in Nat : h = Len(s.history)
    BY <1>2 DEF Sized
  <1>9. PICK blank : BlankOf(s, blank)
    BY DEF BlankOf
  <1>10. t.lines = CloseGap(s.lines, 0, last, n, blank) /\ t.history = Pushed(s, n)
    <2>0. IsScreen(s)
      BY <1>2
    <2>1. t.lines = CloseGap(s.lines, s.top, s.bottom, n, BlankLine(s.columns))
      BY <1>1, <2>0, ScrollUpIs
    <2>2. t.history = Pushed(s, n)
      BY <1>1, <2>0 DEF ScrollUp, IsScreen
    <2>3. QED
      BY <1>5, <1>9, <2>1, <2>2 DEF BlankOf
  <1>11. PICK b \in Nat : b = h + n
    BY <1>7
  <1>12. PICK g : g = Least(Limit, b)
    OBVIOUS
  <1>13. PICK w \in Nat : w = b + r
    BY <1>3
  <1>14. g \in Nat /\ g <= b /\ g + r = Least(Limit + r, w)
    BY <1>3, <1>12, <1>13, KeptLines
  <1>15. PICK m \in Nat : m = g + r
    BY <1>3, <1>14
  <1>16. w = h + r + n
    BY <1>3, <1>7, <1>11, <1>13
  <1>17. Takes(h, r, n, r, w, m)
    BY <1>14, <1>15, <1>16 DEF Takes
  <1>18. Len(t.history) = g /\ \A i \in 1..g : t.history[i] = At(s, b - g + i)
    BY <1>2, <1>7, <1>8, <1>10, <1>11, <1>12, PushedAt
  <1>19. Page(s, h, r) /\ Page(t, g, r)
    BY <1>2, <1>8, <1>18 DEF Page, Sized
  <1>20. /\ \A j \in 1..h : At(s, j) = s.history[j]
         /\ \A x \in Nat : At(s, h + 1 + x) = IF x < r THEN s.lines[x] ELSE blank
    <2>1. PageAt(s, h, r, blank)
      BY <1>3, <1>9, <1>19, AtIs
    <2>2. QED
      BY <2>1 DEF PageAt
  <1>21. ASSUME NEW i \in 1..g PROVE t.history[i] = At(s, w - (g + r) + i)
    <2>1. b - g + i = w - (g + r) + i
      BY <1>3, <1>13, <1>14
    <2>2. QED
      BY <1>18, <2>1
  <1>22. ASSUME NEW x \in 0..(r - 1) PROVE t.lines[x] = At(s, w - r + x + 1)
    <2>1. PICK y \in Nat : y = n + x
      BY <1>7
    <2>2. w - r + x + 1 = h + 1 + y
      BY <1>3, <1>7, <1>16, <2>1
    <2>3. At(s, h + 1 + y) = IF y < r THEN s.lines[y] ELSE blank
      BY <1>20
    <2>4. DOMAIN s.lines = 0..(r - 1)
      BY <1>3 DEF Plane
    <2>5. t.lines[x] = IF x < 0 \/ x > last THEN s.lines[x]
                       ELSE IF x > last - n THEN blank ELSE s.lines[x + n]
      BY <1>10, <2>4 DEF CloseGap
    <2>6. ~(x < 0 \/ x > last)
      BY <1>3, <1>4
    <2>7. x + n = y /\ (x > last - n <=> ~(y < r))
      BY <1>3, <1>4, <1>7, <2>1
    <2>8. QED
      BY <2>2, <2>3, <2>5, <2>6, <2>7
  <1>23. PageEnds(s, t, w, g, r)
    BY <1>21, <1>22 DEF PageEnds
  <1>24. QED
    BY <1>2, <1>6, <1>7, <1>14, <1>15, <1>17, <1>19, <1>23, PageContinues

LEMMA ContinuesFromText ==
  ASSUME NEW s, NEW t, NEW u, NEW k, Continues(t, s, k), SameText(u, s), s.rows = u.rows
  PROVE  Continues(t, u, k)
  BY DEF Continues, Text, LinesFrom, SameText

LEMMA StaysContinued ==
  ASSUME NEW c, NEW r, IsSize(c, r, Limit), NEW s, Sized(s, c, r, Limit)
  PROVE  Continues(s, s, 0)
  <1>1. r \in Nat /\ Limit \in Nat /\ s.rows = r
    BY DEF IsSize, Sized
  <1>2. PICK h \in Nat : h = Len(s.history) /\ h <= Limit
    BY DEF Sized
  <1>3. PICK w \in Nat : w = h + r
    BY <1>1
  <1>4. Page(s, h, r) /\ r \in Nat
    BY <1>1, <1>2 DEF Page
  <1>5. w = h + r + 0 /\ w = Least(Limit + r, w)
    BY <1>1, <1>2, <1>3 DEF Least
  <1>6. Takes(h, r, 0, r, w, w)
    BY <1>5 DEF Takes
  <1>7. PICK blank : BlankOf(s, blank)
    BY DEF BlankOf
  <1>8. /\ \A j \in 1..h : At(s, j) = s.history[j]
        /\ \A x \in Nat : At(s, h + 1 + x) = IF x < r THEN s.lines[x] ELSE blank
    <2>1. PageAt(s, h, r, blank)
      BY <1>4, <1>7, AtIs
    <2>2. QED
      BY <2>1 DEF PageAt
  <1>9. ASSUME NEW i \in 1..h PROVE s.history[i] = At(s, w - (h + r) + i)
    <2>1. w - (h + r) + i = i
      BY <1>1, <1>3
    <2>2. QED
      BY <1>8, <2>1
  <1>10. ASSUME NEW x \in 0..(r - 1) PROVE s.lines[x] = At(s, w - r + x + 1)
    <2>1. w - r + x + 1 = h + 1 + x /\ x \in Nat /\ x < r
      BY <1>1, <1>3
    <2>2. QED
      BY <1>8, <2>1
  <1>11. PageEnds(s, s, w, h, r)
    BY <1>9, <1>10 DEF PageEnds
  <1>12. QED
    BY <1>3, <1>4, <1>6, <1>11, PageContinues

LEMMA IndexContinues ==
  ASSUME NEW c, NEW r, IsSize(c, r, Limit), NEW s, Sound(s, c, r, Limit), FullRegion(s),
         NEW t, t = Index(s)
  PROVE  \E k \in {0, 1} : Continues(t, s, k)
  <1>1. IsScreen(s) /\ Sized(s, c, r, Limit) /\ r \in Nat \ {0}
    BY DEF Sound, Sized, IsSize
  <1>2. CASE s.row = s.bottom
    <2>1. PICK u : u = ScrollUp(s, 1)
      OBVIOUS
    <2>2. PICK count \in Int : count = 1
      OBVIOUS
    <2>3. Continues(u, s, Clamp(count, 1, r))
      BY <2>1, <2>2, ScrollUpContinues
    <2>4. Clamp(count, 1, r) = 1
      BY <1>1, <2>2 DEF Clamp
    <2>5. Sound(u, c, r, Limit)
      BY <2>1, <2>2, ScrollUpSound
    <2>6. IsScreen(u)
      BY <2>5 DEF Sound, Sized
    <2>7. AtRow(u, u.row, t)
      BY <1>1, <1>2, <2>1, <2>6, IndexIs
    <2>8. SameText(u, t) /\ t.rows = u.rows /\ t.columns = u.columns
      BY <2>7 DEF AtRow, SameSize
    <2>9. Continues(u, s, 1)
      BY <2>3, <2>4
    <2>10. Continues(t, s, 1)
      BY <2>8, <2>9, ContinuesWithText
    <2>11. QED
      BY <2>10
  <1>3. CASE s.row # s.bottom
    <2>1. PICK row : row = IF s.row < LastRow(s) THEN s.row + 1 ELSE s.row
      OBVIOUS
    <2>2. AtRow(s, row, t)
      BY <1>1, <1>3, <2>1, IndexIs
    <2>3. SameText(s, t) /\ t.rows = s.rows /\ t.columns = s.columns
      BY <2>2 DEF AtRow, SameSize
    <2>4. Continues(s, s, 0)
      BY <1>1, StaysContinued
    <2>5. Continues(t, s, 0)
      BY <2>3, <2>4, ContinuesWithText
    <2>6. QED
      BY <2>5
  <1>4. QED
    BY <1>2, <1>3

LEMMA ReturnKeepsText ==
  ASSUME NEW s, IsScreen(s), NEW t, t = CarriageReturn(s)
  PROVE  SameText(s, t) /\ SameSize(s, t) /\ SameRegion(s, t)
  BY MoveCursorIs DEF CarriageReturn, SetColumn

LEMMA NextLineContinues ==
  ASSUME NEW c, NEW r, IsSize(c, r, Limit), NEW s, Good(s, c, r, Limit), FullRegion(s),
         NEW t, t = NextLine(s)
  PROVE  \E k \in {0, 1} : Continues(t, s, k)
  <1>1. PICK u : u = CarriageReturn(s)
    OBVIOUS
  <1>2. Sound(s, c, r, Limit) /\ IsScreen(s)
    BY DEF Good, Sound, Sized
  <1>3. Good(u, c, r, Limit)
    BY <1>1, <1>2, CarriageReturnGood
  <1>4. SameText(s, u) /\ SameSize(s, u) /\ SameRegion(s, u)
    BY <1>1, <1>2, ReturnKeepsText
  <1>5. Sound(u, c, r, Limit) /\ u.rows = s.rows
    BY <1>3, <1>4 DEF Good, SameSize
  <1>6. FullRegion(u)
    BY <1>4 DEF FullRegion, LastRow, SameSize, SameRegion
  <1>7. t = Index(u)
    BY <1>1 DEF NextLine
  <1>8. PICK k \in {0, 1} : Continues(t, u, k)
    BY <1>5, <1>6, <1>7, IndexContinues
  <1>9. Continues(t, s, k)
    BY <1>4, <1>5, <1>8, ContinuesFromText
  <1>10. QED
    BY <1>9

LEMMA LineFeedContinues ==
  ASSUME NEW c, NEW r, IsSize(c, r, Limit), NEW s, Good(s, c, r, Limit), FullRegion(s),
         NEW t, t = CarriageReturn(Index(s))
  PROVE  \E k \in {0, 1} : Continues(t, s, k)
  <1>1. PICK u : u = Index(s)
    OBVIOUS
  <1>2. Sound(s, c, r, Limit)
    BY DEF Good
  <1>3. Good(u, c, r, Limit)
    BY <1>1, <1>2, IndexGood
  <1>4. IsScreen(u)
    BY <1>3 DEF Good, Sound, Sized
  <1>5. SameText(u, t) /\ SameSize(u, t)
    BY <1>1, <1>4, ReturnKeepsText
  <1>6. t.rows = u.rows /\ t.columns = u.columns
    BY <1>5 DEF SameSize
  <1>7. PICK k \in {0, 1} : Continues(u, s, k)
    BY <1>1, <1>2, IndexContinues
  <1>8. Continues(t, s, k)
    BY <1>5, <1>6, <1>7, ContinuesWithText
  <1>9. QED
    BY <1>8

(* A window that gets lower puts its first rows into the history. *)
LEMMA ShrunkContinues ==
  ASSUME NEW c, NEW r, IsSize(c, r, Limit), NEW s, Sized(s, c, r, Limit), NEW q \in 1..(r - 1),
         NEW t, t = Shrunk(s, q)
  PROVE  Continues(t, s, 0)
  <1>1. /\ r \in Nat /\ Limit \in Nat /\ q \in Nat /\ q < r /\ c \in Nat \ {0}
    BY DEF IsSize
  <1>2. Sized(t, c, q, Limit) /\ IsSize(c, q, Limit)
    <2>1. Sized(Shrunk(s, q), c, q, Limit)
      BY ShrunkSized
    <2>2. IsSize(c, q, Limit)
      BY <1>1 DEF IsSize
    <2>3. QED
      BY <2>1, <2>2
  <1>3. PICK surplus \in Nat : surplus = r - q
    BY <1>1
  <1>4. surplus \in 0..r
    BY <1>1, <1>3
  <1>5. PICK h \in Nat : h = Len(s.history)
    BY DEF Sized
  <1>6. IsScreen(s) /\ s.rows = r
    BY DEF Sized
  <1>7. /\ t.history = Pushed(s, surplus)
        /\ t.lines = [x \in 0..(q - 1) |-> s.lines[x + surplus]]
    BY <1>3, <1>6 DEF Shrunk, IsScreen
  <1>8. PICK b \in Nat : b = h + surplus
    BY <1>3
  <1>9. PICK g : g = Least(Limit, b)
    OBVIOUS
  <1>10. PICK w \in Nat : w = b + q
    BY <1>1
  <1>11. g \in Nat /\ g <= b /\ g + q = Least(Limit + q, w)
    BY <1>1, <1>9, <1>10, KeptLines
  <1>12. PICK m \in Nat : m = g + q
    BY <1>1, <1>11
  <1>13. w = h + r + 0
    BY <1>1, <1>3, <1>8, <1>10
  <1>14. Takes(h, r, 0, q, w, m)
    BY <1>11, <1>12, <1>13 DEF Takes
  <1>15. Len(t.history) = g /\ \A i \in 1..g : t.history[i] = At(s, b - g + i)
    BY <1>4, <1>5, <1>7, <1>8, <1>9, PushedAt
  <1>16. Page(s, h, r) /\ Page(t, g, q) /\ r \in Nat
    BY <1>1, <1>2, <1>5, <1>6, <1>15 DEF Page, Sized
  <1>17. PICK blank : BlankOf(s, blank)
    BY DEF BlankOf
  <1>18. /\ \A j \in 1..h : At(s, j) = s.history[j]
         /\ \A x \in Nat : At(s, h + 1 + x) = IF x < r THEN s.lines[x] ELSE blank
    <2>1. PageAt(s, h, r, blank)
      BY <1>16, <1>17, AtIs
    <2>2. QED
      BY <2>1 DEF PageAt
  <1>19. ASSUME NEW i \in 1..g PROVE t.history[i] = At(s, w - (g + q) + i)
    <2>1. b - g + i = w - (g + q) + i
      BY <1>1, <1>10, <1>11
    <2>2. QED
      BY <1>15, <2>1
  <1>20. ASSUME NEW x \in 0..(q - 1) PROVE t.lines[x] = At(s, w - q + x + 1)
    <2>1. PICK y \in Nat : y = x + surplus
      BY <1>3
    <2>2. w - q + x + 1 = h + 1 + y /\ y < r
      BY <1>1, <1>3, <1>8, <1>10, <2>1
    <2>3. At(s, h + 1 + y) = s.lines[y]
      BY <1>18, <2>2
    <2>4. t.lines[x] = s.lines[y]
      BY <1>7, <2>1
    <2>5. QED
      BY <2>2, <2>3, <2>4
  <1>21. PageEnds(s, t, w, g, q)
    BY <1>19, <1>20 DEF PageEnds
  <1>22. QED
    BY <1>2, <1>11, <1>12, <1>14, <1>16, <1>21, PageContinues

(* A window that gets higher takes them back, and blanks when there are no more. *)
LEMMA GrownContinues ==
  ASSUME NEW c, NEW r, IsSize(c, r, Limit), NEW s, Sized(s, c, r, Limit), NEW q \in Nat, q > r,
         NEW t, t = Grown(s, q)
  PROVE  Continues(t, s, Clamp(q - r - Len(s.history), 0, q))
  <1>1. /\ r \in Nat /\ Limit \in Nat /\ q > r /\ c \in Nat \ {0}
    BY DEF IsSize
  <1>2. Sized(t, c, q, Limit) /\ IsSize(c, q, Limit)
    BY <1>1, GrownSized DEF IsSize
  <1>3. PICK h \in Nat : h = Len(s.history) /\ h <= Limit
    BY DEF Sized
  <1>4. IsScreen(s) /\ s.rows = r /\ s.history \in Seq(Line(c))
    BY DEF Sized
  <1>5. PICK more \in Nat : more = q - r
    BY <1>1
  <1>6. PICK back \in Nat : back = Least(more, h) /\ back <= more /\ back <= h
    <2>1. Least(more, h) \in Nat /\ Least(more, h) <= more /\ Least(more, h) <= h
      BY DEF Least
    <2>2. QED
      BY <2>1
  <1>7. PICK kept \in Nat : kept = h - back
    BY <1>6
  <1>8. PICK k : k = Clamp(more - h, 0, q)
    OBVIOUS
  <1>9. k \in Nat /\ kept + q = h + r + k
    BY <1>1, <1>5, <1>6, <1>7, <1>8 DEF Clamp, Least
  <1>10. PICK blank : BlankOf(s, blank)
    BY DEF BlankOf
  <1>11. /\ t.history = SubSeq(s.history, 1, kept)
         /\ t.lines = [x \in 0..(q - 1) |->
                         IF x < back THEN s.history[kept + x + 1]
                         ELSE IF x - back < r THEN s.lines[x - back] ELSE blank]
    <2>1. back = Least(q - s.rows, Len(s.history)) /\ kept = Len(s.history) - back
      BY <1>3, <1>4, <1>5, <1>6, <1>7
    <2>2. QED
      BY <1>4, <1>10, <2>1 DEF Grown, IsScreen, BlankOf
  <1>12. Len(t.history) = kept /\ \A i \in 1..kept : t.history[i] = s.history[i]
    <2>1. PICK P : P = Line(c)
      OBVIOUS
    <2>2. PICK f \in Seq(P) : f = s.history
      BY <1>4, <2>1
    <2>3. kept <= Len(f) /\ Len(f) = h
      BY <1>3, <1>6, <1>7, <2>2
    <2>4. /\ Len(SubSeq(f, 1, kept)) = kept
          /\ \A i \in 1..kept : SubSeq(f, 1, kept)[i] = f[i]
      BY <2>3
    <2>5. QED
      BY <1>11, <2>2, <2>4
  <1>13. PICK w \in Nat : w = h + r + k
    BY <1>1, <1>9
  <1>14. w = kept + q /\ w = Least(Limit + q, w)
    <2>1. w = kept + q
      BY <1>9, <1>13
    <2>2. kept <= Limit
      BY <1>1, <1>3, <1>6, <1>7
    <2>3. w <= Limit + q
      BY <1>1, <2>1, <2>2
    <2>4. QED
      BY <1>1, <2>1, <2>3 DEF Least
  <1>15. Takes(h, r, k, q, w, w)
    BY <1>13, <1>14 DEF Takes
  <1>16. Page(s, h, r) /\ Page(t, kept, q) /\ r \in Nat
    BY <1>1, <1>2, <1>3, <1>4, <1>12 DEF Page, Sized
  <1>17. /\ \A j \in 1..h : At(s, j) = s.history[j]
         /\ \A x \in Nat : At(s, h + 1 + x) = IF x < r THEN s.lines[x] ELSE blank
    <2>1. PageAt(s, h, r, blank)
      BY <1>10, <1>16, AtIs
    <2>2. QED
      BY <2>1 DEF PageAt
  <1>18. ASSUME NEW i \in 1..kept PROVE t.history[i] = At(s, w - (kept + q) + i)
    <2>1. w - (kept + q) + i = i /\ i \in 1..h
      BY <1>6, <1>7, <1>14
    <2>2. QED
      BY <1>12, <1>17, <2>1
  <1>19. ASSUME NEW x \in 0..(q - 1) PROVE t.lines[x] = At(s, w - q + x + 1)
    <2>1. PICK j : j = kept + x + 1
      OBVIOUS
    <2>2. w - q + x + 1 = j
      BY <1>14, <2>1
    <2>3. t.lines[x] = IF x < back THEN s.history[j]
                       ELSE IF x - back < r THEN s.lines[x - back] ELSE blank
      BY <1>11, <2>1
    <2>4. CASE x < back
      <3>1. j \in 1..h
        BY <1>6, <1>7, <2>1, <2>4
      <3>2. QED
        BY <1>17, <2>2, <2>3, <2>4, <3>1
    <2>5. CASE ~(x < back)
      <3>1. PICK y \in Nat : y = x - back
        BY <2>5
      <3>2. j = h + 1 + y
        BY <1>6, <1>7, <2>1, <3>1
      <3>3. At(s, h + 1 + y) = IF y < r THEN s.lines[y] ELSE blank
        BY <1>17
      <3>4. QED
        BY <2>2, <2>3, <2>5, <3>1, <3>2, <3>3
    <2>6. QED
      BY <2>4, <2>5
  <1>20. PageEnds(s, t, w, kept, q)
    BY <1>18, <1>19 DEF PageEnds
  <1>21. Continues(t, s, k)
    BY <1>2, <1>9, <1>14, <1>15, <1>16, <1>20, PageContinues
  <1>22. k = Clamp(q - r - Len(s.history), 0, q)
    BY <1>3, <1>5, <1>8
  <1>23. QED
    BY <1>21, <1>22

(* A window of the same columns and another height. *)
LEMMA ResizeContinues ==
  ASSUME NEW c, NEW r, IsSize(c, r, Limit), NEW s, Good(s, c, r, Limit),
         NEW q, IsSize(c, q, Limit), NEW t, t = Resize(s, c, q)
  PROVE  Continues(t, s, Clamp(q - r - Len(s.history), 0, q)) /\ t.rows = q
  <1>1. Sized(s, c, r, Limit) /\ s.columns = c /\ s.rows = r
    BY DEF Good, Sound, Sized
  <1>2. r \in Nat \ {0} /\ q \in Nat \ {0} /\ Limit \in Nat
    BY DEF IsSize
  <1>3. PICK h \in Nat : h = Len(s.history)
    BY <1>1 DEF Sized
  <1>4. Good(t, c, q, Limit)
    BY ResizeGood
  <1>5. t.rows = q /\ t.columns = c
    BY <1>4 DEF Good, Sound, Sized
  <1>6. q <= r => Clamp(q - r - h, 0, q) = 0
    BY <1>2 DEF Clamp
  <1>7. CASE q = r
    <2>1. t = s
      BY <1>1, <1>7 DEF Resize
    <2>2. Continues(s, s, 0)
      BY <1>1, StaysContinued
    <2>3. QED
      BY <1>2, <1>3, <1>5, <1>6, <1>7, <2>1, <2>2
  <1>8. CASE q # r
    <2>1. PICK tall : tall = IF q < r THEN Shrunk(s, q) ELSE IF q > r THEN Grown(s, q) ELSE s
      OBVIOUS
    <2>2. Continues(tall, s, Clamp(q - r - h, 0, q)) /\ Sized(tall, c, q, Limit)
      <3>1. CASE q < r
        <4>1. q \in 1..(r - 1)
          BY <1>2, <3>1
        <4>2. tall = Shrunk(s, q)
          BY <2>1, <3>1
        <4>3. Continues(tall, s, 0)
          BY <1>1, <4>1, <4>2, ShrunkContinues
        <4>4. Sized(tall, c, q, Limit)
          BY <1>1, <4>1, <4>2, ShrunkSized
        <4>5. Clamp(q - r - h, 0, q) = 0
          BY <1>2, <1>6, <3>1
        <4>6. QED
          BY <4>3, <4>4, <4>5
      <3>2. CASE q > r
        <4>1. tall = Grown(s, q) /\ q \in Nat
          BY <1>2, <2>1, <3>2
        <4>2. Continues(tall, s, Clamp(q - r - Len(s.history), 0, q))
          BY <1>1, <3>2, <4>1, GrownContinues
        <4>3. Sized(tall, c, q, Limit)
          BY <1>1, <3>2, <4>1, GrownSized
        <4>4. QED
          BY <1>3, <4>2, <4>3
      <3>3. QED
        BY <1>2, <1>8, <3>1, <3>2
    <2>3. PICK u : u = ResetRegion(tall)
      OBVIOUS
    <2>4. IsScreen(u) /\ SameText(tall, u) /\ SameSize(tall, u)
      BY <2>2, <2>3, ResetRegionIs DEF Sized
    <2>5. PICK v : v = MoveCursor(u, tall.row, tall.column)
      OBVIOUS
    <2>6. IsScreen(v) /\ SameText(u, v) /\ SameSize(u, v)
      BY <2>4, <2>5, MoveCursorIs
    <2>7. PICK tabs : tabs = DefaultTabs(c)
      OBVIOUS
    <2>8. t = [v EXCEPT !.tabs = tabs]
      BY <1>1, <1>8, <2>1, <2>3, <2>5, <2>7 DEF Resize
    <2>9. SameText(v, t)
      BY <2>6, <2>8 DEF IsScreen, SameText
    <2>10. SameText(tall, t)
      BY <2>4, <2>6, <2>9 DEF SameText
    <2>11. t.rows = tall.rows /\ t.columns = tall.columns
      BY <1>5, <2>2 DEF Sized
    <2>12. Continues(t, s, Clamp(q - r - h, 0, q))
      BY <2>2, <2>10, <2>11, ContinuesWithText
    <2>13. QED
      BY <1>3, <1>5, <2>12
  <1>9. QED
    BY <1>7, <1>8

(* A change of height and a line feed lose no line of the normal screen: what *)
(* leaves it is in the history, as much of it as the limit allows, and comes  *)
(* back first; and scrolling the whole screen puts what goes into the history *)
(* (Screen.cpp:66, 104).                                                      *)
THEOREM TextIsKeptCorrect == Spec => TextIsKept
  <1> DEFINE Resized ==
               (\E size \in Sizes : size[1] = normal.columns /\ ResizeWindow(size))
                 => Continues(normal', normal,
                              Clamp(normal'.rows - normal.rows - Len(normal.history), 0, normal'.rows))
             Fed ==
               LineFeed \/ IndexDown \/ NewLine
                 => \E k \in {0, 1} : Continues(normal', normal, k)
             Scrolled ==
               \A n \in Counts :
                 Scroll(n) => Continues(normal', normal, Least(n, normal.rows))
             Kept == Resized /\ (active = "normal" /\ FullRegion(normal) => Fed /\ Scrolled)
  <1>1. ASSUME Inv, NEW size \in Sizes, ResizeWindow(size), size[1] = normal.columns
        PROVE  Continues(normal', normal,
                         Clamp(normal'.rows - normal.rows - Len(normal.history), 0, normal'.rows))
    <2>1. PICK z \in Sizes : Fits(screens, z)
      BY <1>1 DEF Inv
    <2>2. PICK s : s = normal
      OBVIOUS
    <2>3. PICK c, r, q : c = z[1] /\ r = z[2] /\ q = size[2]
      OBVIOUS
    <2>4. Good(s, c, r, Limit) /\ s.columns = c /\ s.rows = r
      BY <2>1, <2>2, <2>3 DEF Fits, normal, Good, Sound, Sized
    <2>5. IsSize(c, r, Limit) /\ IsSize(c, q, Limit)
      BY <1>1, <2>2, <2>3, <2>4, SizesAre DEF IsSize
    <2>6. PICK t : t = Resize(s, c, q)
      OBVIOUS
    <2>7. normal' = t
      <3>1. DOMAIN screens = {"normal", "alternate"}
        BY <2>1 DEF Fits
      <3>2. screens' = [b \in DOMAIN screens |-> Resize(screens[b], size[1], size[2])]
        BY <1>1 DEF ResizeWindow
      <3>3. screens'["normal"] = Resize(screens["normal"], size[1], size[2])
        BY <3>1, <3>2
      <3>4. QED
        BY <1>1, <2>2, <2>3, <2>4, <2>6, <3>3 DEF normal
    <2>8. Continues(t, s, Clamp(q - r - Len(s.history), 0, q)) /\ t.rows = q
      BY <2>4, <2>5, <2>6, ResizeContinues
    <2>9. QED
      BY <2>2, <2>4, <2>7, <2>8
  <1>2. ASSUME Inv, active = "normal"
        PROVE  \E z \in Sizes : /\ Good(normal, z[1], z[2], Limit) /\ IsSize(z[1], z[2], Limit)
                                /\ screen = normal
                                /\ \A t : Becomes(t) => normal' = t
    <2>1. PICK z \in Sizes : Fits(screens, z)
      BY <1>2 DEF Inv
    <2>2. Good(normal, z[1], z[2], Limit) /\ IsSize(z[1], z[2], Limit)
      BY <2>1, SizesAre DEF Fits, normal
    <2>3. screen = normal
      BY <1>2 DEF screen, normal
    <2>4. ASSUME NEW t, Becomes(t) PROVE normal' = t
      <3>1. screen' = t
        BY <1>2, <2>4, ScreenAfter
      <3>2. active' = active
        BY <2>4 DEF Becomes
      <3>3. QED
        BY <1>2, <3>1, <3>2 DEF screen, normal
    <2>5. QED
      BY <2>2, <2>3, <2>4
  <1>3. ASSUME Inv, active = "normal", FullRegion(normal), LineFeed \/ IndexDown \/ NewLine
        PROVE  \E k \in {0, 1} : Continues(normal', normal, k)
    <2>1. PICK z \in Sizes : /\ Good(normal, z[1], z[2], Limit) /\ IsSize(z[1], z[2], Limit)
                             /\ screen = normal
                             /\ \A t : Becomes(t) => normal' = t
      BY <1>2, <1>3
    <2>2. PICK c, r, s : c = z[1] /\ r = z[2] /\ s = normal
      OBVIOUS
    <2>3. /\ IsSize(c, r, Limit) /\ Good(s, c, r, Limit) /\ Sound(s, c, r, Limit)
          /\ FullRegion(s) /\ s = screen
      BY <1>3, <2>1, <2>2 DEF Good
    <2>4. PICK t, u, v : t = Index(s) /\ u = CarriageReturn(t) /\ v = NextLine(s)
      OBVIOUS
    <2>5. \E k \in {0, 1} : Continues(t, s, k)
      BY <2>3, <2>4, IndexContinues
    <2>6. \E k \in {0, 1} : Continues(u, s, k)
      BY <2>3, <2>4, LineFeedContinues
    <2>7. \E k \in {0, 1} : Continues(v, s, k)
      BY <2>3, <2>4, NextLineContinues
    <2>8. Becomes(t) \/ Becomes(u) \/ Becomes(v)
      BY <1>3, <2>3, <2>4 DEF LineFeed, IndexDown, NewLine
    <2>9. normal' = t \/ normal' = u \/ normal' = v
      BY <2>1, <2>8
    <2>10. QED
      BY <2>2, <2>5, <2>6, <2>7, <2>9
  <1>4. ASSUME Inv, active = "normal", FullRegion(normal), NEW n \in Counts, Scroll(n)
        PROVE  Continues(normal', normal, Least(n, normal.rows))
    <2>1. PICK z \in Sizes : /\ Good(normal, z[1], z[2], Limit) /\ IsSize(z[1], z[2], Limit)
                             /\ screen = normal
                             /\ \A t : Becomes(t) => normal' = t
      BY <1>2, <1>4
    <2>2. PICK c, r, s : c = z[1] /\ r = z[2] /\ s = normal
      OBVIOUS
    <2>3. /\ IsSize(c, r, Limit) /\ Sound(s, c, r, Limit) /\ FullRegion(s) /\ s = screen
      BY <1>4, <2>1, <2>2 DEF Good
    <2>4. PICK t : t = ScrollUp(s, n)
      OBVIOUS
    <2>5. n \in Int /\ n \in Nat \ {0}
      BY CountsAre, TerminalAssumption
    <2>6. Continues(t, s, Clamp(n, 1, r))
      BY <2>3, <2>4, <2>5, ScrollUpContinues
    <2>7. r \in Nat \ {0} /\ s.rows = r
      BY <2>3 DEF IsSize, Sound, Sized
    <2>8. Clamp(n, 1, r) = Least(n, r)
      BY <2>5, <2>7 DEF Clamp, Least
    <2>9. Becomes(t)
      BY <1>4, <2>3, <2>4 DEF Scroll
    <2>10. normal' = t
      BY <2>1, <2>9
    <2>11. QED
      BY <2>2, <2>6, <2>7, <2>8, <2>10
  <1>5. ASSUME Inv PROVE Kept
    <2>1. Resized
      BY <1>1, <1>5
    <2>2. ASSUME active = "normal", FullRegion(normal) PROVE Fed /\ Scrolled
      BY <1>3, <1>4, <1>5, <2>2
    <2>3. QED
      BY <2>1, <2>2
  <1>6. ASSUME Inv, [Next]_vars PROVE [Kept]_vars
    BY <1>5, <1>6
  <1>7. QED
    BY <1>6, Invariance, PTL DEF Spec, TextIsKept

-----------------------------------------------------------------------------
(***************************************************************************)
(* The parser.  Each state's operator keeps its members in range; what     *)
(* else a byte does is one relation for all states, Follows.               *)
(***************************************************************************)
ByteSet == 0..255

Params == {"CsiEntry", "CsiParam", "CsiIntermediate",
           "DcsEntry", "DcsParam", "DcsIntermediate"}

Members ==
  {"state", "parameters", "started", "marker", "intermediate", "payload", "terminator",
   "remaining", "codePoint", "minimum", "out"}

IsParser(p) == p = [member \in Members |-> p[member]]

Numbered(p) ==
  /\ p.parameters \in Seq(Int) /\ Len(p.parameters) <= MaxParameters
  /\ p.started \in BOOLEAN /\ (p.started => p.parameters # <<>>)

Decodes(p) == p.remaining \in 0..3 /\ p.codePoint \in Nat /\ p.minimum \in Nat

InRange(p) ==
  /\ IsParser(p)
  /\ p.state \in States
  /\ Numbered(p) /\ Decodes(p)
  /\ p.marker \in Nat /\ p.intermediate \in Nat
  /\ p.payload \in Seq(ByteSet) /\ Len(p.payload) <= MaxPayload
  /\ p.terminator \in BOOLEAN

SameParameters(p, q) == q.parameters = p.parameters /\ q.started = p.started

SameCharacter(p, q) ==
  q.remaining = p.remaining /\ q.codePoint = p.codePoint /\ q.minimum = p.minimum

(* No call that hands over parameters or a payload. *)
Plain(out) == \A i \in 1..Len(out) : out[i].call \notin {"csi", "hook", "osc"}

Dispatched(p, b, out) ==
  \/ Plain(out)
  \/ p.state \in Params /\ \E call \in {"csi", "hook"} : out = <<Sequence(p, call, b)>>
  \/ /\ p.state = "OscString" \/ p.terminator
     /\ out = <<[call |-> "osc", payload |-> p.payload]>>

(* What a byte does to a sequence, its parameters or its payload. *)
FollowsText(p, b, q) ==
  /\ p.state \in Params /\ q.state \in Params => SameParameters(CollectParameter(p, b), q)
  /\ p.state \notin Params /\ q.state \in Params => q.parameters = <<>> /\ q.started = FALSE
  /\ p.state \in Params => q.state # "OscString"
  /\ p.state = "OscString" => q.state \notin Params
  /\ p.state = "OscString" /\ q.state = "OscString" =>
       q.payload = IF (b >= 32 \/ b = 9) /\ Len(p.payload) < MaxPayload
                   THEN Append(p.payload, b) ELSE p.payload
  /\ p.state # "OscString" /\ q.state = "OscString" => q.payload = <<>>

Follows(p, b, q) ==
  /\ FollowsText(p, b, q)
  /\ IF p.state = "Ground" /\ ~IsC0(b) THEN SameCharacter(DecodeUtf8(p, b), q)
     ELSE SameCharacter(p, q) \/ q.remaining = 0
  /\ q.terminator = FALSE
  /\ Dispatched(p, b, q.out)

LEMMA PlainNone == Plain(<<>>)
  BY DEF Plain

LEMMA PlainOne ==
  ASSUME NEW e, e.call \notin {"csi", "hook", "osc"}
  PROVE  Plain(<<e>>)
  BY DEF Plain

LEMMA PlainTwo ==
  ASSUME NEW e, e.call \notin {"csi", "hook", "osc"},
         NEW f, f.call \notin {"csi", "hook", "osc"}
  PROVE  Plain(<<e, f>>)
  <1>1. \A i \in 1..Len(<<e, f>>) : <<e, f>>[i] = e \/ <<e, f>>[i] = f
    OBVIOUS
  <1>2. QED
    BY <1>1 DEF Plain

LEMMA CallIs ==
  ASSUME NEW p, IsParser(p), p.out = <<>>, NEW e
  PROVE  /\ IsParser(Call(p, e)) /\ Call(p, e).out = <<e>>
         /\ Call(p, e).state = p.state /\ SameParameters(p, Call(p, e))
         /\ Call(p, e).marker = p.marker /\ Call(p, e).intermediate = p.intermediate
         /\ Call(p, e).payload = p.payload /\ Call(p, e).terminator = p.terminator
         /\ SameCharacter(p, Call(p, e))
  <1>1. Append(<<>>, e) = <<e>>
    OBVIOUS
  <1>2. QED
    BY <1>1 DEF Call, IsParser, Members, SameParameters, SameCharacter

LEMMA EnterIs ==
  ASSUME NEW p, IsParser(p), NEW s
  PROVE  /\ IsParser(Enter(p, s)) /\ Enter(p, s).out = p.out
         /\ Enter(p, s).state = s /\ SameParameters(p, Enter(p, s))
         /\ Enter(p, s).marker = p.marker /\ Enter(p, s).intermediate = p.intermediate
         /\ Enter(p, s).payload = p.payload /\ Enter(p, s).terminator = p.terminator
         /\ SameCharacter(p, Enter(p, s))
  BY DEF Enter, IsParser, Members, SameParameters, SameCharacter

LEMMA WithDigitIs ==
  ASSUME NEW v \in Int, NEW b \in ByteSet
  PROVE  WithDigit(v, b) \in Int /\ (IsDigit(b) /\ v \in Nat => WithDigit(v, b) \in Nat)
  BY ParserAssumption DEF WithDigit, ByteSet, IsDigit

LEMMA CollectParameterIs ==
  ASSUME NEW p, InRange(p), NEW b \in ByteSet
  PROVE  /\ InRange(CollectParameter(p, b))
         /\ CollectParameter(p, b).state = p.state
         /\ CollectParameter(p, b).out = p.out
         /\ CollectParameter(p, b).payload = p.payload
         /\ CollectParameter(p, b).terminator = p.terminator
         /\ SameCharacter(p, CollectParameter(p, b))
  <1>1. CASE IsSeparator(b)
    <2> DEFINE v == IF ~p.started /\ Len(p.parameters) < MaxParameters
                    THEN Append(p.parameters, -1) ELSE p.parameters
               q == CollectSeparator(p)
    <2>0. v \in Seq(Int) /\ Len(v) <= MaxParameters
      <3>1. CASE ~p.started /\ Len(p.parameters) < MaxParameters
        <4>1. v = Append(p.parameters, -1)
          BY <3>1
        <4>2. QED
          <5> HIDE DEF v
          <5>1. QED
            BY <3>1, <4>1, ParserAssumption DEF InRange, Numbered
      <3>2. CASE ~(~p.started /\ Len(p.parameters) < MaxParameters)
        <4>1. v = p.parameters
          BY <3>2
        <4>2. QED
          <5> HIDE DEF v
          <5>1. QED
            BY <4>1 DEF InRange, Numbered
      <3>3. QED
        BY <3>1, <3>2
    <2>1. /\ IsParser(q) /\ q.started = FALSE /\ SameCharacter(p, q)
          /\ q.state = p.state /\ q.out = p.out /\ q.payload = p.payload
          /\ q.terminator = p.terminator /\ q.marker = p.marker
          /\ q.intermediate = p.intermediate /\ q.parameters = v
      <3>1. q = [p EXCEPT !.parameters = v, !.started = FALSE]
        BY DEF CollectSeparator
      <3>2. IsParser(p)
        BY DEF InRange
      <3>3. QED
        <4> HIDE DEF q, v
        <4>1. QED
          BY <3>1, <3>2 DEF IsParser, Members, SameCharacter
    <2>2. Numbered(q)
      <3> HIDE DEF q, v
      <3>1. QED
        BY <2>0, <2>1 DEF Numbered
    <2>3. CollectParameter(p, b) = q
      BY <1>1 DEF CollectParameter
    <2>4. QED
      <3> HIDE DEF q
      <3>1. QED
        BY <2>1, <2>2, <2>3 DEF InRange, Decodes, SameCharacter
  <1>2. CASE ~IsSeparator(b) /\ IsDigit(b)
    <2> DEFINE begun == IF p.started THEN p.parameters ELSE Append(p.parameters, 0)
               value == WithDigit(begun[Len(begun)], b)
               q == [p EXCEPT !.parameters = [begun EXCEPT ![Len(begun)] = value],
                              !.started = TRUE]
    <2>1. CollectParameter(p, b) = IF Len(p.parameters) >= MaxParameters THEN p ELSE q
      BY <1>2 DEF CollectParameter, CollectDigit
    <2>2. CASE Len(p.parameters) >= MaxParameters
      BY <2>1, <2>2 DEF SameCharacter
    <2>3. CASE ~(Len(p.parameters) >= MaxParameters)
      <3>1. /\ begun \in Seq(Int) /\ Len(begun) >= 1 /\ Len(begun) <= MaxParameters
            /\ begun[Len(begun)] \in Int
        BY <2>3, ParserAssumption DEF InRange, Numbered
      <3>2. value \in Int
        BY <3>1, WithDigitIs
      <3>3. /\ IsParser(q) /\ q.started = TRUE /\ SameCharacter(p, q)
            /\ q.state = p.state /\ q.out = p.out /\ q.payload = p.payload
            /\ q.terminator = p.terminator /\ q.marker = p.marker
            /\ q.intermediate = p.intermediate
            /\ q.parameters = [begun EXCEPT ![Len(begun)] = value]
        <4> DEFINE v == [begun EXCEPT ![Len(begun)] = value]
        <4>1. IsParser(p) /\ q = [p EXCEPT !.parameters = v, !.started = TRUE]
          BY DEF InRange
        <4>2. QED
          <5> HIDE DEF v, q
          <5>1. /\ IsParser(q) /\ q.started = TRUE /\ SameCharacter(p, q)
                /\ q.state = p.state /\ q.out = p.out /\ q.payload = p.payload
                /\ q.terminator = p.terminator /\ q.marker = p.marker
                /\ q.intermediate = p.intermediate /\ q.parameters = v
            BY <4>1 DEF IsParser, Members, SameCharacter
          <5>2. QED
            BY <5>1 DEF v
      <3>4. Numbered(q)
        <4> HIDE DEF begun, value, q
        <4>1. q.parameters \in Seq(Int) /\ Len(q.parameters) = Len(begun)
          BY <3>1, <3>2, <3>3
        <4>2. q.parameters # <<>>
          BY <3>1, <4>1
        <4>3. q.started \in BOOLEAN
          BY <3>3
        <4>4. Len(q.parameters) <= MaxParameters
          BY <3>1, <4>1
        <4>5. QED
          BY <4>1, <4>2, <4>3, <4>4 DEF Numbered
      <3>5. CollectParameter(p, b) = q
        BY <2>1, <2>3
      <3>6. QED
        <4> HIDE DEF q
        <4>1. QED
          BY <3>3, <3>4, <3>5 DEF InRange, Decodes, SameCharacter
    <2>4. QED
      BY <2>2, <2>3
  <1>3. CASE ~IsSeparator(b) /\ ~IsDigit(b)
    BY <1>3 DEF CollectParameter, SameCharacter
  <1>4. QED
    BY <1>1, <1>2, <1>3

LEMMA CollectParameterKeeps ==
  ASSUME NEW p, NEW b, ~IsSeparator(b), ~IsDigit(b)
  PROVE  CollectParameter(p, b) = p
  BY DEF CollectParameter

(* A call, or another state, or both. *)
LEMMA CallKeeps ==
  ASSUME NEW p, InRange(p), p.out = <<>>, NEW e, NEW s \in States
  PROVE  InRange(Call(p, e)) /\ InRange(Enter(p, s)) /\ InRange(Enter(Call(p, e), s))
  BY CallIs, EnterIs DEF InRange, Numbered, Decodes, SameParameters, SameCharacter

(* What a byte of a sequence must not do does nothing. *)
LEMMA FollowsPlainly ==
  ASSUME NEW p, NEW b, NEW q,
         ~(p.state = "Ground" /\ ~IsC0(b)),
         SameCharacter(p, q), q.terminator = FALSE, Plain(q.out),
         FollowsText(p, b, q)
  PROVE  Follows(p, b, q)
  BY DEF Follows, Dispatched

(* The parameters are collected in the states of a sequence. *)
LEMMA C0CollectsNothing ==
  ASSUME NEW p, NEW b \in ByteSet, IsC0(b) \/ IsMarker(b) \/ IsIntermediate(b) \/ IsFinal(b)
  PROVE  CollectParameter(p, b) = p
  BY DEF CollectParameter, IsC0, IsMarker, IsIntermediate, IsFinal, IsSeparator, IsDigit, ByteSet

LEMMA CollectIntermediateIs ==
  ASSUME NEW p, InRange(p), NEW b \in ByteSet
  PROVE  /\ InRange(CollectIntermediate(p, b)) /\ CollectIntermediate(p, b).out = p.out
         /\ CollectIntermediate(p, b).state = p.state
         /\ SameParameters(p, CollectIntermediate(p, b))
         /\ CollectIntermediate(p, b).payload = p.payload
         /\ CollectIntermediate(p, b).terminator = p.terminator
         /\ SameCharacter(p, CollectIntermediate(p, b))
  <1> DEFINE v == IF p.intermediate = None THEN b ELSE p.intermediate
             q == CollectIntermediate(p, b)
  <1>1. v \in Nat
    BY DEF InRange, ByteSet
  <1>2. q = [p EXCEPT !.intermediate = v]
    BY DEF CollectIntermediate
  <1>3. /\ IsParser(q) /\ q.out = p.out /\ q.state = p.state
        /\ q.parameters = p.parameters /\ q.started = p.started
        /\ q.payload = p.payload /\ q.terminator = p.terminator
        /\ q.marker = p.marker /\ q.intermediate = v
        /\ SameCharacter(p, q)
    <2> HIDE DEF v, q
    <2>1. QED
      BY <1>2 DEF InRange, IsParser, Members, SameCharacter
  <1>4. InRange(q) /\ SameParameters(p, q)
    <2> HIDE DEF v, q
    <2>1. QED
      BY <1>1, <1>3 DEF InRange, Numbered, Decodes, SameParameters, SameCharacter
  <1>5. QED
    BY <1>3, <1>4

(* One step's result: the parser is in range, and follows the byte. *)
WellRead(p, b, q) == InRange(q) /\ Follows(p, b, q)

Reads(p, b) ==
  InRange(p) /\ p.out = <<>> /\ p.terminator = FALSE /\ b \in ByteSet \ {Esc, Can, Sub}

-----------------------------------------------------------------------------
(* The states of control sequences. *)
LEMMA ExecuteGood ==
  ASSUME NEW p, NEW b, Reads(p, b), IsC0(b)
  PROVE  WellRead(p, b, Execute(p, b)) \/ p.state = "OscString"
  <1> DEFINE e == [call |-> "execute", byte |-> b]
             q == Call(p, e)
  <1>1. InRange(q) /\ q.out = <<e>>
    BY CallKeeps, CallIs DEF Reads, InRange, States
  <1>2. Plain(q.out)
    BY <1>1, PlainOne
  <1>3. /\ q.state = p.state /\ SameParameters(p, q) /\ q.payload = p.payload
        /\ q.terminator = FALSE /\ SameCharacter(p, q)
    BY CallIs DEF Reads, InRange
  <1>4. CollectParameter(p, b) = p
    BY C0CollectsNothing DEF Reads
  <1>5. p.state # "OscString" => FollowsText(p, b, q)
    <2> HIDE DEF q
    <2>1. QED
      BY <1>3, <1>4 DEF FollowsText, Params
  <1>6. Execute(p, b) = q
    BY DEF Execute
  <1>7. QED
    <2> HIDE DEF q
    <2>1. QED
      BY <1>1, <1>2, <1>3, <1>5, <1>6, FollowsPlainly DEF WellRead

(* No call, and no character. *)
LEMMA SilentGood ==
  ASSUME NEW p, NEW b, Reads(p, b), NEW q, InRange(q), q.out = <<>>,
         ~(p.state = "Ground" /\ ~IsC0(b)),
         q.terminator = FALSE, SameCharacter(p, q), FollowsText(p, b, q)
  PROVE  WellRead(p, b, q)
  BY PlainNone, FollowsPlainly DEF WellRead

(* A sequence goes on, or is ignored from here on. *)
LEMMA SequenceGoesOn ==
  ASSUME NEW p, NEW b, Reads(p, b), p.state \in Params, NEW s \in Params,
         NEW r, InRange(r), r.out = <<>>, r.terminator = FALSE,
         SameCharacter(p, r), SameParameters(CollectParameter(p, b), r)
  PROVE  WellRead(p, b, Enter(r, s))
  <1> DEFINE q == Enter(r, s)
  <1>1. InRange(q) /\ q.out = <<>> /\ q.terminator = FALSE /\ SameCharacter(p, q)
        /\ q.state = s /\ SameParameters(CollectParameter(p, b), q)
    BY EnterIs, CallKeeps DEF InRange, SameCharacter, SameParameters, Params, States, Strings
  <1>2. FollowsText(p, b, q)
    <2> HIDE DEF q
    <2>1. QED
      BY <1>1 DEF FollowsText, Params
  <1>3. WellRead(p, b, q)
    <2> HIDE DEF q
    <2>1. QED
      BY <1>1, <1>2, SilentGood DEF Params
  <1>4. QED
    BY <1>3

LEMMA SequenceEnds ==
  ASSUME NEW p, NEW b, Reads(p, b), p.state # "Ground",
         NEW s \in States \ (Params \cup {"OscString"})
  PROVE  WellRead(p, b, Enter(p, s))
  <1> DEFINE q == Enter(p, s)
  <1>1. InRange(q)
    BY CallKeeps DEF Reads
  <1>0. q.out = <<>> /\ q.terminator = FALSE /\ SameCharacter(p, q) /\ q.state = s
    BY EnterIs DEF Reads, InRange
  <1>2. FollowsText(p, b, q)
    <2> HIDE DEF q
    <2>1. QED
      BY <1>0 DEF FollowsText
  <1>3. WellRead(p, b, q)
    <2> HIDE DEF q
    <2>1. QED
      BY <1>0, <1>1, <1>2, SilentGood
  <1>4. QED
    BY <1>3

LEMMA SequenceDispatched ==
  ASSUME NEW p, NEW b, Reads(p, b), p.state \in Params,
         NEW call \in {"csi", "hook"}, NEW s \in {"Ground", "DcsPassthrough"}
  PROVE  WellRead(p, b, Enter(Call(p, Sequence(p, call, b)), s))
  <1> DEFINE e == Sequence(p, call, b)
             q == Enter(Call(p, e), s)
  <1>1. InRange(q)
    BY CallKeeps DEF Reads, States
  <1>2. /\ q.out = <<e>> /\ q.terminator = FALSE /\ SameCharacter(p, q) /\ q.state = s
    <2> HIDE DEF e
    <2>1. QED
      BY CallIs, EnterIs DEF Reads, InRange, SameCharacter
  <1>3. FollowsText(p, b, q)
    <2> HIDE DEF q
    <2>1. QED
      BY <1>2 DEF FollowsText, Params
  <1>4. Dispatched(p, b, q.out)
    BY <1>2 DEF Dispatched
  <1>5. WellRead(p, b, q)
    <2> HIDE DEF q, e
    <2>1. p.state # "Ground"
      BY DEF Params
    <2>2. QED
      BY <1>1, <1>2, <1>3, <1>4, <2>1 DEF WellRead, Follows
  <1>6. QED
    BY <1>5

LEMMA KeptGood ==
  ASSUME NEW p, NEW b, Reads(p, b), p.state # "Ground", p.state # "OscString",
         CollectParameter(p, b) = p
  PROVE  WellRead(p, b, p)
  <1>1. FollowsText(p, b, p)
    BY DEF FollowsText, SameParameters
  <1>2. QED
    BY <1>1, SilentGood DEF Reads, SameCharacter

LEMMA CollectsGood ==
  ASSUME NEW p, NEW b, Reads(p, b), p.state \in Params, NEW s \in Params
  PROVE  WellRead(p, b, Enter(CollectParameter(p, b), s))
  <1> DEFINE r == CollectParameter(p, b)
  <1>1. InRange(r) /\ r.out = <<>> /\ r.terminator = FALSE /\ SameCharacter(p, r)
    BY CollectParameterIs DEF Reads
  <1>2. SameParameters(r, r)
    BY DEF SameParameters
  <1>3. QED
    BY <1>1, <1>2, SequenceGoesOn

(* In its state, if nothing is said of another. *)
LEMMA StaysIn ==
  ASSUME NEW p, InRange(p)
  PROVE  Enter(p, p.state) = p
  BY DEF Enter, InRange, IsParser, Members

LEMMA IntermediateGood ==
  ASSUME NEW p, NEW b, Reads(p, b), p.state \in Params, IsIntermediate(b), NEW s \in Params
  PROVE  WellRead(p, b, Enter(CollectIntermediate(p, b), s))
  <1> DEFINE r == CollectIntermediate(p, b)
  <1>1. InRange(r) /\ r.out = <<>> /\ r.terminator = FALSE /\ SameCharacter(p, r)
        /\ SameParameters(p, r)
    BY CollectIntermediateIs DEF Reads
  <1>2. CollectParameter(p, b) = p
    BY C0CollectsNothing DEF Reads
  <1>3. QED
    BY <1>1, <1>2, SequenceGoesOn

LEMMA MarkerGood ==
  ASSUME NEW p, NEW b, Reads(p, b), p.state \in Params, IsMarker(b), NEW s \in Params
  PROVE  WellRead(p, b, Enter([p EXCEPT !.marker = b], s))
  <1> DEFINE r == [p EXCEPT !.marker = b]
  <1>1. b \in Nat
    BY DEF Reads, ByteSet
  <1>2. /\ IsParser(r) /\ r.out = p.out /\ r.state = p.state
        /\ r.parameters = p.parameters /\ r.started = p.started
        /\ r.payload = p.payload /\ r.terminator = p.terminator
        /\ r.marker = b /\ r.intermediate = p.intermediate
        /\ SameCharacter(p, r)
    BY DEF Reads, InRange, IsParser, Members, SameCharacter
  <1>3. InRange(r) /\ SameParameters(p, r)
    <2> HIDE DEF r
    <2>1. QED
      BY <1>1, <1>2 DEF Reads, InRange, Numbered, Decodes, SameParameters, SameCharacter
  <1>4. CollectParameter(p, b) = p
    BY C0CollectsNothing DEF Reads
  <1>5. QED
    BY <1>2, <1>3, <1>4, SequenceGoesOn DEF Reads

LEMMA InCsiEntryGood ==
  ASSUME NEW p, NEW b, Reads(p, b), p.state = "CsiEntry"
  PROVE  WellRead(p, b, InCsiEntry(p, b))
  <1>0. p.state \in Params /\ p.state # "Ground" /\ p.state # "OscString" /\ b \in ByteSet
    BY DEF Params, Reads
  <1> USE DEF IsC0, IsMarker, IsParameter, IsIntermediate, IsFinal, ByteSet
  <1>1. CASE IsC0(b)
    <2>1. InCsiEntry(p, b) = Execute(p, b)
      BY <1>0, <1>1 DEF InCsiEntry
    <2>2. QED
      BY <1>0, <1>1, <2>1, ExecuteGood
  <1>2. CASE IsMarker(b)
    <2>1. InCsiEntry(p, b) = Enter([p EXCEPT !.marker = b], "CsiParam")
      BY <1>0, <1>2 DEF InCsiEntry
    <2>2. QED
      BY <1>0, <1>2, <2>1, MarkerGood DEF Params
  <1>3. CASE IsParameter(b) /\ ~IsMarker(b)
    <2>1. InCsiEntry(p, b) = Enter(CollectParameter(p, b), "CsiParam")
      BY <1>0, <1>3 DEF InCsiEntry
    <2>2. QED
      BY <1>0, <2>1, CollectsGood DEF Params
  <1>4. CASE IsIntermediate(b)
    <2>1. InCsiEntry(p, b) = Enter(CollectIntermediate(p, b), "CsiIntermediate")
      BY <1>0, <1>4 DEF InCsiEntry
    <2>2. QED
      BY <1>0, <1>4, <2>1, IntermediateGood DEF Params
  <1>5. CASE IsFinal(b)
    <2>1. InCsiEntry(p, b) = CsiDispatch(p, b)
      BY <1>0, <1>5 DEF InCsiEntry
    <2>2. QED
      BY <1>0, <2>1, SequenceDispatched DEF CsiDispatch
  <1>6. CASE ~IsC0(b) /\ ~IsParameter(b) /\ ~IsIntermediate(b) /\ ~IsFinal(b)
    <2>1. InCsiEntry(p, b) = Enter(p, "CsiIgnore")
      BY <1>0, <1>6 DEF InCsiEntry
    <2>2. QED
      BY <1>0, <2>1, SequenceEnds DEF Params, States
  <1>7. QED
    BY <1>1, <1>2, <1>3, <1>4, <1>5, <1>6

LEMMA InCsiParamGood ==
  ASSUME NEW p, NEW b, Reads(p, b), p.state = "CsiParam"
  PROVE  WellRead(p, b, InCsiParam(p, b))
  <1>0. p.state \in Params /\ p.state # "Ground" /\ p.state # "OscString" /\ b \in ByteSet
    BY DEF Params, Reads
  <1> USE DEF IsC0, IsMarker, IsParameter, IsIntermediate, IsFinal, ByteSet
  <1>1. CASE IsC0(b)
    <2>1. InCsiParam(p, b) = Execute(p, b)
      BY <1>0, <1>1 DEF InCsiParam
    <2>2. QED
      BY <1>0, <1>1, <2>1, ExecuteGood
  <1>2. CASE IsMarker(b)
    <2>1. InCsiParam(p, b) = Enter(p, "CsiIgnore")
      BY <1>0, <1>2 DEF InCsiParam
    <2>2. QED
      BY <1>0, <2>1, SequenceEnds DEF Params, States
  <1>3. CASE IsParameter(b) /\ ~IsMarker(b)
    <2>1. InCsiParam(p, b) = CollectParameter(p, b)
      BY <1>0, <1>3 DEF InCsiParam
    <2>2. QED
      <3>1. Enter(CollectParameter(p, b), p.state) = CollectParameter(p, b)
        BY CollectParameterIs, StaysIn DEF Reads
      <3>2. QED
        BY <1>0, <1>3, <2>1, <3>1, CollectsGood
  <1>4. CASE IsIntermediate(b)
    <2>1. InCsiParam(p, b) = Enter(CollectIntermediate(p, b), "CsiIntermediate")
      BY <1>0, <1>4 DEF InCsiParam
    <2>2. QED
      BY <1>0, <1>4, <2>1, IntermediateGood DEF Params
  <1>5. CASE IsFinal(b)
    <2>1. InCsiParam(p, b) = CsiDispatch(p, b)
      BY <1>0, <1>5 DEF InCsiParam
    <2>2. QED
      BY <1>0, <2>1, SequenceDispatched DEF CsiDispatch
  <1>6. CASE ~IsC0(b) /\ ~IsParameter(b) /\ ~IsIntermediate(b) /\ ~IsFinal(b)
    <2>1. InCsiParam(p, b) = Enter(p, "CsiIgnore")
      BY <1>0, <1>6 DEF InCsiParam
    <2>2. QED
      BY <1>0, <2>1, SequenceEnds DEF Params, States
  <1>7. QED
    BY <1>1, <1>2, <1>3, <1>4, <1>5, <1>6

LEMMA InCsiIntermediateGood ==
  ASSUME NEW p, NEW b, Reads(p, b), p.state = "CsiIntermediate"
  PROVE  WellRead(p, b, InCsiIntermediate(p, b))
  <1>0. p.state \in Params /\ p.state # "Ground" /\ p.state # "OscString" /\ b \in ByteSet
    BY DEF Params, Reads
  <1> USE DEF IsC0, IsMarker, IsParameter, IsIntermediate, IsFinal, ByteSet
  <1>1. CASE IsC0(b)
    <2>1. InCsiIntermediate(p, b) = Execute(p, b)
      BY <1>0, <1>1 DEF InCsiIntermediate
    <2>2. QED
      BY <1>0, <1>1, <2>1, ExecuteGood
  <1>2. CASE IsIntermediate(b)
    <2>1. InCsiIntermediate(p, b) = CollectIntermediate(p, b)
      BY <1>0, <1>2 DEF InCsiIntermediate
    <2>2. QED
      <3>1. Enter(CollectIntermediate(p, b), p.state) = CollectIntermediate(p, b)
        BY CollectIntermediateIs, StaysIn DEF Reads
      <3>2. QED
        BY <1>0, <1>2, <2>1, <3>1, IntermediateGood
  <1>3. CASE IsParameter(b)
    <2>1. InCsiIntermediate(p, b) = Enter(p, "CsiIgnore")
      BY <1>0, <1>3 DEF InCsiIntermediate
    <2>2. QED
      BY <1>0, <2>1, SequenceEnds DEF Params, States
  <1>4. CASE IsFinal(b)
    <2>1. InCsiIntermediate(p, b) = CsiDispatch(p, b)
      BY <1>0, <1>4 DEF InCsiIntermediate
    <2>2. QED
      BY <1>0, <2>1, SequenceDispatched DEF CsiDispatch
  <1>5. CASE ~IsC0(b) /\ ~IsParameter(b) /\ ~IsIntermediate(b) /\ ~IsFinal(b)
    <2>1. InCsiIntermediate(p, b) = p
      BY <1>0, <1>5 DEF InCsiIntermediate
    <2>2. QED
      <3>1. CollectParameter(p, b) = p
        BY <1>5, CollectParameterKeeps DEF IsSeparator, IsDigit
      <3>2. QED
        BY <1>0, <2>1, <3>1, KeptGood
  <1>6. QED
    BY <1>1, <1>2, <1>3, <1>4, <1>5

(* Sequences that are ignored. *)
LEMMA InCsiIgnoreGood ==
  ASSUME NEW p, NEW b, Reads(p, b), p.state = "CsiIgnore"
  PROVE  WellRead(p, b, InCsiIgnore(p, b))
  <1>0. p.state \notin Params /\ p.state # "Ground" /\ p.state # "OscString" /\ b \in ByteSet
    BY DEF Params, Reads
  <1> USE DEF IsC0, IsFinal, ByteSet
  <1>1. CASE IsC0(b)
    <2>1. InCsiIgnore(p, b) = Execute(p, b)
      BY <1>0, <1>1 DEF InCsiIgnore
    <2>2. QED
      BY <1>0, <1>1, <2>1, ExecuteGood
  <1>2. CASE IsFinal(b)
    <2>1. InCsiIgnore(p, b) = Enter(p, "Ground")
      BY <1>0, <1>2 DEF InCsiIgnore
    <2>2. QED
      BY <1>0, <2>1, SequenceEnds DEF Params, States
  <1>3. CASE ~IsC0(b) /\ ~IsFinal(b)
    <2>1. InCsiIgnore(p, b) = p
      BY <1>0, <1>3 DEF InCsiIgnore
    <2>2. FollowsText(p, b, p)
      BY <1>0 DEF FollowsText
    <2>3. QED
      BY <1>0, <2>1, <2>2, SilentGood DEF Reads, SameCharacter
  <1>4. QED
    BY <1>1, <1>2, <1>3

LEMMA InDcsGood ==
  ASSUME NEW p, NEW b, Reads(p, b), p.state \in {"DcsEntry", "DcsParam", "DcsIntermediate"}
  PROVE  WellRead(p, b, InDcs(p, b))
  <1>0. p.state \in Params /\ p.state # "Ground" /\ p.state # "OscString" /\ b \in ByteSet
    BY DEF Params, Reads
  <1> DEFINE taken == IsMarker(b) /\ p.state = "DcsEntry"
             collected == IsParameter(b) /\ ~IsMarker(b) /\ p.state # "DcsIntermediate"
  <1> USE DEF IsC0, IsMarker, IsParameter, IsIntermediate, IsFinal, ByteSet
  <1>1. CASE taken
    <2>1. InDcs(p, b) = Enter([p EXCEPT !.marker = b], "DcsParam")
      BY <1>0, <1>1 DEF InDcs
    <2>2. QED
      BY <1>0, <1>1, <2>1, MarkerGood DEF Params
  <1>2. CASE collected
    <2>1. InDcs(p, b) = Enter(CollectParameter(p, b), "DcsParam")
      BY <1>0, <1>2 DEF InDcs
    <2>2. QED
      BY <1>0, <2>1, CollectsGood DEF Params
  <1>3. CASE IsIntermediate(b)
    <2>1. InDcs(p, b) = Enter(CollectIntermediate(p, b), "DcsIntermediate")
      BY <1>0, <1>3 DEF InDcs
    <2>2. QED
      BY <1>0, <1>3, <2>1, IntermediateGood DEF Params
  <1>4. CASE IsFinal(b)
    <2>1. InDcs(p, b) = DcsHook(p, b)
      BY <1>0, <1>4 DEF InDcs
    <2>2. QED
      BY <1>0, <2>1, SequenceDispatched DEF DcsHook
  <1>5. CASE ~taken /\ ~collected /\ ~IsIntermediate(b) /\ ~IsFinal(b)
    <2>1. InDcs(p, b) = Enter(p, "DcsIgnore")
      BY <1>0, <1>5 DEF InDcs
    <2>2. QED
      BY <1>0, <2>1, SequenceEnds DEF Params, States
  <1>6. QED
    BY <1>1, <1>2, <1>3, <1>4, <1>5

LEMMA NoSequenceGoesOn ==
  ASSUME NEW p, NEW b, Reads(p, b), p.state # "Ground",
         NEW s \in States \ (Params \cup {"OscString"}),
         NEW r, InRange(r), r.out = <<>>, r.terminator = FALSE, SameCharacter(p, r)
  PROVE  WellRead(p, b, Enter(r, s))
  <1> DEFINE q == Enter(r, s)
  <1>1. InRange(q)
    BY CallKeeps
  <1>2. q.out = <<>> /\ q.terminator = FALSE /\ SameCharacter(p, q) /\ q.state = s
    BY EnterIs DEF InRange, SameCharacter
  <1>3. FollowsText(p, b, q)
    <2> HIDE DEF q
    <2>1. QED
      BY <1>2 DEF FollowsText
  <1>4. WellRead(p, b, q)
    <2> HIDE DEF q
    <2>1. QED
      BY <1>1, <1>2, <1>3, SilentGood
  <1>5. QED
    BY <1>4

LEMMA IgnoredGood ==
  ASSUME NEW p, NEW b, Reads(p, b), p.state \notin Params \cup {"Ground", "OscString"}
  PROVE  WellRead(p, b, p)
  <1>1. FollowsText(p, b, p)
    BY DEF FollowsText
  <1>2. QED
    BY <1>1, SilentGood DEF Reads, SameCharacter

LEMMA ClearSequenceIs ==
  ASSUME NEW p, InRange(p)
  PROVE  LET r == ClearSequence(p)
         IN  /\ InRange(r) /\ r.parameters = <<>> /\ r.started = FALSE
             /\ r.marker = None /\ r.intermediate = None
             /\ r.state = p.state /\ r.out = p.out /\ r.payload = p.payload
             /\ r.terminator = p.terminator /\ SameCharacter(p, r)
  <1> DEFINE r == ClearSequence(p)
  <1>1. /\ IsParser(r) /\ r.parameters = <<>> /\ r.started = FALSE
        /\ r.state = p.state /\ r.out = p.out /\ r.payload = p.payload
        /\ r.terminator = p.terminator /\ SameCharacter(p, r)
        /\ r.marker = None /\ r.intermediate = None
    BY DEF ClearSequence, InRange, IsParser, Members, SameCharacter
  <1>2. Numbered(r)
    <2> HIDE DEF r
    <2>1. r.parameters \in Seq(Int) /\ Len(r.parameters) = 0
      BY <1>1
    <2>2. r.started \in BOOLEAN /\ ~r.started
      BY <1>1
    <2>3. QED
      BY <2>1, <2>2, ParserAssumption DEF Numbered
  <1>3. InRange(r)
    <2> HIDE DEF r
    <2>1. QED
      BY <1>1, <1>2 DEF InRange, Decodes, SameCharacter, None
  <1>4. QED
    BY <1>1, <1>3

LEMMA SequenceBegins ==
  ASSUME NEW p, NEW b, Reads(p, b), p.state = "Escape", NEW s \in {"CsiEntry", "DcsEntry"}
  PROVE  WellRead(p, b, Enter(ClearSequence(p), s))
  <1> DEFINE r == ClearSequence(p)
             q == Enter(r, s)
  <1>1. /\ InRange(r) /\ r.parameters = <<>> /\ r.started = FALSE
        /\ r.out = <<>> /\ r.terminator = FALSE /\ SameCharacter(p, r)
    BY ClearSequenceIs DEF Reads
  <1>2. InRange(q)
    <2> HIDE DEF r
    <2>1. QED
      BY <1>1, CallKeeps DEF States, Strings
  <1>3. /\ q.parameters = <<>> /\ q.started = FALSE /\ q.state = s
        /\ q.out = <<>> /\ q.terminator = FALSE /\ SameCharacter(p, q)
    <2> HIDE DEF r
    <2>1. QED
      BY <1>1, EnterIs DEF InRange, SameParameters, SameCharacter
  <1>4. FollowsText(p, b, q)
    <2> HIDE DEF q
    <2>1. QED
      BY <1>3 DEF FollowsText, Params
  <1>5. WellRead(p, b, q)
    <2> HIDE DEF q
    <2>1. QED
      BY <1>2, <1>3, <1>4, SilentGood
  <1>6. QED
    BY <1>5

LEMMA NoPayloadIs ==
  ASSUME NEW p, InRange(p), NEW text, text \in Seq(ByteSet), Len(text) <= MaxPayload
  PROVE  LET r == [p EXCEPT !.payload = text]
         IN  /\ InRange(r) /\ r.payload = text /\ r.state = p.state /\ r.out = p.out
             /\ r.terminator = p.terminator /\ SameCharacter(p, r) /\ SameParameters(p, r)
  <1> DEFINE r == [p EXCEPT !.payload = text]
  <1>1. /\ IsParser(r) /\ r.payload = text /\ r.state = p.state /\ r.out = p.out
        /\ r.terminator = p.terminator /\ SameCharacter(p, r) /\ SameParameters(p, r)
        /\ r.marker = p.marker /\ r.intermediate = p.intermediate
    BY DEF InRange, IsParser, Members, SameCharacter, SameParameters
  <1>2. InRange(r)
    <2> HIDE DEF r
    <2>1. QED
      BY <1>1 DEF InRange, Numbered, Decodes, SameCharacter, SameParameters
  <1>3. QED
    BY <1>1, <1>2

LEMMA OscBegins ==
  ASSUME NEW p, NEW b, Reads(p, b), p.state = "Escape"
  PROVE  WellRead(p, b, Enter([p EXCEPT !.payload = <<>>], "OscString"))
  <1> DEFINE r == [p EXCEPT !.payload = <<>>]
             q == Enter(r, "OscString")
  <1>0. <<>> \in Seq(ByteSet) /\ Len(<<>>) <= MaxPayload
    BY ParserAssumption
  <1>1. /\ InRange(r) /\ r.payload = <<>> /\ r.out = <<>> /\ r.terminator = FALSE
        /\ SameCharacter(p, r)
    BY <1>0, NoPayloadIs DEF Reads
  <1>2. InRange(q)
    <2> HIDE DEF r
    <2>1. QED
      BY <1>1, CallKeeps DEF States, Strings
  <1>3. /\ q.payload = <<>> /\ q.state = "OscString"
        /\ q.out = <<>> /\ q.terminator = FALSE /\ SameCharacter(p, q)
    <2> HIDE DEF r
    <2>1. QED
      BY <1>1, EnterIs DEF InRange, SameCharacter
  <1>4. FollowsText(p, b, q)
    <2> HIDE DEF q
    <2>1. QED
      BY <1>3 DEF FollowsText, Params
  <1>5. WellRead(p, b, q)
    <2> HIDE DEF q
    <2>1. QED
      BY <1>2, <1>3, <1>4, SilentGood
  <1>6. QED
    BY <1>5

(* A call that is neither a sequence nor an OSC, and the ground state or the same one. *)
LEMMA CallGood ==
  ASSUME NEW p, NEW b, Reads(p, b), p.state # "Ground",
         NEW e, e.call \notin {"csi", "hook", "osc"},
         NEW s \in States \ (Params \cup {"OscString"})
  PROVE  WellRead(p, b, Enter(Call(p, e), s))
  <1> DEFINE q == Enter(Call(p, e), s)
  <1>1. InRange(q)
    BY CallKeeps DEF Reads
  <1>2. q.out = <<e>> /\ q.terminator = FALSE /\ SameCharacter(p, q) /\ q.state = s
    BY CallIs, EnterIs DEF Reads, InRange, SameCharacter
  <1>3. FollowsText(p, b, q)
    <2> HIDE DEF q
    <2>1. QED
      BY <1>2 DEF FollowsText
  <1>4. Plain(q.out)
    BY <1>2, PlainOne
  <1>5. WellRead(p, b, q)
    <2> HIDE DEF q
    <2>1. QED
      BY <1>1, <1>2, <1>3, <1>4, FollowsPlainly DEF WellRead
  <1>6. QED
    BY <1>5

LEMMA FreshIs ==
  ASSUME NEW out
  PROVE  LET q == [Fresh EXCEPT !.out = out]
         IN  /\ InRange(q) /\ q.state = "Ground" /\ q.remaining = 0
             /\ q.terminator = FALSE /\ q.out = out
  <1> DEFINE q == [Fresh EXCEPT !.out = out]
  <1>0. IsParser(Fresh)
    BY DEF Fresh, IsParser, Members
  <1>1. /\ IsParser(q) /\ q.state = "Ground" /\ q.parameters = <<>> /\ q.started = FALSE
        /\ q.marker = None /\ q.intermediate = None /\ q.payload = <<>> /\ q.terminator = FALSE
        /\ q.remaining = 0 /\ q.codePoint = 0 /\ q.minimum = 0 /\ q.out = out
    <2>1. IsParser(q)
      BY <1>0 DEF IsParser
    <2>2. QED
      BY <2>1 DEF Fresh
  <1>2. InRange(q)
    <2> HIDE DEF q
    <2>1. q.parameters \in Seq(Int) /\ Len(q.parameters) = 0
      BY <1>1
    <2>2. q.started \in BOOLEAN /\ ~q.started /\ q.terminator \in BOOLEAN
      BY <1>1
    <2>3. Numbered(q)
      BY <2>1, <2>2, ParserAssumption DEF Numbered
    <2>4. q.payload \in Seq(ByteSet) /\ Len(q.payload) <= MaxPayload
      BY <1>1, ParserAssumption
    <2>5. QED
      BY <1>1, <2>2, <2>3, <2>4 DEF InRange, Decodes, None, States
  <1>3. QED
    BY <1>1, <1>2

LEMMA EscDispatchGood ==
  ASSUME NEW p, NEW b, Reads(p, b), p.state \in {"Escape", "EscapeIntermediate"}, NEW i
  PROVE  WellRead(p, b, EscDispatch(p, i, b))
  <1> DEFINE e == [call |-> "esc", intermediate |-> i, final |-> b]
  <1>1. CASE b = 99 /\ i \notin {40, 41}
    <2> DEFINE out == Call(p, e).out
               q == [Fresh EXCEPT !.out = out]
    <2>1. out = <<e>>
      BY CallIs DEF Reads, InRange
    <2>2. Plain(out)
      BY <2>1, PlainOne
    <2>3. /\ InRange(q) /\ q.state = "Ground" /\ q.remaining = 0
          /\ q.terminator = FALSE /\ q.out = out
      <3> HIDE DEF out
      <3>1. QED
        BY FreshIs
    <2>4. FollowsText(p, b, q)
      <3> HIDE DEF q
      <3>1. QED
        BY <2>3 DEF FollowsText, Params
    <2>5. WellRead(p, b, q)
      <3> HIDE DEF q, out
      <3>1. QED
        BY <2>2, <2>3, <2>4 DEF WellRead, Follows, Dispatched
    <2>6. EscDispatch(p, i, b) = q
      BY <1>1 DEF EscDispatch
    <2>7. QED
      <3> HIDE DEF q
      <3>1. QED
        BY <2>5, <2>6
  <1>2. CASE ~(b = 99 /\ i \notin {40, 41})
    <2>1. EscDispatch(p, i, b) = Enter(Call(p, e), "Ground")
      BY <1>2 DEF EscDispatch
    <2>2. e.call = "esc"
      OBVIOUS
    <2>3. QED
      <3> HIDE DEF e
      <3>1. QED
        BY <2>1, <2>2, CallGood DEF States, Params
  <1>3. QED
    BY <1>1, <1>2

LEMMA InEscapeGood ==
  ASSUME NEW p, NEW b, Reads(p, b), p.state = "Escape"
  PROVE  WellRead(p, b, InEscape(p, b))
  <1>0. /\ p.state \notin Params \cup {"Ground", "OscString"}
        /\ InRange(p) /\ p.out = <<>> /\ p.terminator = FALSE
    BY DEF Params, Reads
  <1>b. b \in 0..255
    BY DEF Reads, ByteSet
  <1>1. CASE IsC0(b)
    <2>0. ~IsIntermediate(b) /\ b \notin {91, 93, 80, 88, 94, 95} /\ ~IsEscapeFinal(b)
      BY <1>b, <1>1 DEF IsC0, IsIntermediate, IsEscapeFinal
    <2>1. InEscape(p, b) = Execute(p, b)
      BY <1>1, <2>0 DEF InEscape
    <2>2. QED
      BY <1>0, <1>1, <2>1, ExecuteGood
  <1>2. CASE IsIntermediate(b)
    <2>0. ~IsC0(b) /\ b \notin {91, 93, 80, 88, 94, 95} /\ ~IsEscapeFinal(b)
      BY <1>b, <1>2 DEF IsC0, IsIntermediate, IsEscapeFinal
    <2>1. InEscape(p, b) = Enter(CollectIntermediate(p, b), "EscapeIntermediate")
      BY <1>2, <2>0 DEF InEscape
    <2>2. QED
      <3> DEFINE r == CollectIntermediate(p, b)
      <3>1. InRange(r) /\ r.out = <<>> /\ r.terminator = FALSE /\ SameCharacter(p, r)
        BY <1>0, <1>b, CollectIntermediateIs DEF ByteSet
      <3>2. "EscapeIntermediate" \in States \ (Params \cup {"OscString"})
        BY DEF Params, States, Strings
      <3>3. WellRead(p, b, Enter(r, "EscapeIntermediate"))
        <4> HIDE DEF r
        <4>1. QED
          BY <1>0, <3>1, <3>2, NoSequenceGoesOn
      <3>4. QED
        BY <2>1, <3>3
  <1>3. CASE b = 91
    <2>0. ~IsC0(b) /\ ~IsIntermediate(b)
      BY <1>b, <1>3 DEF IsC0, IsIntermediate, IsEscapeFinal
    <2>1. InEscape(p, b) = Enter(ClearSequence(p), "CsiEntry")
      BY <1>3, <2>0 DEF InEscape
    <2>2. QED
      BY <2>1, SequenceBegins
  <1>4. CASE b = 80
    <2>0. ~IsC0(b) /\ ~IsIntermediate(b)
      BY <1>b, <1>4 DEF IsC0, IsIntermediate, IsEscapeFinal
    <2>1. InEscape(p, b) = Enter(ClearSequence(p), "DcsEntry")
      BY <1>4, <2>0 DEF InEscape
    <2>2. QED
      BY <2>1, SequenceBegins
  <1>5. CASE b = 93
    <2>0. ~IsC0(b) /\ ~IsIntermediate(b)
      BY <1>b, <1>5 DEF IsC0, IsIntermediate, IsEscapeFinal
    <2>1. InEscape(p, b) = Enter([p EXCEPT !.payload = <<>>], "OscString")
      BY <1>5, <2>0 DEF InEscape
    <2>2. QED
      BY <2>1, OscBegins
  <1>6. CASE b \in {88, 94, 95}
    <2>0. ~IsC0(b) /\ ~IsIntermediate(b)
      BY <1>b, <1>6 DEF IsC0, IsIntermediate, IsEscapeFinal
    <2>1. InEscape(p, b) = Enter(p, "SosPmApcString")
      BY <1>6, <2>0 DEF InEscape
    <2>2. QED
      BY <1>0, <2>1, SequenceEnds DEF Params, States
  <1>7. CASE IsEscapeFinal(b) /\ b \notin {80, 88, 91, 93, 94, 95}
    <2>0. ~IsC0(b) /\ ~IsIntermediate(b)
      BY <1>b, <1>7 DEF IsC0, IsIntermediate, IsEscapeFinal
    <2>1. InEscape(p, b) = EscDispatch(p, None, b)
      BY <1>7, <2>0 DEF InEscape
    <2>2. QED
      BY <2>1, EscDispatchGood
  <1>8. CASE b > 126
    <2>0. ~IsC0(b) /\ ~IsIntermediate(b) /\ b \notin {91, 93, 80, 88, 94, 95} /\ ~IsEscapeFinal(b)
      BY <1>b, <1>8 DEF IsC0, IsIntermediate, IsEscapeFinal
    <2>1. InEscape(p, b) = p
      BY <1>8, <2>0 DEF InEscape
    <2>2. QED
      BY <1>0, <2>1, IgnoredGood
  <1>9. b \notin {Esc, Can, Sub}
    BY DEF Reads
  <1>10. QED
    BY <1>b, <1>1, <1>2, <1>3, <1>4, <1>5, <1>6, <1>7, <1>8, <1>9
       DEF Esc, Can, Sub, IsC0, IsIntermediate, IsEscapeFinal

LEMMA InEscapeIntermediateGood ==
  ASSUME NEW p, NEW b, Reads(p, b), p.state = "EscapeIntermediate"
  PROVE  WellRead(p, b, InEscapeIntermediate(p, b))
  <1>0. /\ p.state \notin Params \cup {"Ground", "OscString"}
        /\ InRange(p) /\ p.out = <<>> /\ p.terminator = FALSE
    BY DEF Params, Reads
  <1>b. b \in 0..255
    BY DEF Reads, ByteSet
  <1> USE DEF IsC0, IsIntermediate, IsEscapeFinal
  <1>1. CASE IsC0(b)
    <2>1. InEscapeIntermediate(p, b) = Execute(p, b)
      BY <1>b, <1>1 DEF InEscapeIntermediate
    <2>2. QED
      BY <1>0, <1>1, <2>1, ExecuteGood
  <1>2. CASE IsIntermediate(b)
    <2>1. InEscapeIntermediate(p, b) = CollectIntermediate(p, b)
      BY <1>b, <1>2 DEF InEscapeIntermediate
    <2> DEFINE r == CollectIntermediate(p, b)
    <2>2. InRange(r) /\ r.out = <<>> /\ r.terminator = FALSE /\ SameCharacter(p, r)
          /\ r.state = p.state
      BY <1>0, <1>b, CollectIntermediateIs DEF ByteSet
    <2>3. p.state \in States \ (Params \cup {"OscString"})
      BY DEF Params, States, Strings
    <2>4. WellRead(p, b, Enter(r, p.state)) /\ Enter(r, p.state) = r
      <3> HIDE DEF r
      <3>1. QED
        BY <1>0, <2>2, <2>3, NoSequenceGoesOn, StaysIn
    <2>5. QED
      BY <2>1, <2>4
  <1>3. CASE IsEscapeFinal(b)
    <2>1. InEscapeIntermediate(p, b) = EscDispatch(p, p.intermediate, b)
      BY <1>b, <1>3 DEF InEscapeIntermediate
    <2>2. QED
      BY <2>1, EscDispatchGood
  <1>4. CASE ~IsC0(b) /\ ~IsIntermediate(b) /\ ~IsEscapeFinal(b)
    <2>1. InEscapeIntermediate(p, b) = p
      BY <1>b, <1>4 DEF InEscapeIntermediate
    <2>2. QED
      BY <1>0, <2>1, IgnoredGood
  <1>5. QED
    BY <1>1, <1>2, <1>3, <1>4

LEMMA InDcsPassthroughGood ==
  ASSUME NEW p, NEW b, Reads(p, b), p.state = "DcsPassthrough"
  PROVE  WellRead(p, b, InDcsPassthrough(p, b))
  <1>0. /\ p.state \notin Params \cup {"Ground", "OscString"} /\ b \in ByteSet
        /\ InRange(p) /\ p.out = <<>> /\ p.terminator = FALSE
    BY DEF Params, Reads
  <1>1. CASE b = St
    <2> DEFINE e == [call |-> "unhook"]
    <2>1. InDcsPassthrough(p, b) = Enter(Call(p, e), "Ground")
      BY <1>1 DEF InDcsPassthrough, Unhook
    <2>2. e.call = "unhook"
      OBVIOUS
    <2>3. QED
      <3> HIDE DEF e
      <3>1. QED
        BY <1>0, <2>1, <2>2, CallGood DEF States, Params
  <1>2. CASE b # St /\ b # 127
    <2> DEFINE e == [call |-> "put", byte |-> b]
    <2>1. InDcsPassthrough(p, b) = Call(p, e)
      BY <1>2 DEF InDcsPassthrough
    <2>2. e.call = "put"
      OBVIOUS
    <2>3. Enter(Call(p, e), p.state) = Call(p, e)
      <3> HIDE DEF e
      <3>1. InRange(Call(p, e)) /\ Call(p, e).state = p.state
        BY <1>0, CallKeeps, CallIs DEF InRange
      <3>2. QED
        BY <3>1, StaysIn
    <2>4. QED
      <3> HIDE DEF e
      <3>1. QED
        BY <1>0, <2>1, <2>2, <2>3, CallGood DEF States, Params
  <1>3. CASE b = 127
    <2>1. InDcsPassthrough(p, b) = p
      BY <1>3 DEF InDcsPassthrough, St
    <2>2. QED
      BY <1>0, <2>1, IgnoredGood
  <1>4. QED
    BY <1>1, <1>2, <1>3

LEMMA InIgnoredStringGood ==
  ASSUME NEW p, NEW b, Reads(p, b), p.state \in {"DcsIgnore", "SosPmApcString"}
  PROVE  WellRead(p, b, InIgnoredString(p, b))
  <1>0. p.state \notin Params \cup {"Ground", "OscString"}
    BY DEF Params
  <1>1. CASE b = St
    <2>1. InIgnoredString(p, b) = Enter(p, "Ground")
      BY <1>1 DEF InIgnoredString
    <2>2. QED
      BY <1>0, <2>1, SequenceEnds DEF Params, States
  <1>2. CASE b # St
    <2>1. InIgnoredString(p, b) = p
      BY <1>2 DEF InIgnoredString
    <2>2. QED
      BY <1>0, <2>1, IgnoredGood
  <1>3. QED
    BY <1>1, <1>2

LEMMA OscDispatchIs ==
  ASSUME NEW p, InRange(p), p.out = <<>>
  PROVE  LET q == OscDispatch(p)
         IN  /\ InRange(q) /\ q.state = "Ground" /\ q.payload = <<>>
             /\ q.terminator = p.terminator /\ SameCharacter(p, q)
             /\ q.out = <<[call |-> "osc", payload |-> p.payload]>>
  <1> DEFINE e == [call |-> "osc", payload |-> p.payload]
             r == Enter(Call(p, e), "Ground")
             q == [r EXCEPT !.payload = <<>>]
  <1>1. InRange(r)
    BY CallKeeps DEF States
  <1>2. /\ r.state = "Ground" /\ r.out = <<e>> /\ r.terminator = p.terminator
        /\ SameCharacter(p, r)
    <2> HIDE DEF e
    <2>1. QED
      BY CallIs, EnterIs DEF InRange, SameCharacter
  <1>3. <<>> \in Seq(ByteSet) /\ Len(<<>>) <= MaxPayload
    BY ParserAssumption
  <1>4. /\ InRange(q) /\ q.payload = <<>> /\ q.state = r.state /\ q.out = r.out
        /\ q.terminator = r.terminator /\ SameCharacter(r, q)
    <2> HIDE DEF r
    <2>1. QED
      BY <1>1, <1>3, NoPayloadIs
  <1>5. OscDispatch(p) = q
    BY DEF OscDispatch
  <1>6. QED
    <2> HIDE DEF q, r
    <2>1. QED
      BY <1>2, <1>4, <1>5 DEF SameCharacter

LEMMA InOscStringGood ==
  ASSUME NEW p, NEW b, Reads(p, b), p.state = "OscString"
  PROVE  WellRead(p, b, InOscString(p, b))
  <1>0. /\ b \in ByteSet /\ InRange(p) /\ p.out = <<>> /\ p.terminator = FALSE
        /\ p.payload \in Seq(ByteSet) /\ Len(p.payload) <= MaxPayload
    BY DEF Reads, InRange
  <1> DEFINE collected == (b >= 32 \/ b = 9) /\ Len(p.payload) < MaxPayload
  <1>1. CASE b \in {Bel, St}
    <2> DEFINE q == OscDispatch(p)
    <2>1. /\ InRange(q) /\ q.state = "Ground" /\ q.terminator = FALSE /\ SameCharacter(p, q)
          /\ q.out = <<[call |-> "osc", payload |-> p.payload]>>
      BY <1>0, OscDispatchIs
    <2>2. FollowsText(p, b, q)
      <3> HIDE DEF q
      <3>1. QED
        BY <2>1 DEF FollowsText, Params
    <2>3. Dispatched(p, b, q.out)
      <3> HIDE DEF q
      <3>1. QED
        BY <2>1 DEF Dispatched
    <2>4. WellRead(p, b, q)
      <3> HIDE DEF q
      <3>1. QED
        BY <2>1, <2>2, <2>3 DEF WellRead, Follows
    <2>5. InOscString(p, b) = q
      BY <1>1 DEF InOscString
    <2>6. QED
      BY <2>4, <2>5
  <1>2. CASE b \notin {Bel, St} /\ collected
    <2> DEFINE text == Append(p.payload, b)
               q == [p EXCEPT !.payload = text]
    <2>1. text \in Seq(ByteSet) /\ Len(text) <= MaxPayload
      BY <1>0, <1>2, ParserAssumption
    <2>2. /\ InRange(q) /\ q.payload = text /\ q.state = p.state /\ q.out = p.out
          /\ q.terminator = p.terminator /\ SameCharacter(p, q)
      <3> HIDE DEF text
      <3>1. QED
        BY <1>0, <2>1, NoPayloadIs
    <2>3. FollowsText(p, b, q)
      <3> HIDE DEF q
      <3>1. QED
        BY <1>2, <2>2 DEF FollowsText, Params
    <2>4. WellRead(p, b, q)
      <3> HIDE DEF q
      <3>1. QED
        BY <1>0, <2>2, <2>3, SilentGood
    <2>5. InOscString(p, b) = q
      BY <1>2 DEF InOscString
    <2>6. QED
      BY <2>4, <2>5
  <1>3. CASE b \notin {Bel, St} /\ ~collected
    <2>1. FollowsText(p, b, p)
      BY <1>3 DEF FollowsText, Params
    <2>2. InOscString(p, b) = p
      BY <1>3 DEF InOscString
    <2>3. QED
      BY <1>0, <2>1, <2>2, SilentGood DEF SameCharacter
  <1>4. QED
    BY <1>1, <1>2, <1>3

(* Characters. *)
Shows(c) == [call |-> "print", codePoint |-> c]

MinimumFor(n) == CASE n = 2 -> 128 [] n = 3 -> 2048 [] OTHER -> 65536

(* A character that begins, or is one byte. *)
Begins(p, b, q) ==
  IF LengthFor(b) \in {0, 1}
  THEN SameCharacter(p, q)
       /\ q.out = Append(p.out, Shows(IF LengthFor(b) = 1 THEN b ELSE Replacement))
  ELSE /\ q.remaining = LengthFor(b) - 1 /\ q.codePoint = FirstBits(b)
       /\ q.minimum = MinimumFor(LengthFor(b)) /\ q.out = p.out

LEMMA PrintedIs ==
  ASSUME NEW p, InRange(p), NEW c
  PROVE  LET q == Printed(p, c)
         IN  /\ InRange(q) /\ q.state = p.state /\ q.terminator = p.terminator
             /\ SameCharacter(p, q) /\ q.out = Append(p.out, Shows(c))
  <1> DEFINE q == Printed(p, c)
             out == Append(p.out, Shows(c))
  <1>1. q = [p EXCEPT !.out = out]
    BY DEF Printed, Call, Shows
  <1>2. /\ IsParser(q) /\ q.out = out /\ q.state = p.state
        /\ q.parameters = p.parameters /\ q.started = p.started
        /\ q.payload = p.payload /\ q.terminator = p.terminator
        /\ q.marker = p.marker /\ q.intermediate = p.intermediate
        /\ SameCharacter(p, q)
    <2> HIDE DEF q, out
    <2>1. QED
      BY <1>1 DEF InRange, IsParser, Members, SameCharacter
  <1>3. InRange(q)
    <2> HIDE DEF q
    <2>1. QED
      BY <1>2 DEF InRange, Numbered, Decodes, SameCharacter
  <1>4. QED
    BY <1>2, <1>3

LEMMA ExpectingIs ==
  ASSUME NEW p, InRange(p), NEW n, n \in 0..3, NEW c, c \in Nat, NEW m, m \in Nat
  PROVE  LET q == Expecting(p, n, c, m)
         IN  /\ InRange(q) /\ q.state = p.state /\ q.terminator = p.terminator
             /\ q.out = p.out /\ q.remaining = n /\ q.codePoint = c /\ q.minimum = m
  <1> DEFINE q == Expecting(p, n, c, m)
  <1>1. /\ IsParser(q) /\ q.out = p.out /\ q.state = p.state
        /\ q.parameters = p.parameters /\ q.started = p.started
        /\ q.payload = p.payload /\ q.terminator = p.terminator
        /\ q.marker = p.marker /\ q.intermediate = p.intermediate
        /\ q.remaining = n /\ q.codePoint = c /\ q.minimum = m
    BY DEF InRange, IsParser, Members, Expecting
  <1>2. InRange(q)
    <2> HIDE DEF q
    <2>1. QED
      BY <1>1 DEF InRange, Numbered, Decodes
  <1>3. QED
    BY <1>1, <1>2

LEMMA DecodeFirstIs ==
  ASSUME NEW p, InRange(p), NEW b \in ByteSet
  PROVE  LET q == DecodeFirst(p, b)
         IN  /\ InRange(q) /\ q.state = p.state /\ q.terminator = p.terminator
             /\ Begins(p, b, q)
  <1>0. b \in 0..255
    BY DEF ByteSet
  <1> DEFINE q == DecodeFirst(p, b)
  <1> SUFFICES /\ InRange(q) /\ q.state = p.state /\ q.terminator = p.terminator
               /\ Begins(p, b, q)
    OBVIOUS
  <1>1. CASE b < 128
    <2>1. q = Printed(p, b) /\ LengthFor(b) = 1
      BY <1>0, <1>1 DEF DecodeFirst, LengthFor
    <2>2. QED
      <3> HIDE DEF q
      <3>1. QED
        BY <2>1, PrintedIs DEF Begins
  <1>2. CASE b \in 128..191 \/ b \in 248..255
    <2>1. q = Printed(p, Replacement) /\ LengthFor(b) = 0
      BY <1>0, <1>2 DEF DecodeFirst, LengthFor
    <2>2. QED
      <3> HIDE DEF q
      <3>1. QED
        BY <2>1, PrintedIs DEF Begins
  <1>3. CASE b \in 192..247
    <2> DEFINE n == LengthFor(b)
               k == n - 1
               c == FirstBits(b)
               m == MinimumFor(n)
    <2>1. n \in 2..4 /\ c \in Nat /\ m \in Nat /\ k \in 0..3
      BY <1>3 DEF LengthFor, FirstBits, MinimumFor
    <2>2. q = Expecting(p, k, c, m)
      <3>1. CASE b \in 192..223
        <4>1. k = 1 /\ c = b % 32 /\ m = 128
          BY <3>1 DEF LengthFor, FirstBits, MinimumFor
        <4>2. q = Expecting(p, 1, b % 32, 128)
          BY <3>1 DEF DecodeFirst
        <4>3. QED
          <5> HIDE DEF q, k, c, m
          <5>1. QED
            BY <4>1, <4>2
      <3>2. CASE b \in 224..239
        <4>1. k = 2 /\ c = b % 16 /\ m = 2048
          BY <3>2 DEF LengthFor, FirstBits, MinimumFor
        <4>2. q = Expecting(p, 2, b % 16, 2048)
          BY <3>2 DEF DecodeFirst
        <4>3. QED
          <5> HIDE DEF q, k, c, m
          <5>1. QED
            BY <4>1, <4>2
      <3>3. CASE b \in 240..247
        <4>1. k = 3 /\ c = b % 8 /\ m = 65536
          BY <3>3 DEF LengthFor, FirstBits, MinimumFor
        <4>2. q = Expecting(p, 3, b % 8, 65536)
          BY <3>3 DEF DecodeFirst
        <4>3. QED
          <5> HIDE DEF q, k, c, m
          <5>1. QED
            BY <4>1, <4>2
      <3>4. QED
        BY <1>3, <3>1, <3>2, <3>3
    <2>3. QED
      <3> HIDE DEF q
      <3>1. /\ InRange(q) /\ q.state = p.state /\ q.terminator = p.terminator /\ q.out = p.out
            /\ q.remaining = k /\ q.codePoint = c /\ q.minimum = m
        <4> HIDE DEF k, c, m
        <4>1. QED
          BY <2>1, <2>2, ExpectingIs
      <3>2. LengthFor(b) \notin {0, 1}
        BY <2>1
      <3>3. QED
        BY <3>1, <3>2 DEF Begins
  <1>4. QED
    BY <1>0, <1>1, <1>2, <1>3

LEMMA IdleIs ==
  ASSUME NEW p, InRange(p)
  PROVE  LET q == Idle(p)
         IN  /\ InRange(q) /\ q.state = p.state /\ q.terminator = p.terminator
             /\ q.out = p.out /\ q.remaining = 0
  <1>1. Idle(p) = Expecting(p, 0, 0, 0)
    BY DEF Idle, Expecting
  <1>2. QED
    BY <1>1, ExpectingIs

(* A byte that goes on with a character. *)
Prolongs(p, b, q) ==
  LET c == NextBits(p.codePoint, b)
  IN  IF p.remaining > 1
      THEN /\ q.remaining = p.remaining - 1 /\ q.codePoint = c
           /\ q.minimum = p.minimum /\ q.out = p.out
      ELSE /\ q.remaining = 0
           /\ q.out = Append(p.out, Shows(IF Acceptable(c, p.minimum) THEN c ELSE Replacement))

LEMMA DecodeNextIs ==
  ASSUME NEW p, InRange(p), p.remaining # 0, NEW b, b \in ByteSet
  PROVE  LET q == DecodeNext(p, b)
         IN  /\ InRange(q) /\ q.state = p.state /\ q.terminator = p.terminator
             /\ Prolongs(p, b, q)
  <1>0. /\ b \in 0..255 /\ p.remaining \in 1..3 /\ p.codePoint \in Nat /\ p.minimum \in Nat
        /\ IsParser(p)
    BY DEF ByteSet, InRange, Decodes
  <1> DEFINE q == DecodeNext(p, b)
             c == NextBits(p.codePoint, b)
             r == p.remaining - 1
  <1> SUFFICES /\ InRange(q) /\ q.state = p.state /\ q.terminator = p.terminator
               /\ Prolongs(p, b, q)
    OBVIOUS
  <1>1. c \in Nat /\ r \in 0..3
    BY <1>0 DEF NextBits
  <1>2. CASE p.remaining > 1
    <2>1. r > 0
      BY <1>0, <1>2
    <2>2. q = [p EXCEPT !.remaining = r, !.codePoint = c]
      BY <2>1 DEF DecodeNext, NextBits
    <2>3. q = Expecting(p, r, c, p.minimum)
      <3> HIDE DEF q, r, c
      <3>1. [p EXCEPT !.remaining = r, !.codePoint = c]
              = [p EXCEPT !.remaining = r, !.codePoint = c, !.minimum = p.minimum]
        BY <1>0 DEF IsParser, Members
      <3>2. QED
        BY <2>2, <3>1 DEF Expecting
    <2>4. /\ InRange(q) /\ q.state = p.state /\ q.terminator = p.terminator
          /\ q.out = p.out /\ q.remaining = r /\ q.codePoint = c /\ q.minimum = p.minimum
      <3> HIDE DEF q, r, c
      <3>1. QED
        BY <1>0, <1>1, <2>3, ExpectingIs
    <2>5. QED
      <3> HIDE DEF q
      <3>1. QED
        BY <1>2, <2>4 DEF Prolongs
  <1>3. CASE ~(p.remaining > 1)
    <2> DEFINE shown == IF Acceptable(c, p.minimum) THEN c ELSE Replacement
    <2>1. ~(r > 0)
      BY <1>0, <1>3
    <2>2. q = Printed(Idle(p), shown)
      BY <2>1 DEF DecodeNext, NextBits
    <2>3. /\ InRange(Idle(p)) /\ Idle(p).state = p.state /\ Idle(p).terminator = p.terminator
          /\ Idle(p).out = p.out /\ Idle(p).remaining = 0
      BY IdleIs
    <2>4. /\ InRange(q) /\ q.state = p.state /\ q.terminator = p.terminator
          /\ q.out = Append(p.out, Shows(shown)) /\ q.remaining = 0
      <3> HIDE DEF q, shown
      <3>1. QED
        BY <2>2, <2>3, PrintedIs DEF SameCharacter
    <2>5. QED
      <3> HIDE DEF q
      <3>1. QED
        BY <1>3, <2>4 DEF Prolongs
  <1>4. QED
    BY <1>2, <1>3

(* What is shown for a byte, and what is left to be waited for. *)
Decoded(p, b, q) ==
  CASE p.remaining = 0                           -> Begins(p, b, q)
    [] p.remaining # 0 /\ IsContinuation(b)      -> Prolongs(p, b, q)
    [] p.remaining # 0 /\ ~IsContinuation(b)     ->
         \E r : /\ r.remaining = 0 /\ r.out = Append(p.out, Shows(Replacement))
                /\ Begins(r, b, q)

LEMMA DecodeUtf8Is ==
  ASSUME NEW p, InRange(p), NEW b, b \in ByteSet
  PROVE  LET q == DecodeUtf8(p, b)
         IN  /\ InRange(q) /\ q.state = p.state /\ q.terminator = p.terminator
             /\ Decoded(p, b, q)
  <1> DEFINE q == DecodeUtf8(p, b)
  <1> SUFFICES /\ InRange(q) /\ q.state = p.state /\ q.terminator = p.terminator
               /\ Decoded(p, b, q)
    OBVIOUS
  <1>1. CASE p.remaining = 0
    <2>1. q = DecodeFirst(p, b)
      BY <1>1 DEF DecodeUtf8
    <2>2. QED
      <3> HIDE DEF q
      <3>1. QED
        BY <1>1, <2>1, DecodeFirstIs DEF Decoded
  <1>2. CASE p.remaining # 0 /\ IsContinuation(b)
    <2>1. q = DecodeNext(p, b)
      BY <1>2 DEF DecodeUtf8
    <2>2. QED
      <3> HIDE DEF q
      <3>1. QED
        BY <1>2, <2>1, DecodeNextIs DEF Decoded
  <1>3. CASE p.remaining # 0 /\ ~IsContinuation(b)
    <2> DEFINE r == Printed(Idle(p), Replacement)
    <2>1. q = DecodeFirst(r, b)
      BY <1>3 DEF DecodeUtf8
    <2>2. /\ InRange(r) /\ r.state = p.state /\ r.terminator = p.terminator
          /\ r.out = Append(p.out, Shows(Replacement)) /\ r.remaining = 0
      BY IdleIs, PrintedIs DEF SameCharacter
    <2>3. QED
      <3> HIDE DEF q, r
      <3>1. /\ InRange(q) /\ q.state = r.state /\ q.terminator = r.terminator
            /\ Begins(r, b, q)
        BY <2>1, <2>2, DecodeFirstIs
      <3>2. QED
        BY <1>3, <2>2, <3>1 DEF Decoded
  <1>4. QED
    BY <1>1, <1>2, <1>3

LEMMA PrintIsPlain ==
  ASSUME NEW c
  PROVE  Shows(c).call \notin {"csi", "hook", "osc"}
  BY DEF Shows

LEMMA Appended ==
  ASSUME NEW e, NEW f
  PROVE  Append(<<>>, e) = <<e>> /\ Append(<<e>>, f) = <<e, f>>
  <1>1. Append(<<>>, e) = <<e>>
    OBVIOUS
  <1> DEFINE S == {e, f}
             s == Append(<<e>>, f)
             t == <<e, f>>
  <1>2. <<e>> \in Seq(S) /\ t \in Seq(S)
    OBVIOUS
  <1>3. s \in Seq(S) /\ Len(s) = 2 /\ s[1] = e /\ s[2] = f
    BY <1>2
  <1>4. Len(t) = 2 /\ t[1] = e /\ t[2] = f
    OBVIOUS
  <1>5. s = t
    <2> HIDE DEF s, t, S
    <2>1. QED
      BY <1>2, <1>3, <1>4
  <1>6. QED
    BY <1>1, <1>5

LEMMA BegunPlainly ==
  ASSUME NEW r, NEW e, r.out = <<>> \/ r.out = <<e>>, e.call \notin {"csi", "hook", "osc"},
         NEW b, NEW q, Begins(r, b, q)
  PROVE  Plain(q.out)
  <1>1. CASE LengthFor(b) \in {0, 1}
    <2> DEFINE c == IF LengthFor(b) = 1 THEN b ELSE Replacement
               f == Shows(c)
    <2>1. q.out = Append(r.out, f) /\ f.call \notin {"csi", "hook", "osc"}
      BY <1>1, PrintIsPlain DEF Begins
    <2>2. QED
      <3> HIDE DEF f
      <3>1. q.out = <<f>> \/ q.out = <<e, f>>
        BY <2>1, Appended
      <3>2. QED
        BY <2>1, <3>1, PlainOne, PlainTwo
  <1>2. CASE LengthFor(b) \notin {0, 1}
    BY <1>2, PlainNone, PlainOne DEF Begins
  <1>3. QED
    BY <1>1, <1>2

LEMMA DecodedPlainly ==
  ASSUME NEW p, p.out = <<>>, NEW b, NEW q, Decoded(p, b, q)
  PROVE  Plain(q.out)
  <1>1. \A c : Append(<<>>, Shows(c)) = <<Shows(c)>>
    OBVIOUS
  <1>2. CASE p.remaining = 0
    BY <1>2, BegunPlainly, PrintIsPlain DEF Decoded
  <1>3. CASE p.remaining # 0 /\ IsContinuation(b)
    BY <1>1, <1>3, PrintIsPlain, PlainNone, PlainOne DEF Decoded, Prolongs
  <1>4. CASE p.remaining # 0 /\ ~IsContinuation(b)
    <2>1. PICK r : r.out = Append(p.out, Shows(Replacement)) /\ Begins(r, b, q)
      BY <1>4 DEF Decoded
    <2>2. r.out = <<Shows(Replacement)>>
      BY <1>1, <2>1
    <2>3. QED
      BY <2>1, <2>2, BegunPlainly, PrintIsPlain
  <1>5. QED
    BY <1>2, <1>3, <1>4

LEMMA InGroundGood ==
  ASSUME NEW p, NEW b, Reads(p, b), p.state = "Ground"
  PROVE  WellRead(p, b, InGround(p, b))
  <1>1. CASE IsC0(b)
    <2>1. InGround(p, b) = Execute(p, b)
      BY <1>1 DEF InGround
    <2>2. QED
      BY <1>1, <2>1, ExecuteGood
  <1>2. CASE ~IsC0(b)
    <2> DEFINE q == DecodeUtf8(p, b)
    <2>1. InRange(q) /\ q.state = "Ground" /\ q.terminator = FALSE /\ Decoded(p, b, q)
      BY DecodeUtf8Is DEF Reads
    <2>2. Plain(q.out)
      <3> HIDE DEF q
      <3>1. QED
        BY <2>1, DecodedPlainly DEF Reads
    <2>3. FollowsText(p, b, q)
      <3> HIDE DEF q
      <3>1. QED
        BY <2>1 DEF FollowsText, Params
    <2>4. SameCharacter(q, q)
      BY DEF SameCharacter
    <2>5. WellRead(p, b, q)
      BY <1>2, <2>1, <2>2, <2>3, <2>4 DEF WellRead, Follows, Dispatched
    <2>6. InGround(p, b) = q
      BY <1>2 DEF InGround
    <2>7. QED
      BY <2>5, <2>6
  <1>3. QED
    BY <1>1, <1>2

LEMMA InStateGood ==
  ASSUME NEW p, NEW b, Reads(p, b)
  PROVE  WellRead(p, b, InState(p, b))
  <1>0. p.state \in States
    BY DEF Reads, InRange
  <1>1. CASE p.state = "Ground"
    BY <1>1, InGroundGood DEF InState
  <1>2. CASE p.state = "Escape"
    BY <1>2, InEscapeGood DEF InState
  <1>3. CASE p.state = "EscapeIntermediate"
    BY <1>3, InEscapeIntermediateGood DEF InState
  <1>4. CASE p.state = "CsiEntry"
    BY <1>4, InCsiEntryGood DEF InState
  <1>5. CASE p.state = "CsiParam"
    BY <1>5, InCsiParamGood DEF InState
  <1>6. CASE p.state = "CsiIntermediate"
    BY <1>6, InCsiIntermediateGood DEF InState
  <1>7. CASE p.state = "CsiIgnore"
    BY <1>7, InCsiIgnoreGood DEF InState
  <1>8. CASE p.state \in {"DcsEntry", "DcsParam", "DcsIntermediate"}
    BY <1>8, InDcsGood DEF InState
  <1>9. CASE p.state = "DcsPassthrough"
    BY <1>9, InDcsPassthroughGood DEF InState
  <1>10. CASE p.state \in {"DcsIgnore", "SosPmApcString"}
    BY <1>10, InIgnoredStringGood DEF InState
  <1>11. CASE p.state = "OscString"
    BY <1>11, InOscStringGood DEF InState
  <1>12. QED
    BY <1>0, <1>1, <1>2, <1>3, <1>4, <1>5, <1>6, <1>7, <1>8, <1>9, <1>10, <1>11
       DEF States, Strings

-----------------------------------------------------------------------------
(***************************************************************************)
(* A byte arrives.                                                         *)
(***************************************************************************)
(* The parser before the byte has made a call. *)
Silent(p) == [p EXCEPT !.out = <<>>]

LEMMA SilentIs ==
  ASSUME NEW p, InRange(p)
  PROVE  LET r == Silent(p)
         IN  /\ InRange(r) /\ r.out = <<>> /\ r.state = p.state
             /\ r.terminator = p.terminator /\ r.payload = p.payload
             /\ SameParameters(p, r) /\ SameCharacter(p, r)
  <1> DEFINE r == Silent(p)
  <1>1. /\ IsParser(r) /\ r.payload = p.payload /\ r.state = p.state /\ r.out = <<>>
        /\ r.terminator = p.terminator /\ SameCharacter(p, r) /\ SameParameters(p, r)
        /\ r.marker = p.marker /\ r.intermediate = p.intermediate
    BY DEF Silent, InRange, IsParser, Members, SameCharacter, SameParameters
  <1>2. InRange(r)
    <2> HIDE DEF r
    <2>1. QED
      BY <1>1 DEF InRange, Numbered, Decodes, SameCharacter, SameParameters
  <1>3. QED
    BY <1>1, <1>2

LEMMA TerminatorIs ==
  ASSUME NEW p, InRange(p), NEW t, t \in BOOLEAN
  PROVE  LET r == [p EXCEPT !.terminator = t]
         IN  /\ InRange(r) /\ r.out = p.out /\ r.state = p.state
             /\ r.terminator = t /\ r.payload = p.payload
             /\ SameParameters(p, r) /\ SameCharacter(p, r)
  <1> DEFINE r == [p EXCEPT !.terminator = t]
  <1>1. /\ IsParser(r) /\ r.payload = p.payload /\ r.state = p.state /\ r.out = p.out
        /\ r.terminator = t /\ SameCharacter(p, r) /\ SameParameters(p, r)
        /\ r.marker = p.marker /\ r.intermediate = p.intermediate
    BY DEF InRange, IsParser, Members, SameCharacter, SameParameters
  <1>2. InRange(r)
    <2> HIDE DEF r
    <2>1. QED
      BY <1>1 DEF InRange, Numbered, Decodes, SameCharacter, SameParameters
  <1>3. QED
    BY <1>1, <1>2

(* A terminator set and a payload, as ESC, CAN and SUB have it. *)
WithMark(p, t, text) == [p EXCEPT !.terminator = t, !.payload = text]

LEMMA WithMarkIs ==
  ASSUME NEW p, InRange(p), NEW t, t \in BOOLEAN,
         NEW text, text \in Seq(ByteSet), Len(text) <= MaxPayload
  PROVE  LET r == WithMark(p, t, text)
         IN  /\ InRange(r) /\ r.out = p.out /\ r.state = p.state
             /\ r.terminator = t /\ r.payload = text
             /\ SameParameters(p, r) /\ SameCharacter(p, r)
  <1> DEFINE r == WithMark(p, t, text)
  <1>1. /\ IsParser(r) /\ r.payload = text /\ r.state = p.state /\ r.out = p.out
        /\ r.terminator = t /\ SameCharacter(p, r) /\ SameParameters(p, r)
        /\ r.marker = p.marker /\ r.intermediate = p.intermediate
    BY DEF WithMark, InRange, IsParser, Members, SameCharacter, SameParameters
  <1>2. InRange(r)
    <2> HIDE DEF r
    <2>1. QED
      BY <1>1 DEF InRange, Numbered, Decodes, SameCharacter, SameParameters
  <1>3. QED
    BY <1>1, <1>2

(* The end of a device control string, which ESC, CAN and SUB may be. *)
LEMMA UnhookIs ==
  ASSUME NEW p, InRange(p), p.out = <<>>
  PROVE  LET r == Unhook(p)
         IN  /\ InRange(r) /\ r.state = p.state /\ r.terminator = p.terminator
             /\ r.payload = p.payload /\ SameCharacter(p, r)
             /\ r.out = <<>> \/ r.out = <<[call |-> "unhook"]>>
  <1> DEFINE e == [call |-> "unhook"]
  <1>1. CASE p.state = "DcsPassthrough"
    <2>1. Unhook(p) = Call(p, e)
      BY <1>1 DEF Unhook
    <2>2. /\ InRange(Call(p, e)) /\ Call(p, e).state = p.state
          /\ Call(p, e).terminator = p.terminator /\ Call(p, e).payload = p.payload
          /\ SameCharacter(p, Call(p, e)) /\ Call(p, e).out = <<e>>
      <3> HIDE DEF e
      <3>1. QED
        BY CallIs, CallKeeps DEF InRange
    <2>3. QED
      BY <2>1, <2>2
  <1>2. CASE p.state # "DcsPassthrough"
    BY <1>2 DEF Unhook, SameCharacter
  <1>3. QED
    BY <1>1, <1>2

LEMMA OnEscapeIs ==
  ASSUME NEW p, InRange(p), p.out = <<>>
  PROVE  LET q == OnEscape(p)
         IN  /\ InRange(q) /\ q.state = "Escape" /\ SameCharacter(p, q)
             /\ q.terminator = (p.state = "OscString")
             /\ p.state = "OscString" => q.payload = p.payload
             /\ q.out = <<>> \/ q.out = <<[call |-> "unhook"]>>
  <1> DEFINE q == OnEscape(p)
             c == ClearSequence(p)
             u == Unhook(c)
             r == Enter(u, "Escape")
             t == p.state = "OscString"
             text == IF t THEN r.payload ELSE <<>>
  <1> SUFFICES /\ InRange(q) /\ q.state = "Escape" /\ SameCharacter(p, q)
               /\ q.terminator = (p.state = "OscString")
               /\ p.state = "OscString" => q.payload = p.payload
               /\ q.out = <<>> \/ q.out = <<[call |-> "unhook"]>>
    OBVIOUS
  <1>1. InRange(c) /\ c.out = <<>> /\ c.state = p.state /\ c.payload = p.payload
        /\ SameCharacter(p, c)
    BY ClearSequenceIs
  <1>2. /\ InRange(u) /\ u.payload = p.payload /\ SameCharacter(p, u)
        /\ u.out = <<>> \/ u.out = <<[call |-> "unhook"]>>
    <2> HIDE DEF c
    <2>1. QED
      BY <1>1, UnhookIs DEF SameCharacter
  <1>3. /\ InRange(r) /\ r.payload = p.payload /\ SameCharacter(p, r) /\ r.state = "Escape"
        /\ r.out = u.out
    <2> HIDE DEF u
    <2>1. /\ IsParser(r) /\ r.payload = u.payload /\ SameCharacter(u, r) /\ r.state = "Escape"
          /\ r.out = u.out /\ SameParameters(u, r) /\ r.marker = u.marker
          /\ r.intermediate = u.intermediate /\ r.terminator = u.terminator
      BY <1>2, EnterIs DEF InRange
    <2>2. InRange(r)
      <3> HIDE DEF r
      <3>1. QED
        BY <1>2, <2>1 DEF InRange, Numbered, Decodes, SameParameters, SameCharacter, States
    <2>3. QED
      <3> HIDE DEF r
      <3>1. QED
        BY <1>2, <2>1, <2>2 DEF SameCharacter
  <1>4. text \in Seq(ByteSet) /\ Len(text) <= MaxPayload /\ (t => text = p.payload)
    <2> HIDE DEF r
    <2>1. r.payload \in Seq(ByteSet) /\ Len(r.payload) <= MaxPayload
      BY <1>3 DEF InRange
    <2>2. <<>> \in Seq(ByteSet) /\ Len(<<>>) <= MaxPayload
      BY ParserAssumption
    <2>3. QED
      BY <1>3, <2>1, <2>2
  <1>5. q = WithMark(r, t, text)
    BY DEF OnEscape, WithMark
  <1>6. t \in BOOLEAN
    OBVIOUS
  <1>7. /\ InRange(q) /\ q.out = r.out /\ q.state = r.state /\ q.terminator = t
        /\ q.payload = text /\ SameCharacter(r, q)
    <2> HIDE DEF q, r, t, text
    <2>1. QED
      BY <1>3, <1>4, <1>5, <1>6, WithMarkIs
  <1>8. QED
    <2>1. /\ InRange(q) /\ q.state = "Escape" /\ SameCharacter(p, q)
          /\ q.out = <<>> \/ q.out = <<[call |-> "unhook"]>>
      <3> HIDE DEF q, r, u
      <3>1. QED
        BY <1>2, <1>3, <1>7 DEF SameCharacter
    <2>2. q.terminator = (p.state = "OscString")
      <3> HIDE DEF q
      <3>1. QED
        BY <1>7
    <2>3. p.state = "OscString" => q.payload = p.payload
      <3> HIDE DEF q, text
      <3>1. QED
        BY <1>4, <1>7
    <2>4. QED
      <3> HIDE DEF q
      <3>1. QED
        BY <2>1, <2>2, <2>3

LEMMA OnCancelIs ==
  ASSUME NEW p, InRange(p), p.out = <<>>, NEW b
  PROVE  LET q == OnCancel(p, b)
         IN  /\ InRange(q) /\ q.state = "Ground" /\ SameCharacter(p, q)
             /\ q.terminator = FALSE /\ Plain(q.out)
  <1> DEFINE q == OnCancel(p, b)
             u == Unhook(p)
             e == Shows(Replacement)
             s == IF b = Sub THEN Printed(u, Replacement) ELSE u
             r == Enter(s, "Ground")
             t == FALSE
             text == <<>>
  <1> SUFFICES /\ InRange(q) /\ q.state = "Ground" /\ SameCharacter(p, q)
               /\ q.terminator = FALSE /\ Plain(q.out)
    OBVIOUS
  <1>1. /\ InRange(u) /\ SameCharacter(p, u)
        /\ u.out = <<>> \/ u.out = <<[call |-> "unhook"]>>
    BY UnhookIs
  <1>2. InRange(s) /\ SameCharacter(p, s) /\ Plain(s.out)
    <2> DEFINE f == [call |-> "unhook"]
    <2>1. f.call \notin {"csi", "hook", "osc"} /\ e.call \notin {"csi", "hook", "osc"}
      BY PrintIsPlain
    <2>2. u.out = <<>> \/ u.out = <<f>>
      BY <1>1
    <2> HIDE DEF u, e, f
    <2>3. CASE b = Sub
      <3> DEFINE w == Printed(u, Replacement)
      <3>1. InRange(w) /\ SameCharacter(u, w) /\ w.out = Append(u.out, e)
        BY <1>1, PrintedIs DEF e
      <3> HIDE DEF w
      <3>2. w.out = <<e>> \/ w.out = <<f, e>>
        BY <2>2, <3>1, Appended
      <3>3. Plain(w.out)
        BY <2>1, <3>2, PlainOne, PlainTwo
      <3>4. SameCharacter(p, w)
        BY <1>1, <3>1 DEF SameCharacter
      <3>5. s = w
        BY <2>3 DEF w
      <3> HIDE DEF s
      <3>6. QED
        BY <3>1, <3>3, <3>4, <3>5
    <2>4. CASE b # Sub
      <3>1. s = u
        BY <2>4
      <3> HIDE DEF s
      <3>2. QED
        BY <1>1, <2>1, <2>2, <3>1, PlainNone, PlainOne
    <2>5. QED
      BY <2>3, <2>4
  <1>3. /\ InRange(r) /\ SameCharacter(p, r) /\ r.state = "Ground" /\ r.out = s.out
    <2> HIDE DEF s
    <2>1. /\ IsParser(r) /\ r.payload = s.payload /\ SameCharacter(s, r) /\ r.state = "Ground"
          /\ r.out = s.out /\ SameParameters(s, r) /\ r.marker = s.marker
          /\ r.intermediate = s.intermediate /\ r.terminator = s.terminator
      BY <1>2, EnterIs DEF InRange
    <2>2. InRange(r)
      <3> HIDE DEF r
      <3>1. QED
        BY <1>2, <2>1 DEF InRange, Numbered, Decodes, SameParameters, SameCharacter, States
    <2>3. QED
      <3> HIDE DEF r
      <3>1. QED
        BY <1>2, <2>1, <2>2 DEF SameCharacter
  <1>4. text \in Seq(ByteSet) /\ Len(text) <= MaxPayload /\ t \in BOOLEAN
    BY ParserAssumption
  <1>5. q = WithMark(r, t, text)
    BY DEF OnCancel, WithMark
  <1>6. /\ InRange(q) /\ q.out = r.out /\ q.state = r.state /\ q.terminator = t
        /\ SameCharacter(r, q)
    <2> HIDE DEF q, r, t, text
    <2>1. QED
      BY <1>3, <1>4, <1>5, WithMarkIs
  <1>7. QED
    <2> HIDE DEF q, r, s
    <2>1. QED
      BY <1>2, <1>3, <1>6 DEF SameCharacter

(* What a byte has done to the parser, silent before it. *)
Arrives(p, b, q) ==
  /\ InRange(q)
  /\ q.terminator => /\ b = Esc /\ q.state = "Escape"
                     /\ p.state = "OscString" /\ q.payload = p.payload
  /\ b = Esc => q.state = "Escape"
  /\ FollowsText(p, b, q)
  /\ IF IsText(p, b) THEN Decoded(p, b, q) ELSE SameCharacter(p, q) \/ q.remaining = 0
  /\ Dispatched(p, b, q.out)

LEMMA WithParametersIs ==
  ASSUME NEW p, InRange(p), NEW v, NEW t
  PROVE  LET r == [p EXCEPT !.parameters = v, !.started = t]
         IN  r.parameters = v /\ r.started = t
  BY DEF InRange, IsParser, Members

LEMMA CollectParameterReads ==
  ASSUME NEW p, InRange(p), NEW r, InRange(r), SameParameters(p, r), NEW b, b \in ByteSet
  PROVE  SameParameters(CollectParameter(p, b), CollectParameter(r, b))
  <1>0. IsParser(p) /\ IsParser(r)
    BY DEF InRange
  <1>1. CASE IsSeparator(b)
    <2> DEFINE v == IF ~p.started /\ Len(p.parameters) < MaxParameters
                    THEN Append(p.parameters, -1) ELSE p.parameters
    <2>1. CollectParameter(p, b) = [p EXCEPT !.parameters = v, !.started = FALSE]
      BY <1>1 DEF CollectParameter, CollectSeparator
    <2>2. CollectParameter(r, b) = [r EXCEPT !.parameters = v, !.started = FALSE]
      BY <1>1 DEF CollectParameter, CollectSeparator, SameParameters
    <2>3. QED
      <3> HIDE DEF v
      <3> DEFINE t == FALSE
                 cp == [p EXCEPT !.parameters = v, !.started = t]
                 cr == [r EXCEPT !.parameters = v, !.started = t]
      <3>1. cp.parameters = v /\ cp.started = t /\ cr.parameters = v /\ cr.started = t
        <4> HIDE DEF t
        <4>1. QED
          BY WithParametersIs
      <3>2. CollectParameter(p, b) = cp /\ CollectParameter(r, b) = cr
        BY <2>1, <2>2
      <3> HIDE DEF cp, cr
      <3>3. QED
        BY <3>1, <3>2 DEF SameParameters
  <1>2. CASE ~IsSeparator(b) /\ IsDigit(b)
    <2> DEFINE begun == IF p.started THEN p.parameters ELSE Append(p.parameters, 0)
               v == [begun EXCEPT ![Len(begun)] = WithDigit(begun[Len(begun)], b)]
    <2>1. CollectParameter(p, b) =
            IF Len(p.parameters) >= MaxParameters THEN p
            ELSE [p EXCEPT !.parameters = v, !.started = TRUE]
      BY <1>2 DEF CollectParameter, CollectDigit
    <2>2. CollectParameter(r, b) =
            IF Len(p.parameters) >= MaxParameters THEN r
            ELSE [r EXCEPT !.parameters = v, !.started = TRUE]
      BY <1>2 DEF CollectParameter, CollectDigit, SameParameters
    <2>3. QED
      <3> HIDE DEF v
      <3> DEFINE t == TRUE
                 cp == [p EXCEPT !.parameters = v, !.started = t]
                 cr == [r EXCEPT !.parameters = v, !.started = t]
      <3>1. cp.parameters = v /\ cp.started = t /\ cr.parameters = v /\ cr.started = t
        <4> HIDE DEF t
        <4>1. QED
          BY WithParametersIs
      <3>2. CASE Len(p.parameters) >= MaxParameters
        BY <2>1, <2>2, <3>2
      <3>3. CASE ~(Len(p.parameters) >= MaxParameters)
        <4>1. CollectParameter(p, b) = cp /\ CollectParameter(r, b) = cr
          BY <2>1, <2>2, <3>3
        <4> HIDE DEF cp, cr
        <4>2. QED
          BY <3>1, <4>1 DEF SameParameters
      <3>4. QED
        BY <3>2, <3>3
  <1>3. CASE ~IsSeparator(b) /\ ~IsDigit(b)
    BY <1>3 DEF CollectParameter
  <1>4. QED
    BY <1>1, <1>2, <1>3

(* A byte that the states look at. *)
LEMMA ReadArrives ==
  ASSUME NEW p, NEW b, Reads(p, b)
  PROVE  Arrives(p, b, InState(p, b))
  <1> DEFINE q == InState(p, b)
  <1>1. InRange(q) /\ Follows(p, b, q)
    BY InStateGood DEF WellRead
  <1>2. IsText(p, b) => Decoded(p, b, q)
    <2>1. ASSUME IsText(p, b) PROVE q = DecodeUtf8(p, b)
      BY <2>1 DEF IsText, InState, InGround
    <2>2. InRange(p) /\ b \in ByteSet
      BY DEF Reads
    <2>3. Decoded(p, b, DecodeUtf8(p, b))
      BY <2>2, DecodeUtf8Is
    <2> HIDE DEF q
    <2>4. QED
      BY <2>1, <2>3
  <1> HIDE DEF q
  <1>3. ~IsText(p, b) => SameCharacter(p, q) \/ q.remaining = 0
    BY <1>1 DEF IsText, Reads, Follows
  <1>4. ~q.terminator /\ FollowsText(p, b, q) /\ Dispatched(p, b, q.out)
    BY <1>1 DEF Follows
  <1>5. Arrives(p, b, q)
    BY <1>1, <1>2, <1>3, <1>4 DEF Arrives, Reads
  <1>6. QED
    BY <1>5 DEF q

(* An ESC, a CAN or a SUB, and what ends an OSC. *)
LEMMA CutOff ==
  ASSUME NEW p, NEW b, NEW q, InRange(q), ~IsText(p, b),
         q.state \notin Params \cup {"OscString"}, SameCharacter(p, q),
         q.terminator => /\ b = Esc /\ q.state = "Escape"
                         /\ p.state = "OscString" /\ q.payload = p.payload,
         b = Esc => q.state = "Escape",
         Dispatched(p, b, q.out)
  PROVE  Arrives(p, b, q)
  <1>1. FollowsText(p, b, q)
    BY DEF FollowsText
  <1>2. QED
    BY <1>1 DEF Arrives

LEMMA AdvanceIs ==
  ASSUME NEW p, InRange(p), p.terminator => p.state = "Escape", NEW b, b \in ByteSet
  PROVE  Arrives(Silent(p), b, Advance(p, b))
  <1> DEFINE s == Silent(p)
             q == Advance(p, b)
  <1>1. /\ InRange(s) /\ s.out = <<>> /\ s.state = p.state
        /\ s.terminator = p.terminator /\ s.payload = p.payload
        /\ s.terminator \in BOOLEAN
    <2>1. /\ InRange(s) /\ s.out = <<>> /\ s.state = p.state
          /\ s.terminator = p.terminator /\ s.payload = p.payload
      BY SilentIs
    <2>2. QED
      <3> HIDE DEF s
      <3>1. QED
        BY <2>1 DEF InRange
  <1>2. q = CASE b = Esc                      -> OnEscape(s)
              [] b \in {Can, Sub}             -> OnCancel(s, b)
              [] s.terminator /\ b = 92       -> [OscDispatch(s) EXCEPT !.terminator = FALSE]
              [] s.terminator /\ b \notin {92, Esc, Can, Sub}
                                              -> InState(WithMark(s, FALSE, <<>>), b)
              [] OTHER                        -> InState(s, b)
    BY DEF Advance, Silent, WithMark
  <1> HIDE DEF s, q
  <1>3. CASE b = Esc
    <2>1. q = OnEscape(s)
      BY <1>2, <1>3 DEF Esc, Can, Sub
    <2>2. /\ InRange(q) /\ q.state = "Escape" /\ SameCharacter(s, q)
          /\ q.terminator = (s.state = "OscString")
          /\ s.state = "OscString" => q.payload = s.payload
          /\ q.out = <<>> \/ q.out = <<[call |-> "unhook"]>>
      BY <1>1, <2>1, OnEscapeIs
    <2>3. Plain(q.out)
      <3> DEFINE e == [call |-> "unhook"]
      <3>1. e.call \notin {"csi", "hook", "osc"}
        OBVIOUS
      <3>2. q.out = <<>> \/ q.out = <<e>>
        BY <2>2
      <3> HIDE DEF e
      <3>3. QED
        BY <3>1, <3>2, PlainNone, PlainOne
    <2>4. q.state \notin Params \cup {"OscString"} /\ ~IsText(s, b)
      BY <1>3, <2>2 DEF Params, IsText
    <2>5. Dispatched(s, b, q.out)
      BY <2>3 DEF Dispatched
    <2>6. q.terminator => /\ b = Esc /\ q.state = "Escape"
                          /\ s.state = "OscString" /\ q.payload = s.payload
      BY <1>3, <2>2
    <2>7. QED
      BY <2>2, <2>4, <2>5, <2>6, CutOff DEF s, q
  <1>4. CASE b \in {Can, Sub}
    <2>0. b # Esc /\ b # 92
      BY <1>4 DEF Esc, Can, Sub
    <2>1. q = OnCancel(s, b)
      BY <1>2, <1>4, <2>0
    <2>2. /\ InRange(q) /\ q.state = "Ground" /\ SameCharacter(s, q)
          /\ q.terminator = FALSE /\ Plain(q.out)
      BY <1>1, <2>1, OnCancelIs
    <2>3. q.state \notin Params \cup {"OscString"} /\ ~IsText(s, b)
      BY <1>4, <2>2 DEF Params, IsText
    <2>4. Dispatched(s, b, q.out)
      BY <2>2 DEF Dispatched
    <2>5. Arrives(s, b, q)
      BY <2>0, <2>2, <2>3, <2>4, CutOff
    <2>6. QED
      BY <2>5 DEF s, q
  <1>5. CASE s.terminator /\ b = 92
    <2> DEFINE r == OscDispatch(s)
               t == FALSE
    <2>1. q = [r EXCEPT !.terminator = t]
      BY <1>2, <1>5 DEF Esc, Can, Sub
    <2>2. /\ InRange(r) /\ r.state = "Ground" /\ SameCharacter(s, r)
          /\ r.out = <<[call |-> "osc", payload |-> s.payload]>>
      BY <1>1, OscDispatchIs
    <2>3. t \in BOOLEAN
      OBVIOUS
    <2>4. /\ InRange(q) /\ q.out = r.out /\ q.state = r.state /\ q.terminator = t
          /\ SameCharacter(r, q)
      <3> HIDE DEF r, t
      <3>1. QED
        BY <2>1, <2>2, <2>3, TerminatorIs
    <2>5. s.state = "Escape"
      BY <1>1, <1>5
    <2> HIDE DEF r
    <2>6. q.state \notin Params \cup {"OscString"} /\ ~IsText(s, b) /\ SameCharacter(s, q)
          /\ q.terminator = FALSE
      BY <2>2, <2>4, <2>5 DEF Params, IsText, SameCharacter
    <2>7. Dispatched(s, b, q.out)
      BY <1>5, <2>2, <2>4 DEF Dispatched
    <2>8. Arrives(s, b, q)
      BY <1>5, <2>4, <2>6, <2>7, CutOff DEF Esc
    <2>9. QED
      BY <2>8 DEF s, q
  <1>6. CASE s.terminator /\ b \notin {92, Esc, Can, Sub}
    <2> DEFINE t == FALSE
               text == <<>>
               m == WithMark(s, t, text)
    <2>1. q = InState(m, b)
      BY <1>2, <1>6
    <2>2. t \in BOOLEAN /\ text \in Seq(ByteSet) /\ Len(text) <= MaxPayload
      BY ParserAssumption
    <2>3. /\ InRange(m) /\ m.out = <<>> /\ m.state = s.state /\ m.terminator = t
          /\ SameParameters(s, m) /\ SameCharacter(s, m)
      <3> HIDE DEF t, text
      <3>1. QED
        BY <1>1, <2>2, WithMarkIs DEF m
    <2> HIDE DEF m
    <2>4. Reads(m, b)
      BY <1>6, <2>3 DEF Reads
    <2>5. Arrives(m, b, q)
      BY <2>1, <2>4, ReadArrives
    <2>6. m.state = "Escape" /\ s.state = "Escape" /\ m.terminator = FALSE
      BY <1>1, <1>6, <2>3
    <2>7. FollowsText(s, b, q)
      BY <2>5, <2>6 DEF Arrives, FollowsText, Params
    <2>8. ~IsText(m, b) /\ ~IsText(s, b)
      BY <2>6 DEF IsText
    <2>9. SameCharacter(s, q) \/ q.remaining = 0
      BY <2>3, <2>5, <2>8 DEF Arrives, SameCharacter
    <2>10. Dispatched(s, b, q.out)
      BY <2>5, <2>6 DEF Arrives, Dispatched, Params
    <2>11. InRange(q) /\ ~q.terminator
      BY <1>6, <2>5 DEF Arrives
    <2>12. Arrives(s, b, q)
      BY <1>6, <2>7, <2>8, <2>9, <2>10, <2>11 DEF Arrives
    <2>13. QED
      BY <2>12 DEF s, q
  <1>7. CASE ~s.terminator /\ b \notin {Esc, Can, Sub}
    <2>1. q = InState(s, b)
      BY <1>2, <1>7
    <2>2. Reads(s, b)
      BY <1>1, <1>7 DEF Reads
    <2>3. Arrives(s, b, q)
      BY <2>1, <2>2, ReadArrives
    <2>4. QED
      BY <2>3 DEF s, q
  <1>8. QED
    BY <1>3, <1>4, <1>5, <1>6, <1>7
-----------------------------------------------------------------------------
(***************************************************************************)
(* What is written, byte by byte.                                          *)
(***************************************************************************)
LEMMA AppendIs ==
  ASSUME NEW T, NEW s, s \in Seq(T), NEW e, e \in T
  PROVE  LET t == Append(s, e)
         IN  /\ t \in Seq(T) /\ Len(t) = Len(s) + 1 /\ t[Len(s) + 1] = e
             /\ \A i \in 1..Len(s) : t[i] = s[i]
  OBVIOUS

Separators(bytes, i) == {j \in 1..i : IsSeparator(bytes[j])}

LEMMA SeparatorsFinite ==
  ASSUME NEW bytes, NEW i, i \in Nat
  PROVE  /\ IsFiniteSet(Separators(bytes, i)) /\ Cardinality(Separators(bytes, i)) \in Nat
         /\ FieldOf(bytes, i) = Cardinality(Separators(bytes, i)) + 1
         /\ FieldOf(bytes, i) \in Nat \ {0}
  <1>1. IsFiniteSet(1..i)
    BY FS_Interval
  <1>2. Separators(bytes, i) \subseteq 1..i
    BY DEF Separators
  <1>3. IsFiniteSet(Separators(bytes, i))
    BY <1>1, <1>2, FS_Subset
  <1>4. Cardinality(Separators(bytes, i)) \in Nat
    BY <1>3, FS_CardinalityType
  <1>5. FieldOf(bytes, i) = Cardinality(Separators(bytes, i)) + 1
    BY DEF FieldOf, Separators
  <1>6. QED
    BY <1>3, <1>4, <1>5

LEMMA FieldOfNone ==
  ASSUME NEW bytes
  PROVE  FieldOf(bytes, 0) = 1
  <1>1. Separators(bytes, 0) = {}
    BY DEF Separators
  <1>2. QED
    BY <1>1, FS_EmptySet, SeparatorsFinite

(* A byte more leaves the fields of those before it. *)
LEMMA FieldOfBefore ==
  ASSUME NEW s, s \in Seq(ByteSet), NEW b, b \in ByteSet, NEW i, i \in 0..Len(s)
  PROVE  FieldOf(Append(s, b), i) = FieldOf(s, i)
  <1> DEFINE t == Append(s, b)
  <1>1. \A j \in 1..Len(s) : t[j] = s[j]
    BY AppendIs
  <1> HIDE DEF t
  <1>2. Separators(t, i) = Separators(s, i)
    BY <1>1 DEF Separators
  <1>3. QED
    BY <1>2, SeparatorsFinite DEF t

LEMMA FieldOfMore ==
  ASSUME NEW s, s \in Seq(ByteSet), NEW b, b \in ByteSet
  PROVE  FieldOf(Append(s, b), Len(s) + 1) =
           IF IsSeparator(b) THEN FieldOf(s, Len(s)) + 1 ELSE FieldOf(s, Len(s))
  <1> DEFINE t == Append(s, b)
             n == Len(s)
             S == Separators(s, n)
             T == Separators(t, n + 1)
  <1>1. \A j \in 1..n : t[j] = s[j]
    BY AppendIs
  <1>2. t[n + 1] = b /\ n \in Nat
    BY AppendIs
  <1>3. /\ IsFiniteSet(S) /\ Cardinality(S) \in Nat /\ FieldOf(s, n) = Cardinality(S) + 1
        /\ FieldOf(t, n + 1) = Cardinality(T) + 1 /\ Cardinality(T) \in Nat
    <2> HIDE DEF t
    <2>1. QED
      BY <1>2, SeparatorsFinite
  <1>4. CASE IsSeparator(b)
    <2>1. T = S \cup {n + 1} /\ n + 1 \notin S
      <3> HIDE DEF t, n
      <3>1. QED
        BY <1>1, <1>2, <1>4 DEF Separators
    <2>2. Cardinality(T) = Cardinality(S) + 1
      <3> HIDE DEF S, T
      <3>1. QED
        BY <1>3, <2>1, FS_AddElement
    <2>3. QED
      <3> HIDE DEF S, T, n, t
      <3>1. FieldOf(t, n + 1) = FieldOf(s, n) + 1
        BY <1>3, <2>2
      <3>2. QED
        BY <1>4, <3>1 DEF t, n
  <1>5. CASE ~IsSeparator(b)
    <2>1. T = S
      <3> HIDE DEF t, n
      <3>1. QED
        BY <1>1, <1>2, <1>5 DEF Separators
    <2>2. QED
      <3> HIDE DEF S, T, n, t
      <3>1. FieldOf(t, n + 1) = FieldOf(s, n)
        BY <1>3, <2>1
      <3>2. QED
        BY <1>5, <3>1 DEF t, n
  <1>6. QED
    BY <1>4, <1>5

(* The field that is being written has a digit. *)
Begun(bytes) ==
  \E i \in 1..Len(bytes) : IsDigitOf(bytes, i, FieldOf(bytes, Len(bytes)))

LEMMA FieldCountIs ==
  ASSUME NEW s, s \in Seq(ByteSet)
  PROVE  FieldCount(s) = IF Begun(s) THEN FieldOf(s, Len(s)) ELSE FieldOf(s, Len(s)) - 1
  <1>1. DOMAIN s = 1..Len(s)
    OBVIOUS
  <1>2. QED
    BY <1>1 DEF FieldCount, Begun

(* Fields only grow. *)
LEMMA FieldsGrow ==
  ASSUME NEW s, s \in Seq(ByteSet), NEW i, i \in 0..Len(s)
  PROVE  FieldOf(s, i) <= FieldOf(s, Len(s))
  <1>1. Separators(s, i) \subseteq Separators(s, Len(s))
    BY DEF Separators
  <1>2. i \in Nat /\ Len(s) \in Nat
    OBVIOUS
  <1>3. Cardinality(Separators(s, i)) <= Cardinality(Separators(s, Len(s)))
    BY <1>1, <1>2, SeparatorsFinite, FS_Subset
  <1>4. QED
    BY <1>2, <1>3, SeparatorsFinite

LEMMA DigitBefore ==
  ASSUME NEW s, s \in Seq(ByteSet), NEW b, b \in ByteSet, NEW i, i \in 1..Len(s), NEW k
  PROVE  IsDigitOf(Append(s, b), i, k) = IsDigitOf(s, i, k)
  <1>1. Append(s, b)[i] = s[i]
    BY AppendIs
  <1>2. FieldOf(Append(s, b), i) = FieldOf(s, i)
    BY FieldOfBefore
  <1>3. QED
    BY <1>1, <1>2 DEF IsDigitOf

LEMMA BegunMore ==
  ASSUME NEW s, s \in Seq(ByteSet), NEW b, b \in ByteSet
  PROVE  Begun(Append(s, b)) <=> ~IsSeparator(b) /\ (IsDigit(b) \/ Begun(s))
  <1> DEFINE t == Append(s, b)
             n == Len(s)
             f == FieldOf(s, n)
             g == FieldOf(t, n + 1)
  <1>1. Len(t) = n + 1 /\ n \in Nat /\ t[n + 1] = b /\ f \in Nat
    BY AppendIs, SeparatorsFinite
  <1>2. g = IF IsSeparator(b) THEN f + 1 ELSE f
    BY FieldOfMore
  <1>3. \A i \in 1..n : IsDigitOf(t, i, g) = IsDigitOf(s, i, g)
    BY DigitBefore
  <1>4. \A i \in 1..n : FieldOf(s, i) <= f /\ FieldOf(s, i) \in Nat
    BY FieldsGrow, SeparatorsFinite
  <1>5. IsDigitOf(t, n + 1, g) <=> IsDigit(b)
    <2> HIDE DEF t, n
    <2>1. QED
      BY <1>1 DEF IsDigitOf, g
  <1>6. Begun(t) <=> IsDigit(b) \/ \E i \in 1..n : IsDigitOf(s, i, g)
    <2> HIDE DEF n, t, f
    <2>1. Begun(t) <=> \E i \in 1..(n + 1) : IsDigitOf(t, i, g)
      BY <1>1 DEF Begun
    <2> HIDE DEF g
    <2>2. QED
      BY <1>1, <1>3, <1>5, <2>1
  <1>7. Begun(s) <=> \E i \in 1..n : IsDigitOf(s, i, f)
    BY DEF Begun
  <1>8. CASE IsSeparator(b)
    <2>1. ~IsDigit(b)
      BY <1>8 DEF IsSeparator, IsDigit
    <2>2. \A i \in 1..n : ~IsDigitOf(s, i, g)
      <3> HIDE DEF n, f, g
      <3>1. QED
        BY <1>1, <1>2, <1>4, <1>8 DEF IsDigitOf
    <2>3. QED
      <3> HIDE DEF t, n, g
      <3>1. ~Begun(t)
        BY <1>6, <2>1, <2>2
      <3>2. QED
        BY <1>8, <3>1 DEF t
  <1>9. CASE ~IsSeparator(b)
    <2>1. g = f
      BY <1>2, <1>9
    <2> HIDE DEF t, n, f, g
    <2>2. Begun(t) <=> IsDigit(b) \/ Begun(s)
      BY <1>6, <1>7, <2>1
    <2>3. QED
      BY <1>9, <2>2 DEF t
  <1>10. QED
    BY <1>8, <1>9

-----------------------------------------------------------------------------
(* Two tables that are filled in the same way are the same as far as both go. *)
LEMMA TablesAgree ==
  ASSUME NEW T, NEW base, NEW stepF, NEW stepG,
         NEW n, n \in Nat, NEW m, m \in Nat, n <= m,
         NEW f, IsTable(T, base, stepF, n, f), NEW g, IsTable(T, base, stepG, m, g),
         \A i \in 1..n : stepF[i] = stepG[i]
  PROVE  f[n] = g[n]
  <1> DEFINE S == {i \in Nat : i <= n => f[i] = g[i]}
  <1>1. 0 \in S
    BY DEF IsTable
  <1>2. ASSUME NEW i, i \in Nat, i \in S PROVE i + 1 \in S
    <2>1. ASSUME i + 1 <= n PROVE f[i + 1] = g[i + 1]
      <3>1. i + 1 \in 1..n /\ i + 1 \in 1..m /\ (i + 1) - 1 = i
        BY <1>2, <2>1
      <3>2. f[i] = g[i]
        BY <1>2, <2>1
      <3>3. f[i + 1] = stepF[i + 1][f[i]] /\ g[i + 1] = stepG[i + 1][g[i]]
        BY <3>1 DEF IsTable
      <3>4. stepF[i + 1] = stepG[i + 1]
        BY <3>1
      <3>5. QED
        BY <3>2, <3>3, <3>4
    <2>2. QED
      BY <1>2, <2>1
  <1>3. Nat \subseteq S
    <2> HIDE DEF S
    <2>1. QED
      BY <1>1, <1>2, Induct
  <1>4. QED
    BY <1>3

(* The digits of a field, one after the other. *)
DigitStep(bytes, k) ==
  [i \in Nat |-> [v \in Int |->
     IF i \in 1..Len(bytes) /\ IsDigitOf(bytes, i, k)
     THEN WithDigit(IF v = -1 THEN 0 ELSE v, bytes[i]) ELSE v]]

LEMMA DigitStepIs ==
  ASSUME NEW s, s \in Seq(ByteSet), NEW k
  PROVE  DigitStep(s, k) \in [Nat -> [Int -> Int]]
  <1>1. ASSUME NEW i \in 1..Len(s), NEW v \in Int
        PROVE  WithDigit(IF v = -1 THEN 0 ELSE v, s[i]) \in Int
    <2>1. PICK u : u = IF v = -1 THEN 0 ELSE v
      OBVIOUS
    <2>2. u \in Int /\ s[i] \in ByteSet
      BY <2>1
    <2>3. WithDigit(u, s[i]) \in Int
      BY <2>2, WithDigitIs
    <2>4. QED
      BY <2>1, <2>3
  <1>2. QED
    BY <1>1 DEF DigitStep

LEMMA ValueIs ==
  ASSUME NEW s, s \in Seq(ByteSet), NEW k
  PROVE  \E f : IsTable(Int, -1, DigitStep(s, k), Len(s), f) /\ Value(s, k) = f[Len(s)]
  <1> DEFINE n == Len(s)
             step == DigitStep(s, k)
             Row(g, i) == IF i = 0 THEN -1
                          ELSE IF ~IsDigitOf(s, i, k) THEN g[i - 1]
                          ELSE WithDigit(IF g[i - 1] = -1 THEN 0 ELSE g[i - 1], s[i])
             Table(g) == g = [i \in 0..n |-> Row(g, i)]
  <1>0. n \in Nat /\ -1 \in Int /\ step \in [Nat -> [Int -> Int]]
    BY DigitStepIs
  <1>1. ASSUME NEW i \in 1..n, NEW v \in Int
        PROVE  step[i][v] = IF ~IsDigitOf(s, i, k) THEN v
                            ELSE WithDigit(IF v = -1 THEN 0 ELSE v, s[i])
    BY DEF DigitStep
  <1>2. PICK f : IsTable(Int, -1, step, n, f)
    <2> DEFINE base == -1
    <2> HIDE DEF step, n, base
    <2>1. \E f : IsTable(Int, base, step, n, f)
      <3>1. base \in Int
        BY DEF base
      <3>2. QED
        BY <1>0, <3>1, Recursion
    <2>2. QED
      BY <2>1 DEF base
  <1>3. f \in [0..n -> Int] /\ f[0] = -1 /\ \A i \in 1..n : f[i] = step[i][f[i - 1]]
    BY <1>2 DEF IsTable
  <1>4. Table(f)
    <2>1. ASSUME NEW i \in 0..n PROVE f[i] = Row(f, i)
      <3>1. CASE i = 0
        BY <1>3, <3>1
      <3>2. CASE i # 0
        <4>1. i \in 1..n /\ i - 1 \in 0..n
          BY <1>0, <3>2
        <4>2. f[i - 1] \in Int
          BY <1>3, <4>1
        <4> HIDE DEF step
        <4>3. f[i] = step[i][f[i - 1]]
          BY <1>3, <4>1
        <4>4. QED
          BY <1>1, <3>2, <4>1, <4>2, <4>3
      <3>3. QED
        BY <3>1, <3>2
    <2> HIDE DEF Row, n
    <2>2. QED
      BY <1>3, <2>1
  <1> DEFINE at == CHOOSE g : Table(g)
  <1>5. Table(at)
    <2> HIDE DEF Table
    <2>1. QED
      BY <1>4
  <1>6. Value(s, k) = at[n]
    BY DEF Value
  <1> HIDE DEF at
  <1>7. \A i \in 0..n : at[i] = Row(at, i)
    <2> HIDE DEF Row, n
    <2>1. QED
      BY <1>5
  <1> DEFINE S == {i \in Nat : i <= n => at[i] = f[i]}
  <1>8. Nat \subseteq S
    <2>1. 0 \in S
      <3> HIDE DEF step
      <3>1. at[0] = -1
        <4>1. 0 \in 0..n
          BY <1>0
        <4>2. Row(at, 0) = -1
          OBVIOUS
        <4> HIDE DEF Row
        <4>3. QED
          BY <1>7, <4>1, <4>2
      <3>2. f[0] = -1
        BY <1>3
      <3>3. QED
        BY <3>1, <3>2
    <2>2. ASSUME NEW i, i \in Nat, i \in S PROVE i + 1 \in S
      <3>1. ASSUME i + 1 <= n PROVE at[i + 1] = f[i + 1]
        <4>1. i + 1 \in 1..n /\ i + 1 \in 0..n /\ i \in 0..n /\ i + 1 # 0 /\ (i + 1) - 1 = i
          BY <1>0, <2>2, <3>1
        <4>2. at[i] = f[i]
          BY <2>2, <3>1
        <4>3. f[i] \in Int
          BY <1>3, <4>1
        <4>4. at[i + 1] = IF ~IsDigitOf(s, i + 1, k) THEN f[i]
                          ELSE WithDigit(IF f[i] = -1 THEN 0 ELSE f[i], s[i + 1])
          BY <1>7, <4>1, <4>2
        <4>5. f[i + 1] = step[i + 1][f[i]]
          <5> HIDE DEF step
          <5>1. QED
            BY <1>3, <4>1
        <4> HIDE DEF step
        <4>6. QED
          BY <1>1, <4>1, <4>3, <4>4, <4>5
      <3>2. QED
        BY <2>2, <3>1
    <2> HIDE DEF S
    <2>3. QED
      BY <2>1, <2>2, Induct
  <1>9. at[n] = f[n]
    BY <1>0, <1>8
  <1>10. QED
    <2> HIDE DEF n, step
    <2>1. IsTable(Int, -1, step, n, f) /\ Value(s, k) = f[n]
      BY <1>2, <1>6, <1>9
    <2>2. QED
      BY <2>1 DEF n, step

LEMMA ValueOfNone ==
  ASSUME NEW k
  PROVE  Value(<<>>, k) = -1
  <1>1. PICK s : s = <<>>
    OBVIOUS
  <1>2. s \in Seq(ByteSet) /\ Len(s) = 0
    BY <1>1
  <1>3. PICK f : IsTable(Int, -1, DigitStep(s, k), Len(s), f) /\ Value(s, k) = f[Len(s)]
    BY <1>2, ValueIs
  <1>4. QED
    BY <1>1, <1>2, <1>3 DEF IsTable

LEMMA ValueOfMore ==
  ASSUME NEW s, s \in Seq(ByteSet), NEW b, b \in ByteSet, NEW k
  PROVE  /\ Value(s, k) \in Int
         /\ Value(Append(s, b), k) =
              IF IsDigit(b) /\ FieldOf(s, Len(s)) = k
              THEN WithDigit(IF Value(s, k) = -1 THEN 0 ELSE Value(s, k), b)
              ELSE Value(s, k)
  <1> DEFINE t == Append(s, b)
             n == Len(s)
             sf == DigitStep(s, k)
             sg == DigitStep(t, k)
  <1>1. t \in Seq(ByteSet) /\ Len(t) = n + 1 /\ n \in Nat /\ t[n + 1] = b
    BY AppendIs
  <1>2. PICK f : IsTable(Int, -1, sf, n, f) /\ Value(s, k) = f[n]
    BY ValueIs
  <1>3. PICK g : IsTable(Int, -1, sg, n + 1, g) /\ Value(t, k) = g[n + 1]
    <2> HIDE DEF t
    <2>1. QED
      BY <1>1, ValueIs
  <1>4. ASSUME NEW i \in 1..n PROVE sf[i] = sg[i]
    <2>1. t[i] = s[i]
      BY AppendIs
    <2>2. IsDigitOf(t, i, k) = IsDigitOf(s, i, k)
      BY DigitBefore
    <2> HIDE DEF t
    <2>3. QED
      BY <1>1, <2>1, <2>2 DEF DigitStep
  <1>5. f[n] = g[n]
    <2> DEFINE base == -1
               m == n + 1
    <2>1. IsTable(Int, base, sf, n, f) /\ IsTable(Int, base, sg, m, g) /\ m \in Nat /\ n <= m
      BY <1>1, <1>2, <1>3
    <2> HIDE DEF base, m, sf, sg, n
    <2>2. QED
      BY <1>1, <1>4, <2>1, TablesAgree
  <1>6. f[n] \in Int
    BY <1>1, <1>2 DEF IsTable
  <1>7. g[n + 1] = sg[n + 1][g[n]]
    <2> HIDE DEF sg
    <2>1. n + 1 \in 1..(n + 1) /\ (n + 1) - 1 = n
      BY <1>1
    <2>2. QED
      BY <1>3, <2>1 DEF IsTable
  <1>8. sg[n + 1][f[n]] = IF IsDigitOf(t, n + 1, k)
                          THEN WithDigit(IF f[n] = -1 THEN 0 ELSE f[n], b) ELSE f[n]
    <2> HIDE DEF t, n
    <2>1. QED
      BY <1>1, <1>6 DEF DigitStep
  <1>9. IsDigitOf(t, n + 1, k) <=> IsDigit(b) /\ FieldOf(s, n) = k
    <2>1. IsDigit(b) => ~IsSeparator(b)
      BY DEF IsDigit, IsSeparator
    <2>2. FieldOf(t, n + 1) = IF IsSeparator(b) THEN FieldOf(s, n) + 1 ELSE FieldOf(s, n)
      BY FieldOfMore
    <2> HIDE DEF t, n
    <2>3. QED
      BY <1>1, <2>1, <2>2 DEF IsDigitOf
  <1>10. QED
    <2> HIDE DEF sg, sf
    <2>1. Value(t, k) = IF IsDigit(b) /\ FieldOf(s, n) = k
                        THEN WithDigit(IF f[n] = -1 THEN 0 ELSE f[n], b) ELSE f[n]
      BY <1>3, <1>5, <1>7, <1>8, <1>9
    <2>2. QED
      BY <1>2, <1>6, <2>1

(* The bytes of an OSC that are text, one after the other. *)
IsKept(b) == b >= 32 \/ b = 9

TextStep(bytes) ==
  [i \in Nat |-> [v \in Seq(ByteSet) |->
     IF i \in 1..Len(bytes) /\ IsKept(bytes[i]) THEN Append(v, bytes[i]) ELSE v]]

LEMMA TextStepIs ==
  ASSUME NEW s, s \in Seq(ByteSet)
  PROVE  TextStep(s) \in [Nat -> [Seq(ByteSet) -> Seq(ByteSet)]]
  <1>1. ASSUME NEW i \in 1..Len(s), NEW v \in Seq(ByteSet)
        PROVE  Append(v, s[i]) \in Seq(ByteSet)
    OBVIOUS
  <1>2. QED
    BY <1>1 DEF TextStep

LEMMA TextOfIs ==
  ASSUME NEW s, s \in Seq(ByteSet)
  PROVE  \E f : IsTable(Seq(ByteSet), <<>>, TextStep(s), Len(s), f) /\ TextOf(s) = f[Len(s)]
  <1> DEFINE n == Len(s)
             Texts == Seq(ByteSet)
             step == TextStep(s)
             Row(g, i) == IF i = 0 THEN <<>>
                          ELSE IF s[i] >= 32 \/ s[i] = 9 THEN Append(g[i - 1], s[i])
                          ELSE g[i - 1]
             Table(g) == g = [i \in 0..n |-> Row(g, i)]
  <1>0. n \in Nat /\ <<>> \in Texts /\ step \in [Nat -> [Texts -> Texts]]
    BY TextStepIs
  <1>1. ASSUME NEW i \in 1..n, NEW v \in Texts
        PROVE  step[i][v] = IF s[i] >= 32 \/ s[i] = 9 THEN Append(v, s[i]) ELSE v
    <2> HIDE DEF Texts
    <2>1. QED
      BY DEF TextStep, IsKept, Texts
  <1>2. PICK f : IsTable(Texts, <<>>, step, n, f)
    <2> DEFINE base == <<>>
    <2>1. base \in Texts
      OBVIOUS
    <2> HIDE DEF step, n, base, Texts
    <2>2. \E f : IsTable(Texts, base, step, n, f)
      BY <1>0, <2>1, Recursion
    <2>3. QED
      BY <2>2 DEF base
  <1>3. f \in [0..n -> Texts] /\ f[0] = <<>> /\ \A i \in 1..n : f[i] = step[i][f[i - 1]]
    BY <1>2 DEF IsTable
  <1>4. Table(f)
    <2>1. ASSUME NEW i \in 0..n PROVE f[i] = Row(f, i)
      <3>1. CASE i = 0
        BY <1>3, <3>1
      <3>2. CASE i # 0
        <4>1. i \in 1..n /\ i - 1 \in 0..n
          BY <1>0, <3>2
        <4> HIDE DEF step, Texts
        <4>2. f[i - 1] \in Texts
          BY <1>3, <4>1
        <4>3. f[i] = step[i][f[i - 1]]
          BY <1>3, <4>1
        <4>4. QED
          BY <1>1, <3>2, <4>1, <4>2, <4>3
      <3>3. QED
        BY <3>1, <3>2
    <2> HIDE DEF Row, n, Texts
    <2>2. QED
      BY <1>3, <2>1
  <1> DEFINE at == CHOOSE g : Table(g)
  <1>5. Table(at)
    <2> HIDE DEF Table
    <2>1. QED
      BY <1>4
  <1>6. TextOf(s) = at[n]
    BY DEF TextOf
  <1> HIDE DEF at, Texts
  <1>7. \A i \in 0..n : at[i] = Row(at, i)
    <2> HIDE DEF Row, n
    <2>1. QED
      BY <1>5
  <1> DEFINE S == {i \in Nat : i <= n => at[i] = f[i]}
  <1>8. Nat \subseteq S
    <2>1. 0 \in S
      <3>1. at[0] = <<>> /\ f[0] = <<>>
        BY <1>0, <1>3, <1>7
      <3>2. QED
        BY <3>1
    <2>2. ASSUME NEW i, i \in Nat, i \in S PROVE i + 1 \in S
      <3>1. ASSUME i + 1 <= n PROVE at[i + 1] = f[i + 1]
        <4>1. i + 1 \in 1..n /\ i + 1 \in 0..n /\ i \in 0..n /\ i + 1 # 0 /\ (i + 1) - 1 = i
          BY <1>0, <2>2, <3>1
        <4>2. at[i] = f[i]
          BY <2>2, <3>1
        <4>3. f[i] \in Texts
          BY <1>3, <4>1
        <4>4. at[i + 1] = IF s[i + 1] >= 32 \/ s[i + 1] = 9 THEN Append(f[i], s[i + 1])
                          ELSE f[i]
          BY <1>7, <4>1, <4>2
        <4>5. f[i + 1] = step[i + 1][f[i]]
          <5> HIDE DEF step
          <5>1. QED
            BY <1>3, <4>1
        <4> HIDE DEF step
        <4>6. QED
          BY <1>1, <4>1, <4>3, <4>4, <4>5
      <3>2. QED
        BY <2>2, <3>1
    <2> HIDE DEF S
    <2>3. QED
      BY <2>1, <2>2, Induct
  <1>9. at[n] = f[n]
    BY <1>0, <1>8
  <1>10. QED
    <2> HIDE DEF n, step
    <2>1. IsTable(Texts, <<>>, step, n, f) /\ TextOf(s) = f[n]
      BY <1>2, <1>6, <1>9
    <2>2. QED
      BY <2>1 DEF n, step, Texts

LEMMA TextOfNone == TextOf(<<>>) = <<>>
  <1>1. PICK s : s = <<>>
    OBVIOUS
  <1>2. s \in Seq(ByteSet) /\ Len(s) = 0
    BY <1>1
  <1>3. PICK f : IsTable(Seq(ByteSet), <<>>, TextStep(s), Len(s), f) /\ TextOf(s) = f[Len(s)]
    BY <1>2, TextOfIs
  <1>4. QED
    BY <1>1, <1>2, <1>3 DEF IsTable

LEMMA TextOfMore ==
  ASSUME NEW s, s \in Seq(ByteSet), NEW b, b \in ByteSet
  PROVE  /\ TextOf(s) \in Seq(ByteSet)
         /\ TextOf(Append(s, b)) = IF IsKept(b) THEN Append(TextOf(s), b) ELSE TextOf(s)
  <1> DEFINE t == Append(s, b)
             n == Len(s)
             Texts == Seq(ByteSet)
             sf == TextStep(s)
             sg == TextStep(t)
  <1>1. t \in Seq(ByteSet) /\ Len(t) = n + 1 /\ n \in Nat /\ t[n + 1] = b
    BY AppendIs
  <1>2. PICK f : IsTable(Texts, <<>>, sf, n, f) /\ TextOf(s) = f[n]
    BY TextOfIs
  <1>3. PICK g : IsTable(Texts, <<>>, sg, n + 1, g) /\ TextOf(t) = g[n + 1]
    <2> HIDE DEF t
    <2>1. QED
      BY <1>1, TextOfIs
  <1>4. ASSUME NEW i \in 1..n PROVE sf[i] = sg[i]
    <2>1. t[i] = s[i]
      BY AppendIs
    <2>2. PICK c : c = s[i]
      OBVIOUS
    <2>3. i \in 1..Len(s) /\ i \in 1..Len(t) /\ i \in Nat
      BY <1>1
    <2> HIDE DEF t, n
    <2>4. sf[i] = [v \in Texts |-> IF IsKept(c) THEN Append(v, c) ELSE v]
      BY <2>2, <2>3 DEF TextStep
    <2>5. sg[i] = [v \in Texts |-> IF IsKept(c) THEN Append(v, c) ELSE v]
      BY <2>1, <2>2, <2>3 DEF TextStep
    <2> HIDE DEF sf, sg
    <2>6. QED
      BY <2>4, <2>5
  <1>5. f[n] = g[n]
    <2> DEFINE base == <<>>
               m == n + 1
    <2>1. IsTable(Texts, base, sf, n, f) /\ IsTable(Texts, base, sg, m, g) /\ m \in Nat /\ n <= m
      BY <1>1, <1>2, <1>3
    <2> HIDE DEF base, m, sf, sg, n, Texts
    <2>2. QED
      BY <1>1, <1>4, <2>1, TablesAgree
  <1>6. f[n] \in Texts
    <2> HIDE DEF Texts
    <2>1. QED
      BY <1>1, <1>2 DEF IsTable
  <1>7. g[n + 1] = sg[n + 1][g[n]]
    <2> HIDE DEF sg, Texts
    <2>1. n + 1 \in 1..(n + 1) /\ (n + 1) - 1 = n
      BY <1>1
    <2>2. QED
      BY <1>3, <2>1 DEF IsTable
  <1>8. sg[n + 1][f[n]] = IF IsKept(b) THEN Append(f[n], b) ELSE f[n]
    <2> HIDE DEF t, n
    <2>1. QED
      BY <1>1, <1>6 DEF TextStep
  <1>9. QED
    <2> HIDE DEF sg, sf
    <2>1. TextOf(t) = IF IsKept(b) THEN Append(f[n], b) ELSE f[n]
      BY <1>3, <1>5, <1>7, <1>8
    <2>2. QED
      BY <1>2, <1>6, <2>1

-----------------------------------------------------------------------------
(***************************************************************************)
(* The parser's invariant: what it has kept of a sequence, of an OSC and   *)
(* of a character is what was written of them so far.                      *)
(***************************************************************************)
Values(bytes) == [k \in 1..MaxParameters |-> Value(bytes, k)]

(* The parameters of a sequence whose present field is `field`. *)
Collected(p, field, count, value) ==
  /\ field \in Nat \ {0} /\ count \in {field - 1, field}
  /\ Len(p.parameters) = IF count < MaxParameters THEN count ELSE MaxParameters
  /\ p.started <=> count = field /\ field <= MaxParameters
  /\ \A k \in 1..Len(p.parameters) : k < MaxParameters => p.parameters[k] = value[k]
  /\ \A k \in 1..MaxParameters : k > count => value[k] = -1
  /\ p.started => value[field] \in Nat

ParametersKept(p, bytes) ==
  p.state \in Params =>
    Collected(p, FieldOf(bytes, Len(bytes)), FieldCount(bytes), Values(bytes))

PayloadKept(p, bytes) ==
  p.state = "OscString" \/ p.terminator => p.payload = UpToLimit(TextOf(bytes))

Partial(u) ==
  CASE Len(u) = 1 -> FirstBits(u[1])
    [] Len(u) = 2 -> NextBits(FirstBits(u[1]), u[2])
    [] OTHER      -> NextBits(NextBits(FirstBits(u[1]), u[2]), u[3])

CharacterKept(p, u) ==
  IF p.remaining = 0 THEN u = <<>>
  ELSE /\ u # <<>> /\ u[1] \in 192..247
       /\ \A i \in 2..Len(u) : IsContinuation(u[i])
       /\ p.remaining = LengthFor(u[1]) - Len(u)
       /\ p.minimum = MinimumFor(LengthFor(u[1]))
       /\ p.codePoint = Partial(u)

ParserInv ==
  /\ InRange(parser) /\ (parser.terminator => parser.state = "Escape")
  /\ body \in Seq(ByteSet) /\ Len(body) <= MaxBody
  /\ unit \in Seq(ByteSet)
  /\ ParametersKept(parser, body)
  /\ PayloadKept(parser, body)
  /\ CharacterKept(parser, unit)

(* A byte more in the field, the count and the values of a sequence. *)
LEMMA WrittenMore ==
  ASSUME NEW s, s \in Seq(ByteSet), NEW b, b \in ByteSet
  PROVE  LET t == Append(s, b)
             field == FieldOf(s, Len(s))
         IN  /\ field \in Nat \ {0}
             /\ FieldOf(t, Len(t)) = IF IsSeparator(b) THEN field + 1 ELSE field
             /\ FieldCount(t) = IF IsSeparator(b) \/ IsDigit(b) THEN field ELSE FieldCount(s)
             /\ \A k \in 1..MaxParameters :
                  /\ Values(s)[k] \in Int
                  /\ Values(t)[k] =
                       IF IsDigit(b) /\ field = k
                       THEN WithDigit(IF Values(s)[k] = -1 THEN 0 ELSE Values(s)[k], b)
                       ELSE Values(s)[k]
  <1> DEFINE t == Append(s, b)
             field == FieldOf(s, Len(s))
  <1> SUFFICES /\ field \in Nat \ {0}
               /\ FieldOf(t, Len(t)) = IF IsSeparator(b) THEN field + 1 ELSE field
               /\ FieldCount(t) = IF IsSeparator(b) \/ IsDigit(b) THEN field ELSE FieldCount(s)
               /\ \A k \in 1..MaxParameters :
                    /\ Values(s)[k] \in Int
                    /\ Values(t)[k] =
                         IF IsDigit(b) /\ field = k
                         THEN WithDigit(IF Values(s)[k] = -1 THEN 0 ELSE Values(s)[k], b)
                         ELSE Values(s)[k]
    OBVIOUS
  <1>1. t \in Seq(ByteSet) /\ Len(t) = Len(s) + 1 /\ Len(s) \in Nat
    BY AppendIs
  <1>2. field \in Nat \ {0}
    BY <1>1, SeparatorsFinite
  <1>3. FieldOf(t, Len(t)) = IF IsSeparator(b) THEN field + 1 ELSE field
    BY <1>1, FieldOfMore
  <1>4. FieldCount(t) = IF IsSeparator(b) \/ IsDigit(b) THEN field ELSE FieldCount(s)
    <2>1. FieldCount(t) = IF Begun(t) THEN FieldOf(t, Len(t)) ELSE FieldOf(t, Len(t)) - 1
      <3> HIDE DEF t
      <3>1. QED
        BY <1>1, FieldCountIs
    <2>2. FieldCount(s) = IF Begun(s) THEN field ELSE field - 1
      BY FieldCountIs
    <2>3. Begun(t) <=> ~IsSeparator(b) /\ (IsDigit(b) \/ Begun(s))
      BY BegunMore
    <2> HIDE DEF t, field
    <2>4. QED
      BY <1>2, <1>3, <2>1, <2>2, <2>3
  <1>5. ASSUME NEW k \in 1..MaxParameters
        PROVE  /\ Values(s)[k] \in Int
               /\ Values(t)[k] =
                    IF IsDigit(b) /\ field = k
                    THEN WithDigit(IF Values(s)[k] = -1 THEN 0 ELSE Values(s)[k], b)
                    ELSE Values(s)[k]
    <2>1. /\ Value(s, k) \in Int
          /\ Value(t, k) = IF IsDigit(b) /\ field = k
                           THEN WithDigit(IF Value(s, k) = -1 THEN 0 ELSE Value(s, k), b)
                           ELSE Value(s, k)
      BY ValueOfMore
    <2>2. Values(s)[k] = Value(s, k) /\ Values(t)[k] = Value(t, k)
      BY DEF Values
    <2> HIDE DEF t, field
    <2>3. QED
      BY <2>1, <2>2
  <1>6. QED
    <2> HIDE DEF t, field
    <2>1. QED
      BY <1>2, <1>3, <1>4, <1>5

LEMMA SeparatorCollected ==
  ASSUME NEW p, InRange(p), NEW b, b \in ByteSet, IsSeparator(b),
         NEW f, NEW c, NEW v, Collected(p, f, c, v)
  PROVE  Collected(CollectParameter(p, b), f + 1, f, v)
  <1> DEFINE w == IF ~p.started /\ Len(p.parameters) < MaxParameters
                  THEN Append(p.parameters, -1) ELSE p.parameters
             off == FALSE
             q == [p EXCEPT !.parameters = w, !.started = off]
  <1>1. CollectParameter(p, b) = q
    BY DEF CollectParameter, CollectSeparator
  <1>2. q.parameters = w /\ q.started = off
    <2> HIDE DEF w, off
    <2>1. QED
      BY WithParametersIs
  <1>3. /\ p.parameters \in Seq(Int) /\ MaxParameters \in Nat \ {0}
        /\ Len(p.parameters) \in Nat
    BY ParserAssumption DEF InRange, Numbered
  <1>4. /\ f \in Nat \ {0} /\ c \in {f - 1, f}
        /\ Len(p.parameters) = IF c < MaxParameters THEN c ELSE MaxParameters
        /\ p.started <=> c = f /\ f <= MaxParameters
        /\ \A k \in 1..Len(p.parameters) : k < MaxParameters => p.parameters[k] = v[k]
        /\ \A k \in 1..MaxParameters : k > c => v[k] = -1
    BY DEF Collected
  <1>5. Len(w) = IF f < MaxParameters THEN f ELSE MaxParameters
    BY <1>3, <1>4
  <1>6. \A k \in 1..Len(w) : k < MaxParameters => w[k] = v[k]
    <2>1. CASE ~p.started /\ Len(p.parameters) < MaxParameters
      <3>1. w = Append(p.parameters, -1)
        BY <2>1
      <3>2. f = c + 1 /\ Len(p.parameters) = c /\ f <= MaxParameters
        BY <1>3, <1>4, <2>1
      <3>3. v[f] = -1
        BY <1>3, <1>4, <3>2
      <3> HIDE DEF w
      <3>4. QED
        BY <1>3, <1>4, <3>1, <3>2, <3>3
    <2>2. CASE ~(~p.started /\ Len(p.parameters) < MaxParameters)
      <3>1. w = p.parameters
        BY <2>2
      <3> HIDE DEF w
      <3>2. QED
        BY <1>4, <3>1
    <2>3. QED
      BY <2>1, <2>2
  <1>7. \A k \in 1..MaxParameters : k > f => v[k] = -1
    BY <1>3, <1>4
  <1>8. f + 1 \in Nat \ {0} /\ f \in {(f + 1) - 1, f + 1} /\ ~(f = f + 1)
    BY <1>4
  <1>9. Collected(q, f + 1, f, v)
    <2>1. ~off
      OBVIOUS
    <2> HIDE DEF q, w, off
    <2>2. QED
      BY <1>2, <1>5, <1>6, <1>7, <1>8, <2>1 DEF Collected
  <1>10. QED
    BY <1>1, <1>9

(* The first digit of a field, and one more of it. *)
LEMMA DigitCollected ==
  ASSUME NEW p, InRange(p), NEW b, b \in ByteSet, ~IsSeparator(b), IsDigit(b),
         NEW f, NEW c, NEW v, Collected(p, f, c, v), NEW w,
         \A k \in 1..MaxParameters :
           /\ v[k] \in Int
           /\ w[k] = IF f = k THEN WithDigit(IF v[k] = -1 THEN 0 ELSE v[k], b) ELSE v[k]
  PROVE  Collected(CollectParameter(p, b), f, f, w)
  <1> DEFINE begun == IF p.started THEN p.parameters ELSE Append(p.parameters, 0)
             d == WithDigit(begun[Len(begun)], b)
             x == [begun EXCEPT ![Len(begun)] = d]
             on == TRUE
             q == [p EXCEPT !.parameters = x, !.started = on]
  <1>1. CollectParameter(p, b) = IF Len(p.parameters) >= MaxParameters THEN p ELSE q
    BY DEF CollectParameter, CollectDigit
  <1>2. q.parameters = x /\ q.started = on
    <2> HIDE DEF x, on
    <2>1. QED
      BY WithParametersIs
  <1>3. /\ p.parameters \in Seq(Int) /\ MaxParameters \in Nat \ {0}
        /\ Len(p.parameters) \in Nat
    BY ParserAssumption DEF InRange, Numbered
  <1>4. /\ f \in Nat \ {0} /\ c \in {f - 1, f}
        /\ Len(p.parameters) = IF c < MaxParameters THEN c ELSE MaxParameters
        /\ p.started <=> c = f /\ f <= MaxParameters
        /\ \A k \in 1..Len(p.parameters) : k < MaxParameters => p.parameters[k] = v[k]
        /\ \A k \in 1..MaxParameters : k > c => v[k] = -1
        /\ p.started => v[f] \in Nat
    BY DEF Collected
  <1>5. \A k \in 1..MaxParameters : k > f => w[k] = -1
    BY <1>3, <1>4
  <1>6. \A k \in 1..MaxParameters : k # f => w[k] = v[k]
    OBVIOUS
  <1>7. f <= MaxParameters => w[f] \in Nat
    <2>1. ASSUME f <= MaxParameters PROVE w[f] \in Nat
      <3>1. f \in 1..MaxParameters
        BY <1>3, <1>4, <2>1
      <3>2. PICK u : u = IF v[f] = -1 THEN 0 ELSE v[f]
        OBVIOUS
      <3>3. w[f] = WithDigit(u, b)
        BY <3>1, <3>2
      <3>4. c = f => v[f] \in Nat
        BY <1>4, <2>1
      <3>5. c # f => v[f] = -1
        BY <1>4, <3>1
      <3>6. u \in Nat
        BY <3>2, <3>4, <3>5
      <3>7. QED
        BY <3>3, <3>6, WithDigitIs
    <2>2. QED
      BY <2>1
  <1>8. CASE Len(p.parameters) >= MaxParameters
    <2>1. CollectParameter(p, b) = p
      BY <1>1, <1>8
    <2>2. f >= MaxParameters /\ c >= MaxParameters /\ Len(p.parameters) = MaxParameters
      BY <1>3, <1>4, <1>8
    <2>3. p.started <=> f <= MaxParameters
      BY <1>4, <2>2, <1>3
    <2>4. \A k \in 1..Len(p.parameters) : k < MaxParameters => p.parameters[k] = w[k]
      BY <1>3, <1>4, <1>6, <2>2
    <2>5. Len(p.parameters) = IF f < MaxParameters THEN f ELSE MaxParameters
      BY <1>3, <1>4, <2>2
    <2> HIDE DEF q
    <2>6. Collected(p, f, f, w)
      BY <1>4, <1>5, <1>7, <2>3, <2>4, <2>5 DEF Collected
    <2>7. QED
      BY <2>1, <2>6
  <1>9. CASE ~(Len(p.parameters) >= MaxParameters)
    <2>1. CollectParameter(p, b) = q
      BY <1>1, <1>9
    <2>2. c < MaxParameters /\ Len(p.parameters) = c /\ f <= MaxParameters
      BY <1>3, <1>4, <1>9
    <2>3. p.started <=> c = f
      BY <1>4, <2>2
    <2>4. /\ begun \in Seq(Int) /\ Len(begun) = f
          /\ begun[f] = IF v[f] = -1 THEN 0 ELSE v[f]
          /\ \A k \in 1..(f - 1) : begun[k] = v[k]
      <3>1. CASE p.started
        <4>1. begun = p.parameters /\ c = f /\ v[f] \in Nat
          BY <1>4, <2>3, <3>1
        <4> HIDE DEF begun
        <4>2. QED
          BY <1>3, <1>4, <2>2, <4>1
      <3>2. CASE ~p.started
        <4>1. begun = Append(p.parameters, 0) /\ c = f - 1
          BY <1>4, <2>3, <3>2
        <4>2. v[f] = -1
          BY <1>3, <1>4, <2>2, <4>1
        <4>3. Len(p.parameters) = f - 1
          BY <2>2, <4>1
        <4>4. \A k \in 1..(f - 1) : p.parameters[k] = v[k]
          BY <1>3, <1>4, <2>2, <4>3
        <4> HIDE DEF begun
        <4>5. begun \in Seq(Int) /\ Len(begun) = f /\ begun[f] = 0
          BY <1>3, <1>4, <4>1, <4>3
        <4>6. \A k \in 1..(f - 1) : begun[k] = p.parameters[k]
          BY <1>3, <1>4, <4>1, <4>3
        <4>7. QED
          BY <4>2, <4>4, <4>5, <4>6
      <3>3. QED
        BY <3>1, <3>2
    <2>5. /\ Len(x) = f /\ x[f] = w[f]
          /\ \A k \in 1..(f - 1) : x[k] = w[k]
      <3>1. f \in 1..MaxParameters /\ \A k \in 1..(f - 1) : k \in 1..MaxParameters /\ k # f
        BY <1>3, <1>4, <2>2
      <3>2. d = w[f]
        <4> HIDE DEF begun
        <4>1. QED
          BY <2>4, <3>1
      <3> HIDE DEF begun, d
      <3>3. Len(x) = f /\ x[f] = d /\ \A k \in 1..(f - 1) : x[k] = begun[k]
        BY <1>4, <2>4
      <3>4. \A k \in 1..(f - 1) : begun[k] = w[k]
        BY <1>6, <2>4, <3>1
      <3> HIDE DEF x
      <3>5. QED
        BY <3>2, <3>3, <3>4
    <2>6. Collected(q, f, f, w)
      <3>0. on
        OBVIOUS
      <3> HIDE DEF q, x, on
      <3>1. Len(x) = IF f < MaxParameters THEN f ELSE MaxParameters
        BY <1>3, <1>4, <2>2, <2>5
      <3>2. \A k \in 1..Len(x) : k < MaxParameters => x[k] = w[k]
        BY <1>4, <2>5
      <3>3. QED
        BY <1>2, <1>4, <1>5, <1>7, <2>2, <3>0, <3>1, <3>2 DEF Collected
    <2>7. QED
      BY <2>1, <2>6
  <1>10. QED
    BY <1>8, <1>9

LEMMA OtherCollected ==
  ASSUME NEW p, NEW f, NEW c, NEW v, Collected(p, f, c, v), NEW w,
         InRange(p), \A k \in 1..MaxParameters : w[k] = v[k]
  PROVE  Collected(p, f, c, w)
  <1>1. MaxParameters \in Nat \ {0}
    BY ParserAssumption
  <1>2. Len(p.parameters) \in Nat /\ Len(p.parameters) <= MaxParameters
    BY DEF InRange, Numbered
  <1>3. \A k \in 1..Len(p.parameters) : k \in 1..MaxParameters
    BY <1>1, <1>2
  <1>4. p.started => f \in 1..MaxParameters
    BY <1>1 DEF Collected
  <1>5. QED
    BY <1>3, <1>4 DEF Collected

LEMMA SameCollected ==
  ASSUME NEW p, NEW q, SameParameters(p, q), NEW f, NEW c, NEW v, Collected(p, f, c, v)
  PROVE  Collected(q, f, c, v)
  BY DEF Collected, SameParameters

LEMMA CollectedMore ==
  ASSUME NEW p, InRange(p), NEW b, b \in ByteSet, NEW s, s \in Seq(ByteSet),
         Collected(p, FieldOf(s, Len(s)), FieldCount(s), Values(s))
  PROVE  LET t == Append(s, b)
         IN  Collected(CollectParameter(p, b), FieldOf(t, Len(t)), FieldCount(t), Values(t))
  <1> DEFINE t == Append(s, b)
  <1>1. PICK f, c, v, w, g, d :
          /\ f = FieldOf(s, Len(s)) /\ c = FieldCount(s) /\ v = Values(s)
          /\ w = Values(t) /\ g = FieldOf(t, Len(t)) /\ d = FieldCount(t)
    OBVIOUS
  <1>2. /\ f \in Nat \ {0}
        /\ g = IF IsSeparator(b) THEN f + 1 ELSE f
        /\ d = IF IsSeparator(b) \/ IsDigit(b) THEN f ELSE c
        /\ \A k \in 1..MaxParameters :
             /\ v[k] \in Int
             /\ w[k] = IF IsDigit(b) /\ f = k
                       THEN WithDigit(IF v[k] = -1 THEN 0 ELSE v[k], b) ELSE v[k]
    BY <1>1, WrittenMore
  <1>3. Collected(p, f, c, v)
    BY <1>1
  <1> SUFFICES Collected(CollectParameter(p, b), g, d, w)
    BY <1>1
  <1> HIDE DEF t
  <1>4. CASE IsSeparator(b)
    <2>1. ~IsDigit(b)
      BY <1>4 DEF IsSeparator, IsDigit
    <2>2. g = f + 1 /\ d = f /\ \A k \in 1..MaxParameters : w[k] = v[k]
      BY <1>2, <1>4, <2>1
    <2>3. Collected(CollectParameter(p, b), f + 1, f, v)
      BY <1>3, <1>4, SeparatorCollected
    <2>4. InRange(CollectParameter(p, b))
      BY CollectParameterIs
    <2>5. QED
      BY <2>2, <2>3, <2>4, OtherCollected
  <1>5. CASE ~IsSeparator(b) /\ IsDigit(b)
    <2>1. g = f /\ d = f
      BY <1>2, <1>5
    <2>2. \A k \in 1..MaxParameters :
            /\ v[k] \in Int
            /\ w[k] = IF f = k THEN WithDigit(IF v[k] = -1 THEN 0 ELSE v[k], b) ELSE v[k]
      BY <1>2, <1>5
    <2>3. Collected(CollectParameter(p, b), f, f, w)
      BY <1>3, <1>5, <2>2, DigitCollected
    <2>4. QED
      BY <2>1, <2>3
  <1>6. CASE ~IsSeparator(b) /\ ~IsDigit(b)
    <2>1. g = f /\ d = c /\ \A k \in 1..MaxParameters : w[k] = v[k]
      BY <1>2, <1>6
    <2>2. CollectParameter(p, b) = p
      BY <1>6, CollectParameterKeeps
    <2>3. QED
      BY <1>3, <2>1, <2>2, OtherCollected
  <1>7. QED
    BY <1>4, <1>5, <1>6

LEMMA NothingCollected ==
  ASSUME NEW q, InRange(q), q.parameters = <<>>, q.started = FALSE, NEW s, s = <<>>
  PROVE  Collected(q, FieldOf(s, Len(s)), FieldCount(s), Values(s))
  <1>1. s \in Seq(ByteSet) /\ Len(s) = 0
    OBVIOUS
  <1>2. FieldOf(s, Len(s)) = 1
    BY <1>1, FieldOfNone
  <1>3. FieldCount(s) = 0
    <2>1. ~Begun(s)
      BY <1>1 DEF Begun
    <2>2. FieldCount(s) = FieldOf(s, Len(s)) - 1
      <3>1. FieldCount(s) = IF Begun(s) THEN FieldOf(s, Len(s)) ELSE FieldOf(s, Len(s)) - 1
        BY <1>1, FieldCountIs
      <3>2. QED
        BY <2>1, <3>1
    <2>3. QED
      BY <1>2, <2>2
  <1>4. \A k \in 1..MaxParameters : Values(s)[k] = -1
    BY ValueOfNone DEF Values
  <1>5. MaxParameters \in Nat \ {0}
    BY ParserAssumption
  <1>6. Len(q.parameters) = 0 /\ ~q.started
    OBVIOUS
  <1>7. QED
    BY <1>2, <1>3, <1>4, <1>5, <1>6 DEF Collected

(* What Receive makes of the bytes it has kept. *)
BodyAfter(p, bytes, b, q) ==
  CASE b = Esc -> IF p.state = "OscString" THEN bytes ELSE <<>>
    [] p.state \in Strings /\ q.state \in Strings -> Append(bytes, b)
    [] OTHER -> <<>>

UnitAfter(p, u, b, q) ==
  CASE q.remaining = 0 -> <<>>
    [] q.remaining > 0 /\ ~IsText(p, b) -> u
    [] q.remaining > 0 /\ IsText(p, b)
           -> IF IsContinuation(b) THEN Append(u, b) ELSE <<b>>

LEMMA BodyAfterIs ==
  ASSUME NEW p, NEW s, NEW b, NEW q, b = Esc => q.state = "Escape"
  PROVE  LET t == BodyAfter(p, s, b, q)
         IN  /\ p.state \in Strings /\ q.state \in Strings => t = Append(s, b)
             /\ p.state \notin Strings => t = <<>>
             /\ q.state \notin Strings => t = <<>> \/ t = s
             /\ b = Esc /\ p.state = "OscString" => t = s
  <1>1. CASE b = Esc
    <2>1. q.state = "Escape" /\ "Escape" \notin Strings /\ "OscString" \in Strings
      BY <1>1 DEF Strings
    <2>2. BodyAfter(p, s, b, q) = IF p.state = "OscString" THEN s ELSE <<>>
      BY <1>1, <2>1 DEF BodyAfter
    <2>3. QED
      BY <2>1, <2>2
  <1>2. CASE b # Esc /\ p.state \in Strings /\ q.state \in Strings
    BY <1>2 DEF BodyAfter
  <1>3. CASE b # Esc /\ ~(p.state \in Strings /\ q.state \in Strings)
    BY <1>3 DEF BodyAfter
  <1>4. QED
    BY <1>1, <1>2, <1>3

LEMMA ParametersStay ==
  ASSUME NEW p, InRange(p), NEW b, b \in ByteSet, NEW q, Arrives(Silent(p), b, q),
         NEW s, s \in Seq(ByteSet), ParametersKept(p, s)
  PROVE  ParametersKept(q, BodyAfter(p, s, b, q))
  <1> DEFINE r == Silent(p)
  <1>1. InRange(r) /\ r.state = p.state /\ SameParameters(p, r)
    BY SilentIs
  <1>2. PICK t : t = BodyAfter(p, s, b, q)
    OBVIOUS
  <1> SUFFICES ASSUME q.state \in Params
               PROVE  Collected(q, FieldOf(t, Len(t)), FieldCount(t), Values(t))
    BY <1>2 DEF ParametersKept
  <1>3. /\ InRange(q) /\ FollowsText(r, b, q) /\ (b = Esc => q.state = "Escape")
    BY DEF Arrives
  <1> HIDE DEF r
  <1>4. CASE p.state \in Params
    <2>1. t = Append(s, b)
      BY <1>2, <1>3, <1>4, BodyAfterIs DEF Params, Strings
    <2>2. SameParameters(CollectParameter(r, b), q)
      BY <1>1, <1>3, <1>4 DEF FollowsText
    <2>3. Collected(r, FieldOf(s, Len(s)), FieldCount(s), Values(s))
      BY <1>1, <1>4, SameCollected DEF ParametersKept
    <2>4. Collected(CollectParameter(r, b), FieldOf(t, Len(t)), FieldCount(t), Values(t))
      BY <1>1, <2>1, <2>3, CollectedMore
    <2>5. QED
      BY <2>2, <2>4, SameCollected
  <1>5. CASE p.state \notin Params
    <2>1. q.parameters = <<>> /\ q.started = FALSE /\ p.state # "OscString"
      BY <1>1, <1>3, <1>5 DEF FollowsText
    <2>2. p.state \notin Strings
      BY <1>5, <2>1 DEF Params, Strings
    <2>3. t = <<>>
      BY <1>2, <1>3, <2>2, BodyAfterIs
    <2>4. QED
      BY <1>3, <2>1, <2>3, NothingCollected
  <1>6. QED
    BY <1>4, <1>5

LEMMA LimitMore ==
  ASSUME NEW t, t \in Seq(ByteSet), NEW b, b \in ByteSet
  PROVE  /\ UpToLimit(t) \in Seq(ByteSet)
         /\ UpToLimit(Append(t, b)) =
              IF Len(UpToLimit(t)) < MaxPayload THEN Append(UpToLimit(t), b) ELSE UpToLimit(t)
  <1>1. MaxPayload \in Nat \ {0} /\ Len(t) \in Nat
    BY ParserAssumption
  <1> DEFINE x == Append(t, b)
  <1>2. x \in Seq(ByteSet) /\ Len(x) = Len(t) + 1 /\ \A i \in 1..Len(t) : x[i] = t[i]
    BY AppendIs
  <1>3. CASE Len(t) < MaxPayload
    <2>1. UpToLimit(t) = t
      BY <1>1, <1>3 DEF UpToLimit
    <2> HIDE DEF x
    <2>2. UpToLimit(x) = x
      BY <1>1, <1>2, <1>3 DEF UpToLimit
    <2>3. QED
      BY <1>3, <2>1, <2>2 DEF x
  <1>4. CASE Len(t) >= MaxPayload
    <2> DEFINE y == SubSeq(x, 1, MaxPayload)
               z == UpToLimit(t)
    <2>1. z \in Seq(ByteSet) /\ Len(z) = MaxPayload /\ \A i \in 1..MaxPayload : z[i] = t[i]
      BY <1>1, <1>4 DEF UpToLimit
    <2>2. UpToLimit(x) = y
      <3> HIDE DEF x
      <3>1. QED
        BY <1>1, <1>2, <1>4 DEF UpToLimit
    <2>3. y \in Seq(ByteSet) /\ Len(y) = MaxPayload /\ \A i \in 1..MaxPayload : y[i] = x[i]
      <3> HIDE DEF x
      <3>1. QED
        BY <1>1, <1>2, <1>4
    <2>4. y = z
      <3> HIDE DEF x, y, z
      <3>1. QED
        BY <1>1, <1>2, <1>4, <2>1, <2>3
    <2>5. QED
      <3> HIDE DEF y, z
      <3>1. UpToLimit(x) = z /\ ~(Len(z) < MaxPayload)
        BY <1>1, <2>1, <2>2, <2>4
      <3>2. QED
        BY <2>1, <3>1 DEF z, x
  <1>5. QED
    BY <1>1, <1>3, <1>4

LEMMA PayloadStays ==
  ASSUME NEW p, InRange(p), NEW b, b \in ByteSet, NEW q, Arrives(Silent(p), b, q),
         NEW s, s \in Seq(ByteSet), PayloadKept(p, s)
  PROVE  PayloadKept(q, BodyAfter(p, s, b, q))
  <1> DEFINE r == Silent(p)
  <1>1. InRange(r) /\ r.state = p.state /\ r.payload = p.payload
    BY SilentIs
  <1>2. PICK t : t = BodyAfter(p, s, b, q)
    OBVIOUS
  <1>3. /\ FollowsText(r, b, q) /\ (b = Esc => q.state = "Escape")
        /\ q.terminator => b = Esc /\ r.state = "OscString" /\ q.payload = r.payload
    BY DEF Arrives
  <1> HIDE DEF r
  <1>4. ASSUME q.terminator PROVE q.payload = UpToLimit(TextOf(t))
    <2>1. b = Esc /\ p.state = "OscString" /\ q.payload = p.payload
      BY <1>1, <1>3, <1>4
    <2>2. t = s
      BY <1>2, <1>3, <2>1, BodyAfterIs
    <2>3. QED
      BY <2>1, <2>2 DEF PayloadKept
  <1>5. ASSUME q.state = "OscString" PROVE q.payload = UpToLimit(TextOf(t))
    <2>1. CASE p.state = "OscString"
      <3>1. t = Append(s, b)
        BY <1>2, <1>3, <1>5, <2>1, BodyAfterIs DEF Strings
      <3>2. q.payload = IF IsKept(b) /\ Len(p.payload) < MaxPayload
                        THEN Append(p.payload, b) ELSE p.payload
        BY <1>1, <1>3, <1>5, <2>1 DEF FollowsText, IsKept
      <3>3. p.payload = UpToLimit(TextOf(s))
        BY <2>1 DEF PayloadKept
      <3>4. /\ TextOf(s) \in Seq(ByteSet)
            /\ TextOf(t) = IF IsKept(b) THEN Append(TextOf(s), b) ELSE TextOf(s)
        BY <3>1, TextOfMore
      <3>5. UpToLimit(Append(TextOf(s), b)) =
              IF Len(UpToLimit(TextOf(s))) < MaxPayload
              THEN Append(UpToLimit(TextOf(s)), b) ELSE UpToLimit(TextOf(s))
        BY <3>4, LimitMore
      <3>6. CASE IsKept(b)
        BY <3>2, <3>3, <3>4, <3>5, <3>6
      <3>7. CASE ~IsKept(b)
        BY <3>2, <3>3, <3>4, <3>7
      <3>8. QED
        BY <3>6, <3>7
    <2>2. CASE p.state # "OscString"
      <3>1. q.payload = <<>> /\ p.state \notin Params
        BY <1>1, <1>3, <1>5, <2>2 DEF FollowsText
      <3>2. p.state \notin Strings
        BY <2>2, <3>1 DEF Params, Strings
      <3>3. t = <<>>
        BY <1>2, <1>3, <3>2, BodyAfterIs
      <3>4. UpToLimit(<<>>) = <<>>
        BY ParserAssumption DEF UpToLimit
      <3>5. QED
        BY <3>1, <3>3, <3>4, TextOfNone
    <2>3. QED
      BY <2>1, <2>2
  <1>6. QED
    BY <1>2, <1>4, <1>5 DEF PayloadKept

-----------------------------------------------------------------------------
(***************************************************************************)
(* Characters.                                                             *)
(***************************************************************************)
LEMMA LengthForIs ==
  ASSUME NEW b, b \in ByteSet
  PROVE  /\ LengthFor(b) \in 0..4
         /\ LengthFor(b) \notin {0, 1} <=> b \in 192..247
         /\ IsContinuation(b) => LengthFor(b) = 0
         /\ LengthFor(b) = 1 <=> b < 128
         /\ LengthFor(b) = 2 <=> b \in 192..223
         /\ LengthFor(b) = 3 <=> b \in 224..239
         /\ LengthFor(b) = 4 <=> b \in 240..247
  BY DEF LengthFor, IsContinuation, ByteSet

LEMMA OneByte ==
  ASSUME NEW b
  PROVE  Len(<<b>>) = 1 /\ <<b>>[1] = b /\ <<b>> # <<>>
  OBVIOUS

LEMMA BegunIsKept ==
  ASSUME NEW r, r.remaining = 0, NEW b, b \in ByteSet, NEW q, Begins(r, b, q)
  PROVE  IF LengthFor(b) \in {0, 1} THEN q.remaining = 0
         ELSE q.remaining > 0 /\ ~IsContinuation(b) /\ CharacterKept(q, <<b>>)
  <1>1. CASE LengthFor(b) \in {0, 1}
    BY <1>1 DEF Begins, SameCharacter
  <1>2. CASE LengthFor(b) \notin {0, 1}
    <2>1. PICK u : u = <<b>>
      OBVIOUS
    <2>2. Len(u) = 1 /\ u[1] = b /\ u # <<>>
      BY <2>1, OneByte
    <2>3. /\ q.remaining = LengthFor(b) - 1 /\ q.codePoint = FirstBits(b)
          /\ q.minimum = MinimumFor(LengthFor(b))
      BY <1>2 DEF Begins
    <2>4. LengthFor(b) \in 2..4 /\ b \in 192..247 /\ ~IsContinuation(b)
      BY <1>2, LengthForIs
    <2>5. q.remaining > 0
      BY <2>3, <2>4
    <2>6. \A i \in 2..Len(u) : IsContinuation(u[i])
      BY <2>2
    <2>7. Partial(u) = FirstBits(b)
      BY <2>2 DEF Partial
    <2>8. CharacterKept(q, u)
      BY <2>2, <2>3, <2>4, <2>5, <2>6, <2>7 DEF CharacterKept
    <2>9. QED
      BY <1>2, <2>1, <2>4, <2>5, <2>8
  <1>3. QED
    BY <1>1, <1>2

(* What is known of a character of which some bytes are there. *)
LEMMA KeptIs ==
  ASSUME NEW p, InRange(p), p.remaining # 0, NEW u, u \in Seq(ByteSet), CharacterKept(p, u)
  PROVE  /\ u # <<>> /\ u[1] \in 192..247 /\ LengthFor(u[1]) \in 2..4
         /\ \A i \in 2..Len(u) : IsContinuation(u[i])
         /\ p.remaining = LengthFor(u[1]) - Len(u) /\ p.remaining \in 1..3
         /\ Len(u) \in 1..3
         /\ p.minimum = MinimumFor(LengthFor(u[1])) /\ p.codePoint = Partial(u)
  <1>1. /\ u # <<>> /\ u[1] \in 192..247
        /\ \A i \in 2..Len(u) : IsContinuation(u[i])
        /\ p.remaining = LengthFor(u[1]) - Len(u)
        /\ p.minimum = MinimumFor(LengthFor(u[1])) /\ p.codePoint = Partial(u)
    BY DEF CharacterKept
  <1>2. p.remaining \in 1..3
    BY DEF InRange, Decodes
  <1>3. Len(u) \in Nat /\ Len(u) # 0
    BY <1>1
  <1>4. LengthFor(u[1]) \in 2..4
    <2>1. PICK c : c = u[1]
      OBVIOUS
    <2>2. c \in 192..247
      BY <1>1, <2>1
    <2>3. c \in ByteSet
      BY <2>2 DEF ByteSet
    <2>4. LengthFor(c) \in 2..4
      BY <2>2 DEF LengthFor
    <2>5. QED
      BY <2>1, <2>4
  <1>5. Len(u) \in 1..3
    <2>1. PICK n, l : n = Len(u) /\ l = LengthFor(u[1])
      OBVIOUS
    <2>2. n \in Nat /\ n # 0 /\ l \in 2..4 /\ l - n \in 1..3
      BY <1>1, <1>2, <1>3, <1>4, <2>1
    <2>3. n \in 1..3
      BY <2>2
    <2>4. QED
      BY <2>1, <2>3
  <1>6. QED
    BY <1>1, <1>2, <1>4, <1>5

LEMMA ContinuedIsKept ==
  ASSUME NEW p, InRange(p), p.remaining > 1, NEW u, u \in Seq(ByteSet), CharacterKept(p, u),
         NEW b, b \in ByteSet, IsContinuation(b), NEW r, SameCharacter(p, r),
         NEW q, Prolongs(r, b, q)
  PROVE  q.remaining > 0 /\ CharacterKept(q, Append(u, b))
  <1>0. p.remaining \in 1..3 /\ p.remaining # 0
    BY DEF InRange, Decodes
  <1>1. /\ u # <<>> /\ u[1] \in 192..247 /\ LengthFor(u[1]) \in 2..4
        /\ \A i \in 2..Len(u) : IsContinuation(u[i])
        /\ p.remaining = LengthFor(u[1]) - Len(u)
        /\ Len(u) \in 1..3
        /\ p.minimum = MinimumFor(LengthFor(u[1])) /\ p.codePoint = Partial(u)
    BY <1>0, KeptIs
  <1>2. PICK t : t = Append(u, b)
    OBVIOUS
  <1>3. t \in Seq(ByteSet) /\ Len(t) = Len(u) + 1 /\ t[Len(u) + 1] = b
        /\ \A i \in 1..Len(u) : t[i] = u[i]
    BY <1>2, AppendIs
  <1>4. /\ q.remaining = p.remaining - 1 /\ q.codePoint = NextBits(p.codePoint, b)
        /\ q.minimum = p.minimum
    BY DEF Prolongs, SameCharacter
  <1>5. t[1] = u[1] /\ t # <<>>
    BY <1>1, <1>3
  <1>6. \A i \in 2..Len(t) : IsContinuation(t[i])
    BY <1>1, <1>3
  <1>7. q.remaining = LengthFor(t[1]) - Len(t) /\ q.remaining > 0
    BY <1>0, <1>1, <1>3, <1>4, <1>5
  <1>8. Len(u) \in 1..2
    BY <1>0, <1>1
  <1>9. q.codePoint = Partial(t)
    <2>1. CASE Len(u) = 1
      <3>1. Partial(u) = FirstBits(u[1])
        BY <2>1 DEF Partial
      <3>2. Len(t) = 2 /\ t[2] = b
        BY <1>3, <2>1
      <3>3. Partial(t) = NextBits(FirstBits(t[1]), t[2])
        BY <3>2 DEF Partial
      <3>4. QED
        BY <1>1, <1>4, <1>5, <3>1, <3>2, <3>3
    <2>2. CASE Len(u) = 2
      <3>1. Partial(u) = NextBits(FirstBits(u[1]), u[2])
        BY <2>2 DEF Partial
      <3>2. Len(t) = 3 /\ t[3] = b /\ t[2] = u[2]
        BY <1>3, <2>2
      <3>3. Partial(t) = NextBits(NextBits(FirstBits(t[1]), t[2]), t[3])
        BY <3>2 DEF Partial
      <3>4. QED
        BY <1>1, <1>4, <1>5, <3>1, <3>2, <3>3
    <2>3. QED
      BY <1>8, <2>1, <2>2
  <1>10. CharacterKept(q, t)
    BY <1>1, <1>4, <1>5, <1>6, <1>7, <1>9 DEF CharacterKept
  <1>11. QED
    BY <1>2, <1>7, <1>10

LEMMA CharacterStays ==
  ASSUME NEW p, InRange(p), NEW b, b \in ByteSet, NEW q, Arrives(Silent(p), b, q),
         NEW u, u \in Seq(ByteSet), CharacterKept(p, u)
  PROVE  CharacterKept(q, UnitAfter(p, u, b, q)) /\ UnitAfter(p, u, b, q) \in Seq(ByteSet)
  <1> DEFINE r == Silent(p)
  <1>1. r.state = p.state /\ SameCharacter(p, r)
    BY SilentIs
  <1>2. InRange(q) /\ q.remaining \in 0..3
    BY DEF Arrives, InRange, Decodes
  <1>3. IF IsText(p, b) THEN Decoded(r, b, q) ELSE SameCharacter(r, q) \/ q.remaining = 0
    BY <1>1 DEF Arrives, IsText
  <1> HIDE DEF r
  <1>4. PICK t : t = UnitAfter(p, u, b, q)
    OBVIOUS
  <1> SUFFICES CharacterKept(q, t) /\ t \in Seq(ByteSet)
    BY <1>4
  <1>5. CASE q.remaining = 0
    <2>1. t = <<>>
      BY <1>4, <1>5 DEF UnitAfter
    <2>2. QED
      BY <1>5, <2>1 DEF CharacterKept
  <1>6. CASE q.remaining > 0 /\ ~IsText(p, b)
    <2>1. t = u
      BY <1>2, <1>4, <1>6 DEF UnitAfter
    <2>2. SameCharacter(p, q)
      BY <1>1, <1>2, <1>3, <1>6 DEF SameCharacter
    <2>3. QED
      BY <2>1, <2>2 DEF CharacterKept, SameCharacter
  <1>7. CASE q.remaining > 0 /\ IsText(p, b)
    <2>1. t = IF IsContinuation(b) THEN Append(u, b) ELSE <<b>>
      BY <1>2, <1>4, <1>7 DEF UnitAfter
    <2>2. <<b>> \in Seq(ByteSet) /\ Append(u, b) \in Seq(ByteSet)
      OBVIOUS
    <2>3. CASE p.remaining = 0
      <3>1. r.remaining = 0 /\ Begins(r, b, q)
        BY <1>1, <1>3, <1>7, <2>3 DEF Decoded, SameCharacter
      <3>2. ~IsContinuation(b) /\ CharacterKept(q, <<b>>)
        BY <1>2, <1>7, <3>1, BegunIsKept
      <3>3. QED
        BY <2>1, <2>2, <3>2
    <2>4. CASE p.remaining # 0 /\ IsContinuation(b)
      <3>1. r.remaining # 0 /\ Prolongs(r, b, q)
        BY <1>1, <1>3, <1>7, <2>4 DEF Decoded, SameCharacter
      <3>2. p.remaining > 1
        BY <1>1, <1>2, <1>7, <3>1 DEF Prolongs, SameCharacter
      <3>3. CharacterKept(q, Append(u, b))
        BY <1>1, <2>4, <3>1, <3>2, ContinuedIsKept
      <3>4. QED
        BY <2>1, <2>2, <2>4, <3>3
    <2>5. CASE p.remaining # 0 /\ ~IsContinuation(b)
      <3>1. PICK w : w.remaining = 0 /\ Begins(w, b, q)
        BY <1>1, <1>3, <1>7, <2>5 DEF Decoded, SameCharacter
      <3>2. CharacterKept(q, <<b>>)
        BY <1>2, <1>7, <3>1, BegunIsKept
      <3>3. QED
        BY <2>1, <2>2, <2>5, <3>2
    <2>6. QED
      BY <2>3, <2>4, <2>5
  <1>8. QED
    BY <1>2, <1>5, <1>6, <1>7

-----------------------------------------------------------------------------
(***************************************************************************)
(* The invariant is kept.                                                  *)
(***************************************************************************)
(* A byte received is one that Advance looks at. *)
LEMMA ReceiveIs ==
  ASSUME NEW b, b \in Bytes, Receive(b)
  PROVE  /\ b \in ByteSet
         /\ parser' = Advance(parser, b)
         /\ parser'.state \in Strings => Len(body) < MaxBody
         /\ body' = BodyAfter(parser, body, b, parser')
         /\ unit' = UnitAfter(parser, unit, b, parser')
  BY ParserAssumption DEF Receive, ByteSet, BodyAfter, UnitAfter

LEMMA FreshInv ==
  ASSUME NEW p, p = Fresh, NEW s, s = <<>>
  PROVE  /\ InRange(p) /\ ~p.terminator
         /\ ParametersKept(p, s) /\ PayloadKept(p, s) /\ CharacterKept(p, s)
  <1>1. InRange(p)
    <2>1. InRange([p EXCEPT !.out = p.out])
      BY FreshIs
    <2>2. IsParser(p)
      BY DEF Fresh, IsParser, Members
    <2>3. [p EXCEPT !.out = p.out] = p
      BY <2>2 DEF IsParser, Members
    <2>4. QED
      BY <2>1, <2>3
  <1>2. p.state = "Ground" /\ ~p.terminator /\ p.remaining = 0
    BY DEF Fresh
  <1>3. QED
    BY <1>1, <1>2 DEF ParametersKept, PayloadKept, CharacterKept, Params

LEMMA BodyStays ==
  ASSUME NEW p, NEW s, s \in Seq(ByteSet), Len(s) <= MaxBody, NEW b, b \in ByteSet,
         NEW q, b = Esc => q.state = "Escape", q.state \in Strings => Len(s) < MaxBody
  PROVE  BodyAfter(p, s, b, q) \in Seq(ByteSet) /\ Len(BodyAfter(p, s, b, q)) <= MaxBody
  <1>0. MaxBody \in Nat
    BY ParserAssumption
  <1>1. PICK t : t = BodyAfter(p, s, b, q)
    OBVIOUS
  <1>2. CASE p.state \in Strings /\ q.state \in Strings
    <2>1. t = Append(s, b)
      BY <1>1, <1>2, BodyAfterIs
    <2>2. t \in Seq(ByteSet) /\ Len(t) = Len(s) + 1 /\ Len(s) \in Nat
      BY <2>1, AppendIs
    <2>3. QED
      BY <1>0, <1>1, <1>2, <2>2
  <1>3. CASE ~(p.state \in Strings /\ q.state \in Strings)
    <2>1. t = <<>> \/ t = s
      BY <1>1, <1>3, BodyAfterIs
    <2>2. CASE t = <<>>
      BY <1>0, <1>1, <2>2
    <2>3. CASE t = s
      BY <1>1, <2>3
    <2>4. QED
      BY <2>1, <2>2, <2>3
  <1>4. QED
    BY <1>2, <1>3

LEMMA ParserStep == ParserInv /\ [ParserNext]_parserVars => ParserInv'
  <1>1. ASSUME ParserInv, NEW b, b \in Bytes, Receive(b) PROVE ParserInv'
    <2>1. PICK p, s, u, q, t, w :
            /\ p = parser /\ s = body /\ u = unit
            /\ q = parser' /\ t = body' /\ w = unit'
      OBVIOUS
    <2>2. /\ InRange(p) /\ (p.terminator => p.state = "Escape")
          /\ s \in Seq(ByteSet) /\ Len(s) <= MaxBody /\ u \in Seq(ByteSet)
          /\ ParametersKept(p, s) /\ PayloadKept(p, s) /\ CharacterKept(p, u)
      BY <1>1, <2>1 DEF ParserInv
    <2>3. /\ b \in ByteSet /\ q = Advance(p, b)
          /\ q.state \in Strings => Len(s) < MaxBody
          /\ t = BodyAfter(p, s, b, q) /\ w = UnitAfter(p, u, b, q)
      BY <1>1, <2>1, ReceiveIs
    <2>4. Arrives(Silent(p), b, q)
      BY <2>2, <2>3, AdvanceIs
    <2>5. /\ InRange(q) /\ (b = Esc => q.state = "Escape")
          /\ (q.terminator => q.state = "Escape")
      BY <2>4 DEF Arrives
    <2>6. t \in Seq(ByteSet) /\ Len(t) <= MaxBody
      BY <2>2, <2>3, <2>5, BodyStays
    <2>7. ParametersKept(q, t)
      BY <2>2, <2>3, <2>4, ParametersStay
    <2>8. PayloadKept(q, t)
      BY <2>2, <2>3, <2>4, PayloadStays
    <2>9. CharacterKept(q, w) /\ w \in Seq(ByteSet)
      BY <2>2, <2>3, <2>4, CharacterStays
    <2>10. QED
      BY <2>1, <2>5, <2>6, <2>7, <2>8, <2>9 DEF ParserInv
  <1>2. ASSUME ParserInv, UNCHANGED parserVars PROVE ParserInv'
    BY <1>2 DEF ParserInv, parserVars
  <1>3. QED
    BY <1>1, <1>2 DEF ParserNext

LEMMA ParserInvHolds == ParserSpec => []ParserInv
  <1>1. ParserInit => ParserInv
    <2>1. ASSUME ParserInit PROVE ParserInv
      <3>1. parser = Fresh /\ body = <<>> /\ unit = <<>>
        BY <2>1 DEF ParserInit
      <3>2. <<>> \in Seq(ByteSet) /\ Len(<<>>) <= MaxBody
        BY ParserAssumption
      <3>3. QED
        BY <3>1, <3>2, FreshInv DEF ParserInv
    <2>2. QED
      BY <2>1
  <1>2. QED
    BY <1>1, ParserStep, PTL DEF ParserSpec

(* Whatever bytes arrive, no parameter is stored beyond the array, no        *)
(* payload beyond its cap, and the decoder waits for three bytes at most     *)
(* (VtParser.cpp:86, :133, :187).                                            *)
THEOREM ParserTypeCorrect == ParserSpec => []ParserTypeOK
  <1>1. ParserInv => ParserTypeOK
    BY DEF ParserInv, ParserTypeOK, InRange, Numbered, Decodes
  <1>2. QED
    BY <1>1, ParserInvHolds, PTL

-----------------------------------------------------------------------------
(***************************************************************************)
(* What is dispatched is what was written.                                 *)
(***************************************************************************)
(* What a call says of the sequence or the OSC that was written. *)
SaysParameters(e, bytes) ==
  e.call \in {"csi", "hook"} =>
    LET count == FieldCount(bytes)
        got   == e.parameters
    IN  /\ Len(got) = IF count < MaxParameters THEN count ELSE MaxParameters
        /\ \A k \in 1..Len(got) : k < MaxParameters => got[k] = Value(bytes, k)

SaysText(e, bytes) == e.call = "osc" => e.payload = UpToLimit(TextOf(bytes))

LEMMA PlainSays ==
  ASSUME NEW e, e.call \notin {"csi", "hook", "osc"}, NEW s
  PROVE  SaysParameters(e, s) /\ SaysText(e, s)
  BY DEF SaysParameters, SaysText

LEMMA SequenceSays ==
  ASSUME NEW p, InRange(p), p.state \in Params, NEW s, ParametersKept(p, s),
         NEW r, SameParameters(p, r), NEW call, call \in {"csi", "hook"}, NEW b
  PROVE  LET e == Sequence(r, call, b) IN SaysParameters(e, s) /\ SaysText(e, s)
  <1> DEFINE e == Sequence(r, call, b)
  <1>1. e.call = call /\ e.parameters = p.parameters
    BY DEF Sequence, SameParameters
  <1> HIDE DEF e
  <1>2. /\ Len(p.parameters) = IF FieldCount(s) < MaxParameters THEN FieldCount(s)
                               ELSE MaxParameters
        /\ \A k \in 1..Len(p.parameters) : k < MaxParameters => p.parameters[k] = Values(s)[k]
    BY DEF ParametersKept, Collected
  <1>3. MaxParameters \in Nat /\ Len(p.parameters) \in Nat /\ Len(p.parameters) <= MaxParameters
    BY ParserAssumption DEF InRange, Numbered
  <1>4. \A k \in 1..Len(p.parameters) : Values(s)[k] = Value(s, k)
    BY <1>3 DEF Values
  <1>5. SaysParameters(e, s)
    BY <1>1, <1>2, <1>4 DEF SaysParameters
  <1>6. SaysText(e, s)
    BY <1>1 DEF SaysText
  <1>7. QED
    BY <1>5, <1>6 DEF e

LEMMA TextSays ==
  ASSUME NEW p, p.state = "OscString" \/ p.terminator, NEW s, PayloadKept(p, s)
  PROVE  LET e == [call |-> "osc", payload |-> p.payload]
         IN  SaysParameters(e, s) /\ SaysText(e, s)
  BY DEF SaysParameters, SaysText, PayloadKept

LEMMA DispatchSays ==
  ASSUME NEW p, InRange(p), NEW b, NEW q, Arrives(Silent(p), b, q),
         NEW s, ParametersKept(p, s), PayloadKept(p, s), NEW i, i \in 1..Len(q.out)
  PROVE  SaysParameters(q.out[i], s) /\ SaysText(q.out[i], s)
  <1> DEFINE r == Silent(p)
  <1>1. /\ r.state = p.state /\ r.terminator = p.terminator /\ r.payload = p.payload
        /\ SameParameters(p, r)
    BY SilentIs
  <1>2. Dispatched(r, b, q.out)
    BY DEF Arrives
  <1> HIDE DEF r
  <1>3. PICK out : out = q.out
    OBVIOUS
  <1>4. CASE Plain(out)
    BY <1>3, <1>4, PlainSays DEF Plain
  <1>5. ASSUME NEW e, out = <<e>>, SaysParameters(e, s) /\ SaysText(e, s)
        PROVE  SaysParameters(q.out[i], s) /\ SaysText(q.out[i], s)
    <2>1. Len(out) = 1 /\ out[1] = e
      BY <1>5
    <2>2. i = 1
      BY <1>3, <2>1
    <2>3. QED
      BY <1>3, <1>5, <2>1, <2>2
  <1>6. CASE p.state \in Params /\ \E call \in {"csi", "hook"} : out = <<Sequence(r, call, b)>>
    <2>1. PICK call \in {"csi", "hook"} : out = <<Sequence(r, call, b)>>
      BY <1>6
    <2> DEFINE e == Sequence(r, call, b)
    <2>2. SaysParameters(e, s) /\ SaysText(e, s)
      BY <1>1, <1>6, SequenceSays
    <2>3. out = <<e>>
      BY <2>1
    <2> HIDE DEF e
    <2>4. QED
      BY <1>5, <2>2, <2>3
  <1>7. CASE /\ p.state = "OscString" \/ p.terminator
             /\ out = <<[call |-> "osc", payload |-> p.payload]>>
    <2> DEFINE e == [call |-> "osc", payload |-> p.payload]
    <2>1. SaysParameters(e, s) /\ SaysText(e, s)
      BY <1>7, TextSays
    <2>2. out = <<e>>
      BY <1>7
    <2> HIDE DEF e
    <2>3. QED
      BY <1>5, <2>1, <2>2
  <1>8. QED
    BY <1>1, <1>2, <1>3, <1>4, <1>6, <1>7 DEF Dispatched

LEMMA StepSays ==
  ASSUME ParserInv, ParserNext, NEW i, i \in 1..Len(parser'.out)
  PROVE  SaysParameters(parser'.out[i], body) /\ SaysText(parser'.out[i], body)
  <1>1. PICK b \in Bytes : Receive(b)
    BY DEF ParserNext
  <1>2. PICK p, s, q : p = parser /\ s = body /\ q = parser'
    OBVIOUS
  <1>3. InRange(p) /\ (p.terminator => p.state = "Escape")
        /\ ParametersKept(p, s) /\ PayloadKept(p, s)
    BY <1>2 DEF ParserInv
  <1>4. b \in ByteSet /\ q = Advance(p, b)
    BY <1>1, <1>2, ReceiveIs
  <1>5. Arrives(Silent(p), b, q)
    BY <1>3, <1>4, AdvanceIs
  <1>6. QED
    BY <1>2, <1>3, <1>5, DispatchSays

(* Control sequences and OSCs are dispatched with the numbers and the text   *)
(* that were written, for any bytes in between (VtParser.cpp:86, :187).      *)
THEOREM DispatchedAsWrittenCorrect == ParserSpec => DispatchedAsWritten
  <1>1. ParserInv /\ [ParserNext]_parserVars =>
          [\A i \in 1..Len(parser'.out) :
             parser'.out[i].call \in {"csi", "hook"} =>
               LET count == FieldCount(body)
                   got   == parser'.out[i].parameters
               IN  /\ Len(got) = IF count < MaxParameters THEN count ELSE MaxParameters
                   /\ \A k \in 1..Len(got) : k < MaxParameters => got[k] = Value(body, k)
          ]_parserVars
    BY StepSays DEF SaysParameters
  <1>2. ParserInv /\ [ParserNext]_parserVars =>
          [\A i \in 1..Len(parser'.out) :
             parser'.out[i].call = "osc" =>
               parser'.out[i].payload = UpToLimit(TextOf(body))
          ]_parserVars
    BY StepSays DEF SaysText
  <1>3. ParserSpec => ParametersAsWritten
    BY <1>1, ParserInvHolds, PTL DEF ParserSpec, ParametersAsWritten
  <1>4. ParserSpec => OscAsWritten
    BY <1>2, ParserInvHolds, PTL DEF ParserSpec, OscAsWritten
  <1>5. QED
    BY <1>3, <1>4 DEF DispatchedAsWritten

-----------------------------------------------------------------------------
(***************************************************************************)
(* Text is decoded as UTF-8 has it.                                        *)
(***************************************************************************)
LEMMA SixBits ==
  ASSUME NEW n, n \in Nat, NEW d, d \in 0..63
  PROVE  (n * 64 + d) \div 64 = n /\ (n * 64 + d) % 64 = d
  OBVIOUS

LEMMA ContinuationBits ==
  ASSUME NEW b, b \in ByteSet, IsContinuation(b)
  PROVE  b % 64 = b - 128 /\ b - 128 \in 0..63
  BY DEF IsContinuation

LEMMA NextBitsIs ==
  ASSUME NEW n, n \in Nat, NEW b, b \in ByteSet, IsContinuation(b)
  PROVE  /\ NextBits(n, b) \in Nat /\ NextBits(n, b) = n * 64 + (b - 128)
         /\ NextBits(n, b) \div 64 = n /\ Low(NextBits(n, b)) = b
  <1>1. PICK d : d = b - 128
    OBVIOUS
  <1>2. d \in 0..63 /\ b % 64 = d /\ b = 128 + d
    BY <1>1, ContinuationBits DEF ByteSet
  <1>3. NextBits(n, b) = n * 64 + d
    BY <1>2 DEF NextBits
  <1>4. (n * 64 + d) \div 64 = n /\ (n * 64 + d) % 64 = d
    BY <1>2, SixBits
  <1>5. QED
    BY <1>1, <1>2, <1>3, <1>4 DEF Low

LEMMA FirstBitsIs ==
  ASSUME NEW b, b \in 192..247
  PROVE  /\ b \in 192..223 => FirstBits(b) = b - 192
         /\ b \in 224..239 => FirstBits(b) = b - 224
         /\ b \in 240..247 => FirstBits(b) = b - 240
  <1>1. CASE b \in 192..223
    <2>1. FirstBits(b) = b % 32
      BY <1>1 DEF FirstBits
    <2>2. QED
      BY <1>1, <2>1
  <1>2. CASE b \in 224..239
    <2>1. FirstBits(b) = b % 16
      BY <1>2 DEF FirstBits
    <2>2. QED
      BY <1>2, <2>1
  <1>3. CASE b \in 240..247
    <2>1. FirstBits(b) = b % 8
      BY <1>3 DEF FirstBits
    <2>2. QED
      BY <1>3, <2>1
  <1>4. QED
    BY <1>1, <1>2, <1>3

(* The places of a number's bytes. *)
LEMMA Places ==
  ASSUME NEW n, n \in Nat
  PROVE  /\ (n \div 64) \div 64 = n \div 4096
         /\ (n \div 4096) \div 64 = n \div 262144
         /\ n \div 64 \in Nat /\ n \div 4096 \in Nat /\ n \div 262144 \in Nat
  OBVIOUS

LEMMA EncodedIs ==
  ASSUME NEW c, c \in Nat
  PROVE  /\ c < 128 => Encoded(c) = <<c>>
         /\ c >= 128 /\ c < 2048 => Encoded(c) = TwoBytes(c)
         /\ c >= 2048 /\ c < 65536 => Encoded(c) = ThreeBytes(c)
         /\ c >= 65536 => Encoded(c) = FourBytes(c)
  BY DEF Encoded

Size(c) == IF c < 128 THEN 1 ELSE IF c < 2048 THEN 2 ELSE IF c < 65536 THEN 3 ELSE 4

LEMMA EncodedSize ==
  ASSUME NEW c, c \in Nat
  PROVE  Len(Encoded(c)) = Size(c)
  <1>1. /\ Len(<<c>>) = 1 /\ Len(TwoBytes(c)) = 2
        /\ Len(ThreeBytes(c)) = 3 /\ Len(FourBytes(c)) = 4
    BY DEF TwoBytes, ThreeBytes, FourBytes
  <1>2. CASE c < 128
    <2>1. Encoded(c) = <<c>> /\ Size(c) = 1
      BY <1>2, EncodedIs DEF Size
    <2>2. QED
      BY <1>1, <2>1
  <1>3. CASE c >= 128 /\ c < 2048
    <2>1. Encoded(c) = TwoBytes(c) /\ Size(c) = 2
      BY <1>3, EncodedIs DEF Size
    <2>2. QED
      BY <1>1, <2>1
  <1>4. CASE c >= 2048 /\ c < 65536
    <2>1. Encoded(c) = ThreeBytes(c) /\ Size(c) = 3
      BY <1>4, EncodedIs DEF Size
    <2>2. QED
      BY <1>1, <2>1
  <1>5. CASE c >= 65536
    <2>1. Encoded(c) = FourBytes(c) /\ Size(c) = 4
      BY <1>5, EncodedIs DEF Size
    <2>2. QED
      BY <1>1, <2>1
  <1>6. QED
    BY <1>2, <1>3, <1>4, <1>5

LEMMA OtherSize ==
  ASSUME NEW c, c \in Nat, NEW s, NEW n, Len(s) = n, Size(c) # n
  PROVE  Encoded(c) # s
  BY EncodedSize, Zenon

LEMMA TwoBytesAre ==
  ASSUME NEW c, NEW x, NEW y, 192 + (c \div 64) = x, Low(c) = y
  PROVE  TwoBytes(c) = <<x, y>>
  BY DEF TwoBytes

LEMMA ThreeBytesAre ==
  ASSUME NEW c, NEW x, NEW y, NEW z,
         224 + (c \div 4096) = x, Low(c \div 64) = y, Low(c) = z
  PROVE  ThreeBytes(c) = <<x, y, z>>
  BY DEF ThreeBytes

LEMMA FourBytesAre ==
  ASSUME NEW c, NEW x, NEW y, NEW z, NEW w, 240 + (c \div 262144) = x,
         Low(c \div 4096) = y, Low(c \div 64) = z, Low(c) = w
  PROVE  FourBytes(c) = <<x, y, z, w>>
  BY DEF FourBytes

LEMMA AsTuple ==
  ASSUME NEW T, NEW t, t \in Seq(T)
  PROVE  /\ Len(t) = 2 => t = <<t[1], t[2]>>
         /\ Len(t) = 3 => t = <<t[1], t[2], t[3]>>
         /\ Len(t) = 4 => t = <<t[1], t[2], t[3], t[4]>>
  OBVIOUS

(* A number is encoded in the bytes it came from if it needs them all. *)
Recovered(t, minimum) ==
  Number(t) \in Nat /\ (Encoded(Number(t)) = t <=> Number(t) >= minimum)

LEMMA EncodedTwo ==
  ASSUME NEW t, t \in Seq(ByteSet), Len(t) = 2, t[1] \in 192..223, IsContinuation(t[2])
  PROVE  Recovered(t, 128)
  <1>1. PICK x, y : x = t[1] /\ y = t[2]
    OBVIOUS
  <1>2. x \in 192..223 /\ y \in ByteSet /\ IsContinuation(y) /\ t = <<x, y>>
    BY <1>1, AsTuple
  <1>3. PICK n, c : n = FirstBits(x) /\ c = NextBits(n, y)
    OBVIOUS
  <1>4. c = Number(t)
    BY <1>1, <1>3 DEF Number
  <1>5. n \in Nat /\ n <= 31 /\ x = 192 + n
    BY <1>2, <1>3, FirstBitsIs
  <1>6. c \in Nat /\ c = n * 64 + (y - 128) /\ c \div 64 = n /\ Low(c) = y
    BY <1>2, <1>3, <1>5, NextBitsIs
  <1>7. c < 2048
    BY <1>2, <1>5, <1>6 DEF IsContinuation
  <1>8. ASSUME c < 128 PROVE Encoded(c) # t
    <2>1. Size(c) # 2
      BY <1>6, <1>8 DEF Size
    <2>2. QED
      BY <1>6, <2>1, OtherSize
  <1>9. ASSUME c >= 128 PROVE Encoded(c) = t
    <2>1. Encoded(c) = TwoBytes(c)
      BY <1>6, <1>7, <1>9, EncodedIs
    <2>2. TwoBytes(c) = <<x, y>>
      BY <1>5, <1>6, TwoBytesAre
    <2>3. QED
      BY <1>2, <2>1, <2>2
  <1>10. c \in Nat /\ (Encoded(c) = t <=> c >= 128)
    BY <1>6, <1>8, <1>9
  <1>11. QED
    BY <1>4, <1>10 DEF Recovered

LEMMA EncodedThree ==
  ASSUME NEW t, t \in Seq(ByteSet), Len(t) = 3, t[1] \in 224..239,
         IsContinuation(t[2]), IsContinuation(t[3])
  PROVE  Recovered(t, 2048)
  <1>1. PICK x, y, z : x = t[1] /\ y = t[2] /\ z = t[3]
    OBVIOUS
  <1>2. /\ x \in 224..239 /\ y \in ByteSet /\ IsContinuation(y)
        /\ z \in ByteSet /\ IsContinuation(z) /\ t = <<x, y, z>>
    BY <1>1, AsTuple
  <1>3. PICK n, m, c : n = FirstBits(x) /\ m = NextBits(n, y) /\ c = NextBits(m, z)
    OBVIOUS
  <1>4. c = Number(t)
    BY <1>1, <1>3 DEF Number
  <1>5. n \in Nat /\ n <= 15 /\ x = 224 + n
    BY <1>2, <1>3, FirstBitsIs
  <1>6. m \in Nat /\ m = n * 64 + (y - 128) /\ m \div 64 = n /\ Low(m) = y
    BY <1>2, <1>3, <1>5, NextBitsIs
  <1>7. c \in Nat /\ c = m * 64 + (z - 128) /\ c \div 64 = m /\ Low(c) = z
    BY <1>2, <1>3, <1>6, NextBitsIs
  <1>8. c < 65536
    BY <1>2, <1>5, <1>6, <1>7 DEF IsContinuation
  <1>9. c \div 4096 = n
    <2>1. (c \div 64) \div 64 = c \div 4096
      BY <1>7, Places
    <2>2. QED
      BY <1>6, <1>7, <2>1
  <1>10. ASSUME c < 2048 PROVE Encoded(c) # t
    <2>1. Size(c) # 3
      BY <1>7, <1>10 DEF Size
    <2>2. QED
      BY <1>7, <2>1, OtherSize
  <1>11. ASSUME c >= 2048 PROVE Encoded(c) = t
    <2>1. Encoded(c) = ThreeBytes(c)
      BY <1>7, <1>8, <1>11, EncodedIs
    <2>2. ThreeBytes(c) = <<x, y, z>>
      BY <1>5, <1>6, <1>7, <1>9, ThreeBytesAre
    <2>3. QED
      BY <1>2, <2>1, <2>2
  <1>12. c \in Nat /\ (Encoded(c) = t <=> c >= 2048)
    BY <1>7, <1>10, <1>11
  <1>13. QED
    BY <1>4, <1>12 DEF Recovered

LEMMA EncodedFour ==
  ASSUME NEW t, t \in Seq(ByteSet), Len(t) = 4, t[1] \in 240..247,
         IsContinuation(t[2]), IsContinuation(t[3]), IsContinuation(t[4])
  PROVE  Recovered(t, 65536)
  <1>1. PICK x, y, z, w : x = t[1] /\ y = t[2] /\ z = t[3] /\ w = t[4]
    OBVIOUS
  <1>2. /\ x \in 240..247 /\ y \in ByteSet /\ IsContinuation(y)
        /\ z \in ByteSet /\ IsContinuation(z) /\ w \in ByteSet /\ IsContinuation(w)
        /\ t = <<x, y, z, w>>
    BY <1>1, AsTuple
  <1>3. PICK n, m, l, c : /\ n = FirstBits(x) /\ m = NextBits(n, y)
                          /\ l = NextBits(m, z) /\ c = NextBits(l, w)
    OBVIOUS
  <1>4. c = Number(t)
    BY <1>1, <1>3 DEF Number
  <1>5. n \in Nat /\ x = 240 + n
    BY <1>2, <1>3, FirstBitsIs
  <1>6. m \in Nat /\ m \div 64 = n /\ Low(m) = y
    BY <1>2, <1>3, <1>5, NextBitsIs
  <1>7. l \in Nat /\ l \div 64 = m /\ Low(l) = z
    BY <1>2, <1>3, <1>6, NextBitsIs
  <1>8. c \in Nat /\ c \div 64 = l /\ Low(c) = w
    BY <1>2, <1>3, <1>7, NextBitsIs
  <1>9. c \div 4096 = m /\ c \div 262144 = n
    <2>1. (c \div 64) \div 64 = c \div 4096 /\ (c \div 4096) \div 64 = c \div 262144
      BY <1>8, Places
    <2>2. c \div 4096 = m
      BY <1>7, <1>8, <2>1
    <2>3. QED
      BY <1>6, <2>1, <2>2
  <1>10. ASSUME c < 65536 PROVE Encoded(c) # t
    <2>1. Size(c) # 4
      BY <1>8, <1>10 DEF Size
    <2>2. QED
      BY <1>8, <2>1, OtherSize
  <1>11. ASSUME c >= 65536 PROVE Encoded(c) = t
    <2>1. Encoded(c) = FourBytes(c)
      BY <1>8, <1>11, EncodedIs
    <2>2. FourBytes(c) = <<x, y, z, w>>
      BY <1>5, <1>6, <1>7, <1>8, <1>9, FourBytesAre
    <2>3. QED
      BY <1>2, <2>1, <2>2
  <1>12. c \in Nat /\ (Encoded(c) = t <=> c >= 65536)
    BY <1>8, <1>10, <1>11
  <1>13. QED
    BY <1>4, <1>12 DEF Recovered

(* The last byte of a character: its number, and whether it needed them all. *)
LEMMA LastByte ==
  ASSUME NEW t, t \in Seq(ByteSet), t[1] \in 192..247, LengthFor(t[1]) = Len(t),
         \A i \in 2..Len(t) : IsContinuation(t[i])
  PROVE  Recovered(t, MinimumFor(Len(t)))
  <1>1. PICK x, n : x = t[1] /\ n = Len(t)
    OBVIOUS
  <1>2. x \in 192..247 /\ x \in ByteSet /\ LengthFor(x) = n
    BY <1>1 DEF ByteSet
  <1>3. n \in 0..4 /\ n \notin {0, 1}
    BY <1>2, LengthForIs
  <1>4. CASE n = 2
    <2>1. Len(t) = 2
      BY <1>1, <1>4
    <2>2. IsContinuation(t[2])
      BY <2>1
    <2>3. t[1] \in 192..223
      BY <1>1, <1>2, <1>4, LengthForIs
    <2>4. Recovered(t, 128)
      BY <2>1, <2>2, <2>3, EncodedTwo
    <2>5. MinimumFor(Len(t)) = 128
      BY <2>1 DEF MinimumFor
    <2>6. QED
      BY <2>4, <2>5, SMT
  <1>5. CASE n = 3
    <2>1. Len(t) = 3
      BY <1>1, <1>5
    <2>2. IsContinuation(t[2]) /\ IsContinuation(t[3])
      BY <2>1
    <2>3. t[1] \in 224..239
      BY <1>1, <1>2, <1>5, LengthForIs
    <2>4. Recovered(t, 2048)
      BY <2>1, <2>2, <2>3, EncodedThree
    <2>5. MinimumFor(Len(t)) = 2048
      BY <2>1 DEF MinimumFor
    <2>6. QED
      BY <2>4, <2>5, SMT
  <1>6. CASE n = 4
    <2>1. Len(t) = 4
      BY <1>1, <1>6
    <2>2. IsContinuation(t[2]) /\ IsContinuation(t[3]) /\ IsContinuation(t[4])
      BY <2>1
    <2>3. t[1] \in 240..247
      BY <1>1, <1>2, <1>6, LengthForIs
    <2>4. Recovered(t, 65536)
      BY <2>1, <2>2, <2>3, EncodedFour
    <2>5. MinimumFor(Len(t)) = 65536
      BY <2>1 DEF MinimumFor
    <2>6. QED
      BY <2>4, <2>5, SMT
  <1>7. QED
    BY <1>3, <1>4, <1>5, <1>6

(* What the calls of print say. *)
Codes(out) == [i \in 1..Len(out) |-> out[i].codePoint]

LEMMA CodesAre ==
  ASSUME NEW c, NEW d
  PROVE  /\ Codes(<<>>) = <<>> /\ Codes(<<Shows(c)>>) = <<c>>
         /\ Codes(<<Shows(c), Shows(d)>>) = <<c, d>>
  <1>1. PICK e, f : e = Shows(c) /\ f = Shows(d)
    OBVIOUS
  <1>2. e.codePoint = c /\ f.codePoint = d
    BY <1>1 DEF Shows
  <1>3. Codes(<<>>) = <<>>
    BY DEF Codes
  <1>4. Codes(<<e>>) = <<c>>
    <2>1. PICK s : s = <<e>>
      OBVIOUS
    <2>2. Len(s) = 1 /\ s[1] = e
      BY <2>1
    <2>3. Codes(s) = [i \in 1..1 |-> s[i].codePoint]
      BY <2>2 DEF Codes
    <2>4. \A i \in 1..1 : s[i].codePoint = c
      BY <1>2, <2>2
    <2>5. Codes(s) = [i \in 1..1 |-> c]
      BY <2>3, <2>4
    <2>6. <<c>> = [i \in 1..1 |-> c]
      OBVIOUS
    <2>7. QED
      BY <2>1, <2>5, <2>6
  <1>5. Codes(<<e, f>>) = <<c, d>>
    <2>1. PICK s, t : s = <<e, f>> /\ t = <<c, d>>
      OBVIOUS
    <2>2. Len(s) = 2 /\ s[1] = e /\ s[2] = f
      BY <2>1
    <2>3. t = [i \in 1..2 |-> t[i]] /\ t[1] = c /\ t[2] = d
      BY <2>1
    <2>4. \A i \in 1..2 : s[i].codePoint = t[i]
      BY <1>2, <2>2, <2>3
    <2>5. Codes(s) = [i \in 1..2 |-> s[i].codePoint]
      BY <2>2 DEF Codes
    <2>6. QED
      BY <2>1, <2>3, <2>4, <2>5
  <1>6. QED
    BY <1>1, <1>3, <1>4, <1>5

LEMMA TwoJoined ==
  ASSUME NEW c, NEW d
  PROVE  <<c>> \o <<d>> = <<c, d>>
  <1> DEFINE S == {c, d}
             s == <<c>> \o <<d>>
             t == <<c, d>>
  <1>1. <<c>> \in Seq(S) /\ <<d>> \in Seq(S) /\ t \in Seq(S)
    OBVIOUS
  <1>2. Len(<<c>>) = 1 /\ Len(<<d>>) = 1 /\ <<c>>[1] = c /\ <<d>>[1] = d
    OBVIOUS
  <1>3. PICK x, y : x = <<c>> /\ y = <<d>>
    OBVIOUS
  <1>4. s \in Seq(S) /\ Len(s) = 2 /\ s[1] = c /\ s[2] = d
    <2> HIDE DEF S
    <2>1. x \in Seq(S) /\ y \in Seq(S) /\ Len(x) = 1 /\ Len(y) = 1 /\ x[1] = c /\ y[1] = d
      BY <1>1, <1>2, <1>3
    <2>2. /\ x \o y \in Seq(S)
          /\ Len(x \o y) = Len(x) + Len(y)
          /\ \A i \in 1..Len(x) + Len(y) :
               (x \o y)[i] = IF i <= Len(x) THEN x[i] ELSE y[i - Len(x)]
      BY <2>1, ConcatProperties
    <2>3. QED
      BY <1>3, <2>1, <2>2
  <1>5. Len(t) = 2 /\ t[1] = c /\ t[2] = d
    OBVIOUS
  <1>6. s = t
    <2> HIDE DEF s, t, S
    <2>1. QED
      BY <1>1, <1>4, <1>5
  <1>7. QED
    BY <1>6

First(b) == IF LengthFor(b) = 1 THEN <<b>>
            ELSE IF LengthFor(b) = 0 THEN <<Replacement>> ELSE <<>>

LEMMA BegunCodes ==
  ASSUME NEW r, NEW b, NEW q, Begins(r, b, q)
  PROVE  /\ r.out = <<>> => Codes(q.out) = First(b)
         /\ \A c : r.out = <<Shows(c)>> => Codes(q.out) = <<c>> \o First(b)
  <1>1. PICK d : d = IF LengthFor(b) = 1 THEN b ELSE Replacement
    OBVIOUS
  <1>2. CASE LengthFor(b) \in {0, 1}
    <2>1. q.out = Append(r.out, Shows(d)) /\ First(b) = <<d>>
      BY <1>1, <1>2 DEF Begins, First
    <2>2. CASE r.out = <<>>
      <3>1. Append(<<>>, Shows(d)) = <<Shows(d)>>
        BY Appended
      <3>2. r.out # <<Shows(d)>> /\ \A c : r.out # <<Shows(c)>>
        BY <2>2
      <3>3. QED
        BY <2>1, <2>2, <3>1, <3>2, CodesAre
    <2>3. ASSUME NEW c, r.out = <<Shows(c)>>
          PROVE  Codes(q.out) = <<c>> \o First(b)
      <3>1. Append(<<Shows(c)>>, Shows(d)) = <<Shows(c), Shows(d)>>
        BY Appended
      <3>2. Codes(q.out) = <<c, d>>
        BY <2>1, <2>3, <3>1, CodesAre
      <3>3. <<c>> \o <<d>> = <<c, d>>
        BY TwoJoined
      <3>4. QED
        BY <2>1, <3>2, <3>3
    <2>4. QED
      BY <2>2, <2>3
  <1>3. CASE LengthFor(b) \notin {0, 1}
    <2>1. q.out = r.out /\ First(b) = <<>>
      BY <1>3 DEF Begins, First
    <2>2. \A c : <<c>> \o <<>> = <<c>>
      OBVIOUS
    <2>3. QED
      BY <2>1, <2>2, CodesAre
  <1>4. QED
    BY <1>2, <1>3

(* What is printed for a character that is complete. *)
Spelled(t) == IF Encoded(Number(t)) = t /\ Number(t) <= 1114111 /\ ~IsSurrogate(Number(t))
              THEN <<Number(t)>> ELSE <<Replacement>>

(* What a byte means after those before it. *)
LEMMA BeginningMeans ==
  ASSUME NEW b, b \in ByteSet
  PROVE  Meaning(Append(<<>>, b)) = First(b)
  <1>1. PICK t : t = Append(<<>>, b)
    OBVIOUS
  <1>2. Len(t) = 1 /\ t[1] = b
    BY <1>1
  <1>3. Meaning(t) = First(b)
    BY <1>2, SMT DEF Meaning, First
  <1>4. QED
    BY <1>1, <1>3

LEMMA BreakMeans ==
  ASSUME NEW u, u \in Seq(ByteSet), u # <<>>, NEW b, b \in ByteSet, ~IsContinuation(b)
  PROVE  Meaning(Append(u, b)) = <<Replacement>> \o First(b)
  <1>1. PICK t, m : t = Append(u, b) /\ m = Len(t)
    OBVIOUS
  <1>2. m > 1 /\ t[m] = b
    BY <1>1, AppendIs
  <1>3. Meaning(t) = <<Replacement>> \o First(b)
    BY <1>1, <1>2, SMT DEF Meaning, First, Spelled
  <1>4. QED
    BY <1>1, <1>3

LEMMA LaterMeans ==
  ASSUME NEW u, u \in Seq(ByteSet), u # <<>>, NEW b, b \in ByteSet, IsContinuation(b),
         NEW t, t = Append(u, b)
  PROVE  Meaning(t) = IF Len(t) < LengthFor(t[1]) THEN <<>> ELSE Spelled(t)
  <1>1. PICK m : m = Len(t)
    OBVIOUS
  <1>2. m > 1 /\ t[m] = b
    BY <1>1, AppendIs
  <1>3. QED
    BY <1>1, <1>2, SMT DEF Meaning, First, Spelled

LEMMA BegunMeans ==
  ASSUME NEW p, p.out = <<>>, p.remaining = 0, NEW b, b \in ByteSet, NEW q, Decoded(p, b, q)
  PROVE  Codes(q.out) = Meaning(Append(<<>>, b))
  <1>1. Begins(p, b, q)
    BY DEF Decoded
  <1>2. Meaning(Append(<<>>, b)) = First(b)
    BY BeginningMeans
  <1>3. QED
    BY <1>1, <1>2, BegunCodes

LEMMA BrokenMeans ==
  ASSUME NEW p, p.out = <<>>, p.remaining # 0, NEW u, u \in Seq(ByteSet), u # <<>>,
         NEW b, b \in ByteSet, ~IsContinuation(b), NEW q, Decoded(p, b, q)
  PROVE  Codes(q.out) = Meaning(Append(u, b))
  <1>1. PICK r : r.out = Append(p.out, Shows(Replacement)) /\ Begins(r, b, q)
    BY DEF Decoded
  <1>2. r.out = <<Shows(Replacement)>>
    BY <1>1, Appended
  <1>3. Codes(q.out) = <<Replacement>> \o First(b)
    BY <1>1, <1>2, BegunCodes
  <1>4. Meaning(Append(u, b)) = <<Replacement>> \o First(b)
    BY BreakMeans
  <1>5. QED
    BY <1>3, <1>4

LEMMA ContinuedMeans ==
  ASSUME NEW p, InRange(p), p.remaining # 0, NEW u, u \in Seq(ByteSet), CharacterKept(p, u),
         NEW r, r.out = <<>>, SameCharacter(p, r),
         NEW b, b \in ByteSet, IsContinuation(b), NEW q, Decoded(r, b, q)
  PROVE  Codes(q.out) = Meaning(Append(u, b))
  <1>1. /\ u # <<>> /\ u[1] \in 192..247 /\ LengthFor(u[1]) \in 2..4
        /\ \A i \in 2..Len(u) : IsContinuation(u[i])
        /\ p.remaining = LengthFor(u[1]) - Len(u) /\ p.remaining \in 1..3 /\ Len(u) \in 1..3
        /\ p.minimum = MinimumFor(LengthFor(u[1])) /\ p.codePoint = Partial(u)
    BY KeptIs
  <1>2. PICK t : t = Append(u, b)
    OBVIOUS
  <1>3. t \in Seq(ByteSet) /\ Len(t) = Len(u) + 1 /\ t[Len(u) + 1] = b
        /\ \A i \in 1..Len(u) : t[i] = u[i]
    BY <1>2, AppendIs
  <1>4. t[1] = u[1] /\ \A i \in 2..Len(t) : IsContinuation(t[i])
    BY <1>1, <1>3
  <1>5. Prolongs(r, b, q) /\ r.remaining = p.remaining /\ r.codePoint = p.codePoint
    <2>1. r.remaining # 0 /\ r.remaining = p.remaining /\ r.codePoint = p.codePoint
      BY DEF SameCharacter
    <2>2. QED
      BY <2>1 DEF Decoded
  <1>6. CASE p.remaining > 1
    <2>1. q.out = <<>>
      BY <1>5, <1>6 DEF Prolongs
    <2>2. Len(t) < LengthFor(t[1])
      BY <1>1, <1>3, <1>4, <1>6
    <2>3. Meaning(t) = <<>>
      BY <1>1, <1>2, <2>2, LaterMeans
    <2>4. QED
      BY <1>2, <2>1, <2>3, CodesAre
  <1>7. CASE p.remaining = 1
    <2>1. PICK c, m : c = NextBits(p.codePoint, b) /\ m = p.minimum
      OBVIOUS
    <2>2. LengthFor(t[1]) = Len(t)
      BY <1>1, <1>3, <1>4, <1>7
    <2>3. c = Number(t)
      <3>1. CASE Len(u) = 1
        <4>1. Partial(u) = FirstBits(u[1]) /\ Len(t) = 2 /\ t[2] = b
          BY <1>3, <3>1 DEF Partial
        <4>2. Number(t) = NextBits(FirstBits(t[1]), t[2])
          BY <4>1 DEF Number
        <4>3. QED
          BY <1>1, <1>4, <2>1, <4>1, <4>2
      <3>2. CASE Len(u) = 2
        <4>1. /\ Partial(u) = NextBits(FirstBits(u[1]), u[2])
              /\ Len(t) = 3 /\ t[3] = b /\ t[2] = u[2]
          BY <1>3, <3>2 DEF Partial
        <4>2. Number(t) = NextBits(NextBits(FirstBits(t[1]), t[2]), t[3])
          BY <4>1 DEF Number
        <4>3. QED
          BY <1>1, <1>4, <2>1, <4>1, <4>2
      <3>3. CASE Len(u) = 3
        <4>1. /\ Partial(u) = NextBits(NextBits(FirstBits(u[1]), u[2]), u[3])
              /\ Len(t) = 4 /\ t[4] = b /\ t[2] = u[2] /\ t[3] = u[3]
          BY <1>3, <3>3 DEF Partial
        <4>2. Number(t) = NextBits(NextBits(NextBits(FirstBits(t[1]), t[2]), t[3]), t[4])
          BY <4>1 DEF Number
        <4>3. QED
          BY <1>1, <1>4, <2>1, <4>1, <4>2
      <3>4. QED
        BY <1>1, <3>1, <3>2, <3>3
    <2>4. Recovered(t, m)
      <3>1. t[1] \in 192..247
        BY <1>1, <1>4
      <3>2. Recovered(t, MinimumFor(Len(t)))
        BY <1>3, <1>4, <2>2, <3>1, LastByte
      <3>3. MinimumFor(Len(t)) = m
        BY <1>1, <1>4, <2>1, <2>2
      <3>4. QED
        BY <3>2, <3>3
    <2>5. c \in Nat /\ (Encoded(c) = t <=> c >= m)
      BY <2>3, <2>4 DEF Recovered
    <2>6. PICK d : d = IF Acceptable(c, m) THEN c ELSE Replacement
      OBVIOUS
    <2>7. q.out = <<Shows(d)>>
      <3>1. r.minimum = m
        BY <2>1 DEF SameCharacter
      <3>2. q.out = Append(r.out, Shows(d))
        BY <1>5, <1>7, <2>1, <2>6, <3>1 DEF Prolongs
      <3>3. QED
        BY <3>2, Appended
    <2>8. Meaning(t) = Spelled(t)
      <3>1. ~(Len(t) < LengthFor(t[1]))
        BY <1>3, <2>2
      <3>2. QED
        BY <1>1, <1>2, <3>1, LaterMeans
    <2>9. Meaning(t) = <<d>>
      BY <2>3, <2>5, <2>6, <2>8, SMT DEF Acceptable, Spelled
    <2>10. QED
      BY <1>2, <2>7, <2>9, CodesAre
  <1>8. QED
    BY <1>1, <1>6, <1>7

LEMMA ReceivedMeans ==
  ASSUME ParserInv, NEW b, b \in Bytes, Receive(b), IsText(parser, b)
  PROVE  Codes(parser'.out) = Meaning(Append(unit, b))
  <1>1. PICK p, u, q : p = parser /\ u = unit /\ q = parser'
    OBVIOUS
  <1>2. InRange(p) /\ (p.terminator => p.state = "Escape")
        /\ u \in Seq(ByteSet) /\ CharacterKept(p, u) /\ IsText(p, b)
    BY <1>1 DEF ParserInv
  <1>3. b \in ByteSet /\ q = Advance(p, b)
    BY <1>1, ReceiveIs
  <1>4. Arrives(Silent(p), b, q)
    BY <1>2, <1>3, AdvanceIs
  <1>5. PICK r : r = Silent(p)
    OBVIOUS
  <1>6. r.out = <<>> /\ r.state = p.state /\ SameCharacter(p, r)
    BY <1>2, <1>5, SilentIs
  <1>7. Decoded(r, b, q)
    <2>1. IsText(r, b)
      BY <1>2, <1>6 DEF IsText
    <2>2. QED
      BY <1>4, <1>5, <2>1 DEF Arrives
  <1>8. r.remaining = p.remaining
    BY <1>6 DEF SameCharacter
  <1>9. Codes(q.out) = Meaning(Append(u, b))
    <2>1. CASE p.remaining = 0
      <3>1. u = <<>>
        BY <1>2, <2>1 DEF CharacterKept
      <3>2. Codes(q.out) = Meaning(Append(<<>>, b))
        BY <1>3, <1>6, <1>7, <1>8, <2>1, BegunMeans
      <3>3. QED
        BY <3>1, <3>2
    <2>2. CASE p.remaining # 0 /\ ~IsContinuation(b)
      <3>1. u # <<>>
        BY <1>2, <2>2 DEF CharacterKept
      <3>2. QED
        BY <1>2, <1>3, <1>6, <1>7, <1>8, <2>2, <3>1, BrokenMeans
    <2>3. CASE p.remaining # 0 /\ IsContinuation(b)
      BY <1>2, <1>3, <1>6, <1>7, <2>3, ContinuedMeans
    <2>4. QED
      BY <2>1, <2>2, <2>3
  <1>10. QED
    BY <1>1, <1>9

(* Text is decoded as UTF-8 has it: what is printed for a byte is what the   *)
(* bytes of its character mean, replacement characters included             *)
(* (VtParser.cpp:133).                                                       *)
THEOREM CharactersDecodedCorrect == ParserSpec => CharactersDecoded
  <1>1. ParserInv /\ [ParserNext]_parserVars =>
          [\A b \in Bytes :
             Receive(b) /\ IsText(parser, b) =>
               [i \in 1..Len(parser'.out) |-> parser'.out[i].codePoint]
                 = Meaning(Append(unit, b))
          ]_parserVars
    BY ReceivedMeans DEF Codes
  <1>2. QED
    BY <1>1, ParserInvHolds, PTL DEF ParserSpec, CharactersDecoded

-----------------------------------------------------------------------------
(***************************************************************************)
(* Whatever came before, the next sequence means what it says.             *)
(***************************************************************************)
LEMMA SilentKeeps ==
  ASSUME NEW p, InRange(p)
  PROVE  LET r == Silent(p)
         IN  /\ InRange(r) /\ r.out = <<>> /\ r.state = p.state
             /\ r.terminator = p.terminator /\ r.payload = p.payload
             /\ r.parameters = p.parameters
             /\ r.marker = p.marker /\ r.intermediate = p.intermediate
  <1> DEFINE r == Silent(p)
  <1>1. r.marker = p.marker /\ r.intermediate = p.intermediate
    BY DEF Silent, InRange, IsParser, Members
  <1>2. /\ InRange(r) /\ r.out = <<>> /\ r.state = p.state
        /\ r.terminator = p.terminator /\ r.payload = p.payload /\ r.parameters = p.parameters
    BY SilentIs DEF SameParameters
  <1>3. QED
    BY <1>1, <1>2

(* A byte that neither ends a sequence nor begins one is for its state. *)
HandedOver(p, b, r) ==
  /\ InRange(r) /\ r.out = <<>> /\ r.state = p.state
  /\ Advance(p, b) = InState(r, b) /\ r.terminator = FALSE
  /\ ~p.terminator => /\ r.payload = p.payload /\ r.parameters = p.parameters
                      /\ r.marker = p.marker /\ r.intermediate = p.intermediate

LEMMA ForItsState ==
  ASSUME NEW p, InRange(p), NEW b, b \in ByteSet, b \notin {92, Esc, Can, Sub}
  PROVE  \E r : HandedOver(p, b, r)
  <1> DEFINE s == Silent(p)
             m == WithMark(s, FALSE, <<>>)
  <1>1. /\ InRange(s) /\ s.out = <<>> /\ s.state = p.state
        /\ s.terminator = p.terminator /\ s.payload = p.payload
        /\ s.parameters = p.parameters
        /\ s.marker = p.marker /\ s.intermediate = p.intermediate
    BY SilentKeeps
  <1>2. Advance(p, b) = IF s.terminator THEN InState(m, b) ELSE InState(s, b)
    BY DEF Advance, Silent, WithMark
  <1> HIDE DEF s
  <1>3. CASE s.terminator
    <2>1. InRange(m) /\ m.out = s.out /\ m.state = s.state /\ m.terminator = FALSE
      <3> DEFINE text == <<>>
                 t == FALSE
      <3>1. text \in Seq(ByteSet) /\ Len(text) <= MaxPayload /\ t \in BOOLEAN
        BY ParserAssumption
      <3>2. m = WithMark(s, t, text)
        OBVIOUS
      <3> HIDE DEF text, t, m
      <3>3. /\ InRange(m) /\ m.out = s.out /\ m.state = s.state /\ m.terminator = t
        BY <1>1, <3>1, <3>2, WithMarkIs
      <3>4. QED
        BY <3>3 DEF t
    <2> HIDE DEF m
    <2>2. QED
      BY <1>1, <1>2, <1>3, <2>1 DEF HandedOver
  <1>4. CASE ~s.terminator
    <2>1. s.terminator = FALSE
      BY <1>1, <1>4 DEF InRange
    <2>2. QED
      BY <1>1, <1>2, <1>4, <2>1 DEF HandedOver
  <1>5. QED
    BY <1>3, <1>4

LEMMA CsiIntroduced ==
  ASSUME NEW p, InRange(p), p.state = "Escape"
  PROVE  LET q == Advance(p, 91)
         IN  /\ InRange(q) /\ q.state = "CsiEntry" /\ q.out = <<>> /\ q.terminator = FALSE
             /\ q.parameters = <<>> /\ q.marker = None /\ q.intermediate = None
  <1>1. PICK r : /\ InRange(r) /\ r.out = <<>> /\ r.state = "Escape"
                 /\ Advance(p, 91) = InState(r, 91) /\ r.terminator = FALSE
    <2>1. 91 \in ByteSet /\ 91 \notin {92, Esc, Can, Sub}
      BY DEF ByteSet, Esc, Can, Sub
    <2>2. PICK r : HandedOver(p, 91, r)
      BY <2>1, ForItsState
    <2>3. QED
      BY <2>2 DEF HandedOver
  <1> DEFINE c == ClearSequence(r)
             q == Enter(c, "CsiEntry")
  <1>2. InState(r, 91) = q
    BY <1>1 DEF InState, InEscape, IsC0, IsIntermediate
  <1>3. /\ InRange(c) /\ c.parameters = <<>> /\ c.marker = None /\ c.intermediate = None
        /\ c.out = <<>> /\ c.terminator = FALSE
    BY <1>1, ClearSequenceIs
  <1> HIDE DEF c
  <1>4. /\ q.out = <<>> /\ q.state = "CsiEntry" /\ q.parameters = <<>> /\ q.marker = None
        /\ q.intermediate = None /\ q.terminator = FALSE
    BY <1>3, EnterIs DEF InRange, SameParameters
  <1>5. InRange(q)
    BY <1>3, CallKeeps DEF States, Strings
  <1> HIDE DEF q
  <1>6. QED
    BY <1>1, <1>2, <1>4, <1>5

LEMMA CsiEnded ==
  ASSUME NEW p, InRange(p), p.state = "CsiEntry", p.terminator = FALSE,
         p.parameters = <<>>, p.marker = None, p.intermediate = None
  PROVE  Advance(p, 109).out =
           <<[call |-> "csi", parameters |-> <<>>, marker |-> None,
              intermediate |-> None, final |-> 109]>>
  <1>1. PICK r : /\ InRange(r) /\ r.out = <<>> /\ r.state = "CsiEntry"
                 /\ Advance(p, 109) = InState(r, 109) /\ r.parameters = <<>>
                 /\ r.marker = None /\ r.intermediate = None
    <2>1. 109 \in ByteSet /\ 109 \notin {92, Esc, Can, Sub}
      BY DEF ByteSet, Esc, Can, Sub
    <2>2. PICK r : HandedOver(p, 109, r)
      BY <2>1, ForItsState
    <2>3. QED
      BY <2>2 DEF HandedOver
  <1> DEFINE e == Sequence(r, "csi", 109)
  <1>2. InState(r, 109) = CsiDispatch(r, 109)
    BY <1>1 DEF InState, InCsiEntry, IsC0, IsMarker, IsParameter, IsIntermediate, IsFinal
  <1>3. e = [call |-> "csi", parameters |-> <<>>, marker |-> None,
             intermediate |-> None, final |-> 109]
    BY <1>1 DEF Sequence
  <1>4. CsiDispatch(r, 109) = Enter(Call(r, e), "Ground")
    BY DEF CsiDispatch
  <1> HIDE DEF e
  <1>5. CsiDispatch(r, 109).out = <<e>>
    BY <1>1, <1>4, CallIs, EnterIs DEF InRange
  <1>6. QED
    BY <1>1, <1>2, <1>3, <1>5

LEMMA OscIntroduced ==
  ASSUME NEW p, InRange(p), p.state = "Escape"
  PROVE  LET q == Advance(p, 93)
         IN  /\ InRange(q) /\ q.state = "OscString" /\ q.out = <<>> /\ q.terminator = FALSE
             /\ q.payload = <<>>
  <1>1. PICK r : /\ InRange(r) /\ r.out = <<>> /\ r.state = "Escape"
                 /\ Advance(p, 93) = InState(r, 93) /\ r.terminator = FALSE
    <2>1. 93 \in ByteSet /\ 93 \notin {92, Esc, Can, Sub}
      BY DEF ByteSet, Esc, Can, Sub
    <2>2. PICK r : HandedOver(p, 93, r)
      BY <2>1, ForItsState
    <2>3. QED
      BY <2>2 DEF HandedOver
  <1> DEFINE c == [r EXCEPT !.payload = <<>>]
             q == Enter(c, "OscString")
  <1>2. InState(r, 93) = q
    BY <1>1 DEF InState, InEscape, IsC0, IsIntermediate
  <1>3. InRange(c) /\ c.payload = <<>> /\ c.out = <<>> /\ c.terminator = FALSE
    <2>1. <<>> \in Seq(ByteSet) /\ Len(<<>>) <= MaxPayload
      BY ParserAssumption
    <2>2. QED
      BY <1>1, <2>1, NoPayloadIs
  <1> HIDE DEF c
  <1>4. q.out = <<>> /\ q.state = "OscString" /\ q.payload = <<>> /\ q.terminator = FALSE
    BY <1>3, EnterIs DEF InRange
  <1>5. InRange(q)
    BY <1>3, CallKeeps DEF States, Strings
  <1> HIDE DEF q
  <1>6. QED
    BY <1>1, <1>2, <1>4, <1>5

LEMMA OscContinued ==
  ASSUME NEW p, InRange(p), p.state = "OscString", p.terminator = FALSE, p.payload = <<>>
  PROVE  LET q == Advance(p, 97)
         IN  /\ InRange(q) /\ q.state = "OscString" /\ q.out = <<>> /\ q.terminator = FALSE
             /\ q.payload = <<97>>
  <1>1. PICK r : /\ InRange(r) /\ r.out = <<>> /\ r.state = "OscString"
                 /\ Advance(p, 97) = InState(r, 97) /\ r.payload = <<>> /\ r.terminator = FALSE
    <2>1. 97 \in ByteSet /\ 97 \notin {92, Esc, Can, Sub}
      BY DEF ByteSet, Esc, Can, Sub
    <2>2. PICK r : HandedOver(p, 97, r)
      BY <2>1, ForItsState
    <2>3. QED
      BY <2>2 DEF HandedOver
  <1> DEFINE text == <<97>>
             q == [r EXCEPT !.payload = text]
  <1>2. InState(r, 97) = q
    <2>1. Append(r.payload, 97) = text
      BY <1>1
    <2>2. Len(r.payload) < MaxPayload
      BY <1>1, ParserAssumption
    <2>3. InState(r, 97) = InOscString(r, 97)
      BY <1>1 DEF InState
    <2>4. InOscString(r, 97) = [r EXCEPT !.payload = Append(r.payload, 97)]
      BY <2>2 DEF InOscString, Bel, St
    <2>5. QED
      BY <2>1, <2>3, <2>4
  <1>3. text \in Seq(ByteSet) /\ Len(text) <= MaxPayload
    BY ParserAssumption DEF ByteSet
  <1>4. /\ InRange(q) /\ q.payload = text /\ q.state = "OscString" /\ q.out = <<>>
        /\ q.terminator = FALSE
    <2> HIDE DEF text
    <2>1. QED
      BY <1>1, <1>3, NoPayloadIs
  <1> HIDE DEF q
  <1>5. QED
    BY <1>1, <1>2, <1>4

LEMMA OscEnded ==
  ASSUME NEW text, NEW p, InRange(p), p.state = "OscString", p.terminator = FALSE,
         p.payload = text
  PROVE  Advance(p, Bel).out = <<[call |-> "osc", payload |-> text]>>
  <1>1. PICK r : /\ InRange(r) /\ r.out = <<>> /\ r.state = "OscString"
                 /\ Advance(p, Bel) = InState(r, Bel) /\ r.payload = text
    <2>1. Bel \in ByteSet /\ Bel \notin {92, Esc, Can, Sub}
      BY DEF ByteSet, Esc, Can, Sub, Bel
    <2>2. PICK r : HandedOver(p, Bel, r)
      BY <2>1, ForItsState
    <2>3. QED
      BY <2>2 DEF HandedOver
  <1>2. InState(r, Bel) = OscDispatch(r)
    BY <1>1 DEF InState, InOscString
  <1>3. OscDispatch(r).out = <<[call |-> "osc", payload |-> r.payload]>>
    BY <1>1, OscDispatchIs
  <1>4. QED
    BY <1>1, <1>2, <1>3

(* Whatever the shell has sent, ESC begins a sequence of its own, with none   *)
(* of the parameters, markers or text of what it interrupts (VtParser.cpp:181). *)
THEOREM AnyStateResyncsCorrect == ParserSpec => []AnyStateResyncs
  <1>1. ParserInv => AnyStateResyncs
    <2> SUFFICES ASSUME ParserInv PROVE AnyStateResyncs
      OBVIOUS
    <2>1. PICK p : p = parser
      OBVIOUS
    <2>2. InRange(p)
      BY <2>1 DEF ParserInv
    <2> DEFINE esc  == Advance(p, Esc)
               csi  == Advance(esc, 91)
               osc  == Advance(esc, 93)
               text == Advance(osc, 97)
    <2>3. /\ InRange(esc) /\ esc.state = "Escape"
          /\ esc.out = <<>> \/ esc.out = <<[call |-> "unhook"]>>
      <3>1. InRange(Silent(p)) /\ Silent(p).out = <<>>
        BY <2>2, SilentKeeps
      <3>2. esc = OnEscape(Silent(p))
        BY DEF Advance, Silent, Esc, Can, Sub
      <3>3. QED
        BY <3>1, <3>2, OnEscapeIs
    <2>4. \A i \in 1..Len(esc.out) : esc.out[i].call = "unhook"
      <3> DEFINE e == [call |-> "unhook"]
      <3>1. PICK out : out = esc.out
        OBVIOUS
      <3>2. e.call = "unhook" /\ (out = <<>> \/ out = <<e>>)
        BY <2>3, <3>1
      <3> HIDE DEF e
      <3>3. \A i \in 1..Len(out) : out[i].call = "unhook"
        BY <3>2
      <3>4. QED
        BY <3>1, <3>3
    <2> HIDE DEF esc
    <2>5. /\ InRange(csi) /\ csi.state = "CsiEntry" /\ csi.out = <<>> /\ csi.terminator = FALSE
          /\ csi.parameters = <<>> /\ csi.marker = None /\ csi.intermediate = None
      BY <2>3, CsiIntroduced
    <2>6. /\ InRange(osc) /\ osc.state = "OscString" /\ osc.out = <<>> /\ osc.terminator = FALSE
          /\ osc.payload = <<>>
      BY <2>3, OscIntroduced
    <2> HIDE DEF csi, osc
    <2>7. Advance(csi, 109).out =
            <<[call |-> "csi", parameters |-> <<>>, marker |-> None,
               intermediate |-> None, final |-> 109]>>
      BY <2>5, CsiEnded
    <2>8. /\ InRange(text) /\ text.state = "OscString" /\ text.out = <<>>
          /\ text.terminator = FALSE /\ text.payload = <<97>>
      BY <2>6, OscContinued
    <2> HIDE DEF text
    <2>9. Advance(text, Bel).out = <<[call |-> "osc", payload |-> <<97>>]>>
      BY <2>8, OscEnded
    <2>10. QED
      BY <2>1, <2>4, <2>5, <2>6, <2>7, <2>8, <2>9 DEF AnyStateResyncs, esc, csi, osc, text
  <1>2. QED
    BY <1>1, ParserInvHolds, PTL
=============================================================================
