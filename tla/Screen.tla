------------------------------- MODULE Screen -------------------------------
(***************************************************************************)
(* term::Screen, the character grid of one terminal buffer, as operators   *)
(* on a record: a Terminal owns two of them.  Each takes the screen before *)
(* a call and gives the one after it.                                      *)
(*                                                                         *)
(* A cell is told by what its flags say of width: blank, a glyph of one    *)
(* column, or the lead or the trail of a glyph of two.  Rows and columns   *)
(* are numbered from 0 as in the code.  Colours and renditions, and the    *)
(* revision counter, which the painter stores and never compares, are left *)
(* out.                                                                    *)
(***************************************************************************)
EXTENDS Integers, Sequences

CONSTANT TabWidth  \* kTabWidth

ASSUME TabAssumption == TabWidth \in Nat \ {0}

Cells == {"blank", "narrow", "lead", "trail"}

Least(a, b) == IF a <= b THEN a ELSE b

Clamp(x, low, high) == IF x < low THEN low ELSE IF x > high THEN high ELSE x

LastColumn(s) == s.columns - 1

LastRow(s) == s.rows - 1

BlankLine(columns) == [c \in 0..(columns - 1) |-> "blank"]

DefaultTabs(columns) ==
  {c \in 1..(columns - 1) : c % TabWidth = 0}

NewScreen(columns, rows, limit) ==
  [columns |-> columns, rows |-> rows, limit |-> limit,
   lines   |-> [r \in 0..(rows - 1) |-> BlankLine(columns)],
   wrapped |-> [r \in 0..(rows - 1) |-> FALSE],
   tabs    |-> DefaultTabs(columns),
   history |-> <<>>,
   row |-> 0, column |-> 0, pendingWrap |-> FALSE,
   top |-> 0, bottom |-> rows - 1]

-----------------------------------------------------------------------------
(* Vectors.  What the code does with erase and insert in a loop.           *)

\* n copies of `new` go in at `from`; what is pushed beyond `to` is lost.
OpenGap(f, from, to, n, new) ==
  [i \in DOMAIN f |-> IF i < from \/ i > to THEN f[i]
                      ELSE IF i < from + n THEN new ELSE f[i - n]]

\* n elements from `from` on go; n copies of `new` come in behind at `to`.
CloseGap(f, from, to, n, new) ==
  [i \in DOMAIN f |-> IF i < from \/ i > to THEN f[i]
                      ELSE IF i > to - n THEN new ELSE f[i + n]]

Filled(f, from, to, new) ==
  [i \in DOMAIN f |-> IF i < from \/ i > to THEN f[i] ELSE new]

\* The last n elements of a sequence, or all of it.
Suffix(seq, n) == SubSeq(seq, Len(seq) - Least(n, Len(seq)) + 1, Len(seq))

\* The lines from `from` on, n of them, as a sequence.
LinesFrom(s, from, n) == [i \in 1..n |-> s.lines[from + i - 1]]

\* Lines that go off the top; a limit of 0 keeps none of them.
Pushed(s, n) == Suffix(s.history \o LinesFrom(s, 0, n), s.limit)

-----------------------------------------------------------------------------
(* Scrolling, and the cursor's moves that scroll.                          *)

FullRegion(s) == s.top = 0 /\ s.bottom = LastRow(s)

ScrollUp(s, count) ==
  LET n == Clamp(count, 1, s.bottom - s.top + 1)
  IN  [s EXCEPT !.history = IF FullRegion(s) THEN Pushed(s, n) ELSE @,
                !.lines   = CloseGap(@, s.top, s.bottom, n, BlankLine(s.columns)),
                !.wrapped = CloseGap(@, s.top, s.bottom, n, FALSE)]

ScrollDown(s, count) ==
  LET n == Clamp(count, 1, s.bottom - s.top + 1)
  IN  [s EXCEPT !.lines   = OpenGap(@, s.top, s.bottom, n, BlankLine(s.columns)),
                !.wrapped = OpenGap(@, s.top, s.bottom, n, FALSE)]

MoveCursor(s, row, column) ==
  [s EXCEPT !.row = Clamp(row, 0, LastRow(s)),
            !.column = Clamp(column, 0, LastColumn(s)),
            !.pendingWrap = FALSE]

SetColumn(s, column) == MoveCursor(s, s.row, column)

SetRow(s, row) == MoveCursor(s, row, s.column)

CarriageReturn(s) == SetColumn(s, 0)

Index(s) ==
  LET moved == IF s.row = s.bottom THEN ScrollUp(s, 1)
               ELSE [s EXCEPT !.row = IF @ < LastRow(s) THEN @ + 1 ELSE @]
  IN  [moved EXCEPT !.pendingWrap = FALSE]

ReverseIndex(s) ==
  LET moved == IF s.row = s.top THEN ScrollDown(s, 1)
               ELSE [s EXCEPT !.row = IF @ > 0 THEN @ - 1 ELSE @]
  IN  [moved EXCEPT !.pendingWrap = FALSE]

NextLine(s) == Index(CarriageReturn(s))

SetRegion(s, top, bottom) ==
  LET t == Clamp(top, 0, LastRow(s))
      b == Clamp(bottom, 0, LastRow(s))
  IN  IF t >= b THEN [s EXCEPT !.top = 0, !.bottom = LastRow(s)]
      ELSE [s EXCEPT !.top = t, !.bottom = b]

ResetRegion(s) == [s EXCEPT !.top = 0, !.bottom = LastRow(s)]

-----------------------------------------------------------------------------
(* Writing.                                                                *)

\* Before a glyph goes over one half of a wide one, the other half goes.
BlankPartner(line, c) ==
  IF line[c] = "trail" /\ c > 0 THEN [line EXCEPT ![c - 1] = "blank"]
  ELSE IF line[c] = "lead" /\ c + 1 \in DOMAIN line THEN [line EXCEPT ![c + 1] = "blank"]
  ELSE line

\* variant: only the cell under the cursor is looked at.
PlacedNarrowly(line, c, width) ==
  IF width = 2
  THEN [BlankPartner(line, c) EXCEPT ![c] = "lead", ![c + 1] = "trail"]
  ELSE [BlankPartner(line, c) EXCEPT ![c] = "narrow"]

Placed(line, c, width) ==
  IF width = 2
  THEN [BlankPartner(BlankPartner(line, c), c + 1)
          EXCEPT ![c] = "lead", ![c + 1] = "trail"]
  ELSE [BlankPartner(line, c) EXCEPT ![c] = "narrow"]

WrapLine(s) == Index([s EXCEPT !.wrapped[s.row] = TRUE, !.column = 0])

WriteAtCursor(s, width, insertMode) ==
  LET line == IF insertMode
              THEN OpenGap(s.lines[s.row], s.column, LastColumn(s), width, "blank")
              ELSE s.lines[s.row]
      next == s.column + width
  IN  [s EXCEPT !.lines[s.row] = Placed(line, s.column, width),
                !.column = Least(next, LastColumn(s)),
                !.pendingWrap = next >= s.columns]

WriteCharacter(s, width, insertMode, autoWrap) ==
  LET wrapped  == IF s.pendingWrap /\ autoWrap THEN WrapLine(s) ELSE s
      straddle == width = 2 /\ wrapped.column = LastColumn(s)
  IN  IF straddle /\ ~autoWrap THEN wrapped
      ELSE WriteAtCursor(IF straddle THEN WrapLine(wrapped) ELSE wrapped,
                         width, insertMode)

\* A combining mark takes the cell left of the cursor if that is a space.
Combine(s) ==
  LET c == IF s.pendingWrap THEN s.column ELSE s.column - 1
  IN  IF c >= 0 /\ s.lines[s.row][c] = "blank"
      THEN [s EXCEPT !.lines[s.row][c] = "narrow"] ELSE s

-----------------------------------------------------------------------------
(* Erasing and editing.                                                    *)

\* Cells of the cursor's line that an erase of the given mode takes.
ErasedFrom(s, mode) == IF mode = "toEnd" THEN s.column ELSE 0

ErasedTo(s, mode) == IF mode = "toStart" THEN s.column ELSE LastColumn(s)

EraseInLine(s, mode) ==
  [s EXCEPT !.lines[s.row] = Filled(@, ErasedFrom(s, mode), ErasedTo(s, mode), "blank"),
            !.wrapped[s.row] = FALSE,
            !.pendingWrap = FALSE]

EraseInDisplay(s, mode) ==
  LET first == IF mode = "toEnd" THEN s.row + 1 ELSE 0
      last  == IF mode = "toStart" THEN s.row - 1 ELSE LastRow(s)
      own   == IF mode = "all" THEN s ELSE EraseInLine(s, mode)
  IN  [own EXCEPT !.lines = Filled(@, first, last, BlankLine(s.columns)),
                  !.wrapped = Filled(@, first, last, FALSE),
                  !.pendingWrap = FALSE]

ClearScrollback(s) == [s EXCEPT !.history = <<>>]

EraseCharacters(s, count) ==
  [s EXCEPT !.lines[s.row] = Filled(@, s.column, s.column + count - 1, "blank"),
            !.pendingWrap = FALSE]

InsertCharacters(s, count) ==
  LET n == Clamp(count, 1, s.columns - s.column)
  IN  [s EXCEPT !.lines[s.row] = OpenGap(@, s.column, LastColumn(s), n, "blank"),
                !.pendingWrap = FALSE]

DeleteCharacters(s, count) ==
  LET n == Clamp(count, 1, s.columns - s.column)
  IN  [s EXCEPT !.lines[s.row] = CloseGap(@, s.column, LastColumn(s), n, "blank"),
                !.pendingWrap = FALSE]

InRegion(s) == s.row >= s.top /\ s.row <= s.bottom

InsertLines(s, count) ==
  LET n == Clamp(count, 1, s.bottom - s.row + 1)
  IN  IF ~InRegion(s) THEN s
      ELSE [s EXCEPT !.lines   = OpenGap(@, s.row, s.bottom, n, BlankLine(s.columns)),
                     !.wrapped = OpenGap(@, s.row, s.bottom, n, FALSE),
                     !.column = 0, !.pendingWrap = FALSE]

\* variant: the wrap flags stay where they are.
DeleteLinesOnly(s, count) ==
  LET n == Clamp(count, 1, s.bottom - s.row + 1)
  IN  IF ~InRegion(s) THEN s
      ELSE [s EXCEPT !.lines = CloseGap(@, s.row, s.bottom, n, BlankLine(s.columns)),
                     !.column = 0, !.pendingWrap = FALSE]

DeleteLines(s, count) ==
  LET n == Clamp(count, 1, s.bottom - s.row + 1)
  IN  IF ~InRegion(s) THEN s
      ELSE [s EXCEPT !.lines   = CloseGap(@, s.row, s.bottom, n, BlankLine(s.columns)),
                     !.wrapped = CloseGap(@, s.row, s.bottom, n, FALSE),
                     !.column = 0, !.pendingWrap = FALSE]

FillWith(s) ==
  [s EXCEPT !.lines = [r \in DOMAIN @ |-> [c \in 0..LastColumn(s) |-> "narrow"]]]

-----------------------------------------------------------------------------
(* Tab stops.                                                              *)

SetTabStop(s) == [s EXCEPT !.tabs = @ \cup {s.column}]

ClearTabStop(s) == [s EXCEPT !.tabs = @ \ {s.column}]

ClearAllTabStops(s) == [s EXCEPT !.tabs = {}]

NextTabStop(s, c) ==
  LET ahead == {t \in s.tabs : t > c}
  IN  IF ahead = {} THEN LastColumn(s)
      ELSE CHOOSE t \in ahead : \A u \in ahead : t <= u

PreviousTabStop(s, c) ==
  LET behind == {t \in s.tabs : 0 < t /\ t < c}
  IN  IF behind = {} THEN 0
      ELSE CHOOSE t \in behind : \A u \in behind : t >= u

-----------------------------------------------------------------------------
(* Reset and resize.  The history outlives a reset of the screen.          *)

Reset(s) == [NewScreen(s.columns, s.rows, s.limit) EXCEPT !.history = s.history]

\* A line is cut or padded; what is cut does not come back.
Fitted(line, columns) ==
  [c \in 0..(columns - 1) |-> IF c \in DOMAIN line THEN line[c] ELSE "blank"]

Widened(s, columns) ==
  [s EXCEPT !.lines = [r \in DOMAIN @ |-> Fitted(@[r], columns)],
            !.history = [i \in DOMAIN @ |-> Fitted(@[i], columns)],
            !.columns = columns]

\* Fewer rows: the surplus goes off the top, wherever the cursor is.
Shrunk(s, rows) ==
  LET surplus == s.rows - rows
  IN  [s EXCEPT !.history = Pushed(s, surplus),
                !.lines   = [r \in 0..(rows - 1) |-> s.lines[r + surplus]],
                !.wrapped = [r \in 0..(rows - 1) |-> s.wrapped[r + surplus]],
                !.row     = Clamp(@ - surplus, 0, rows - 1),
                !.rows    = rows]

\* variant: a larger window is padded although there is history.
GrownBelow(s, rows) ==
  [s EXCEPT !.lines   = [r \in 0..(rows - 1) |->
                           IF r < s.rows THEN s.lines[r] ELSE BlankLine(s.columns)],
            !.wrapped = [r \in 0..(rows - 1) |-> r < s.rows /\ s.wrapped[r]],
            !.rows    = rows]

\* More rows: lines come back from the history, then blanks go in below.
Grown(s, rows) ==
  LET back == Least(rows - s.rows, Len(s.history))
      kept == Len(s.history) - back
  IN  [s EXCEPT
         !.history = SubSeq(@, 1, kept),
         !.lines   = [r \in 0..(rows - 1) |->
                        IF r < back THEN s.history[kept + r + 1]
                        ELSE IF r - back < s.rows THEN s.lines[r - back]
                        ELSE BlankLine(s.columns)],
         !.wrapped = [r \in 0..(rows - 1) |->
                        r >= back /\ r - back < s.rows /\ s.wrapped[r - back]],
         !.row     = @ + back,
         !.rows    = rows]

Resize(s, columns, rows) ==
  LET wide   == IF columns # s.columns THEN Widened(s, columns) ELSE s
      tall   == IF rows < s.rows THEN Shrunk(wide, rows)
                ELSE IF rows > s.rows THEN Grown(wide, rows)
                ELSE wide
  IN  IF columns = s.columns /\ rows = s.rows THEN s
      ELSE [MoveCursor(ResetRegion(tall), tall.row, tall.column)
              EXCEPT !.tabs = DefaultTabs(columns)]

=============================================================================
