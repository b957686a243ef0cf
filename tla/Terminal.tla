------------------------------ MODULE Terminal ------------------------------
(***************************************************************************)
(* term::Terminal: what each control function of the remote program does   *)
(* to the two screens, the modes and the saved cursors, and what the       *)
(* window does to them when it is resized or cleared.  One action is one   *)
(* call of print, execute, escDispatch or csiDispatch with a function the  *)
(* terminal knows; VtParser says how bytes become these calls.             *)
(*                                                                         *)
(* The "pen" stands for what saveCursor keeps besides the position and the *)
(* origin mode: the rendition and the active character set.  Modes that    *)
(* only the widget reads (mouse, keypad, paste, visibility), the title,    *)
(* the other replies and the repaint signals are left out.  setScrollbackLimit   *)
(* has no caller.                                                          *)
(***************************************************************************)
EXTENDS Screen

CONSTANTS
  Sizes,       \* <<columns, rows>> the window may give the grid
  FirstSize,   \* the size the terminal starts with
  Limit,       \* m_scrollbackLimit of the normal screen
  Counts,      \* numeric parameters of control functions
  Pens,        \* renditions and character sets
  DefaultPen,  \* the one after a reset
  MaxSteps     \* bound: control functions and events from the window

\* One column is excluded: a wide glyph does not fit into it (see the README).
ASSUME TerminalAssumption ==
  /\ Sizes \subseteq (Nat \ {0, 1}) \X (Nat \ {0})
  /\ FirstSize \in Sizes
  /\ Limit \in Nat /\ MaxSteps \in Nat
  /\ Counts \subseteq Nat \ {0}
  /\ DefaultPen \in Pens

VARIABLES
  screens,  \* m_normal and m_alternate
  active,   \* m_active
  modes,    \* the modes of TerminalModes that the screens depend on
  pen,      \* m_attributes and m_activeCharset
  saved,    \* m_savedCursor and m_savedAlternateCursor, by screen
  steps,    \* number of steps taken
  entry     \* history: the terminal as a full-screen program found it, or <<>>

vars == <<screens, active, modes, pen, saved, steps, entry>>

DefaultModes ==
  [autoWrap |-> TRUE, originMode |-> FALSE, insertMode |-> FALSE,
   newLineMode |-> FALSE, alternateScreen |-> FALSE]

NoCursor == [row |-> 0, column |-> 0, pen |-> DefaultPen, originMode |-> FALSE]

NoEntry == <<>>

screen == screens[active]

normal == screens["normal"]

Init ==
  /\ screens = [normal    |-> NewScreen(FirstSize[1], FirstSize[2], Limit),
                alternate |-> NewScreen(FirstSize[1], FirstSize[2], 0)]
  /\ active = "normal"
  /\ modes = DefaultModes
  /\ pen = DefaultPen
  /\ saved = [normal |-> NoCursor, alternate |-> NoCursor]
  /\ steps = 0
  /\ entry = NoEntry

Step == steps < MaxSteps /\ steps' = steps + 1

\* The active screen becomes s and nothing else of the terminal changes.
Becomes(s) ==
  /\ Step
  /\ screens' = [screens EXCEPT ![active] = s]
  /\ UNCHANGED <<active, modes, pen, saved, entry>>

-----------------------------------------------------------------------------
(* print and execute.                                                      *)

PrintCharacter(width) ==
  Becomes(WriteCharacter(screen, width, modes.insertMode, modes.autoWrap))

PrintMark == Becomes(Combine(screen))

Backspace ==
  Becomes(IF screen.pendingWrap THEN [screen EXCEPT !.pendingWrap = FALSE]
          ELSE IF screen.column > 0 THEN SetColumn(screen, screen.column - 1)
          ELSE screen)

Tab == Becomes(SetColumn(screen, NextTabStop(screen, screen.column)))

LineFeed ==
  Becomes(IF modes.newLineMode THEN CarriageReturn(Index(screen)) ELSE Index(screen))

Return == Becomes(CarriageReturn(screen))

\* SO, SI and SGR.
SetPen(p) ==
  /\ Step
  /\ pen' = p
  /\ UNCHANGED <<screens, active, modes, saved, entry>>

-----------------------------------------------------------------------------
(* escDispatch and csiDispatch: functions of the active screen.            *)

IndexDown == Becomes(Index(screen))
IndexUp   == Becomes(ReverseIndex(screen))
NewLine   == Becomes(NextLine(screen))
FillAll   == Becomes(FillWith(screen))

MoveRelative(rows, columns) ==
  Becomes(MoveCursor(screen, screen.row + rows, screen.column + columns))

MoveLines(rows) == Becomes(CarriageReturn(SetRow(screen, screen.row + rows)))

\* Rows count from the top margin in origin mode; the bottom one is no limit.
FirstRow == IF modes.originMode THEN screen.top ELSE 0

\* What CUP and HVP do to the screen.
Addressed(row, column) == MoveCursor(screen, row - 1 + FirstRow, column - 1)

MoveTo(row, column) == Becomes(Addressed(row, column))

\* CPR: the row and the column the program is told.
ReportedPosition == <<screen.row + 1 - FirstRow, screen.column + 1>>

MoveToColumn(column) == Becomes(SetColumn(screen, column - 1))
MoveToRow(row)       == Becomes(SetRow(screen, row - 1))

TabForward(n) ==
  LET at[i \in 0..n] == IF i = 0 THEN screen.column ELSE NextTabStop(screen, at[i - 1])
  IN  Becomes(SetColumn(screen, at[n]))

TabBackward(n) ==
  LET at[i \in 0..n] == IF i = 0 THEN screen.column ELSE PreviousTabStop(screen, at[i - 1])
  IN  Becomes(SetColumn(screen, at[n]))

TabStop   == Becomes(SetTabStop(screen))
NoTabStop == Becomes(ClearTabStop(screen))
NoTabs    == Becomes(ClearAllTabStops(screen))

Modes == {"toEnd", "toStart", "all"}

EraseDisplay(mode) == Becomes(EraseInDisplay(screen, mode))
EraseHistory       == Becomes(ClearScrollback(EraseInDisplay(screen, "all")))
EraseLine(mode)    == Becomes(EraseInLine(screen, mode))
EraseChars(n)      == Becomes(EraseCharacters(screen, n))
InsertChars(n)     == Becomes(InsertCharacters(screen, n))
DeleteChars(n)     == Becomes(DeleteCharacters(screen, n))
InsertRows(n)      == Becomes(InsertLines(screen, n))
DeleteRows(n)      == Becomes(DeleteLines(screen, n))
Scroll(n)          == Becomes(ScrollUp(screen, n))
ScrollBack(n)      == Becomes(ScrollDown(screen, n))

\* DECSTBM.  The cursor goes home, to the top margin in origin mode.
Home(s, originMode) == MoveCursor(s, IF originMode THEN s.top ELSE 0, 0)

SetMargins(top, bottom) ==
  Becomes(Home(SetRegion(screen, top - 1, bottom - 1), modes.originMode))

ResetMargins == Becomes(Home(ResetRegion(screen), modes.originMode))

\* DECCOLM clears the screen whether it is set or reset.
ColumnMode ==
  Becomes(MoveCursor(EraseInDisplay(screen, "all"), 0, 0))

-----------------------------------------------------------------------------
(* Modes and saved cursors.                                                *)

SetMode(mode, enabled) ==
  /\ Step
  /\ modes' = [modes EXCEPT ![mode] = enabled]
  /\ UNCHANGED <<screens, active, pen, saved, entry>>

OriginMode(enabled) ==
  /\ Step
  /\ modes' = [modes EXCEPT !.originMode = enabled]
  /\ screens' = [screens EXCEPT ![active] = Home(screen, enabled)]
  /\ UNCHANGED <<active, pen, saved, entry>>

\* m_savedAlternateCursor or m_savedCursor, by the mode flag.
Slot(alternateScreen) == IF alternateScreen THEN "alternate" ELSE "normal"

\* variant: one saved cursor for both screens.
SavedInOne ==
  [saved EXCEPT !.normal =
     [row |-> screen.row, column |-> screen.column,
      pen |-> pen, originMode |-> modes.originMode]]

Saved ==
  [saved EXCEPT ![Slot(modes.alternateScreen)] =
     [row |-> screen.row, column |-> screen.column,
      pen |-> pen, originMode |-> modes.originMode]]

SaveCursor ==
  /\ Step
  /\ saved' = Saved
  /\ UNCHANGED <<screens, active, modes, pen, entry>>

\* variant: the position is taken as it was saved.
RestoredAsSaved(s, cursor) ==
  [s EXCEPT !.row = cursor.row, !.column = cursor.column, !.pendingWrap = FALSE]

\* The wrap that was pending when the cursor was saved is not.
Restored(s, cursor) == MoveCursor(s, cursor.row, cursor.column)

RestoreCursor ==
  LET cursor == saved[Slot(modes.alternateScreen)]
  IN  /\ Step
      /\ screens' = [screens EXCEPT ![active] = Restored(@, cursor)]
      /\ pen' = cursor.pen
      /\ modes' = [modes EXCEPT !.originMode = cursor.originMode]
      /\ UNCHANGED <<active, saved, entry>>

-----------------------------------------------------------------------------
(* The alternate screen.                                                   *)

\* useAlternateScreen: the screens after it, given whether it clears.
Entered(clear) ==
  IF ~modes.alternateScreen /\ clear
  THEN [screens EXCEPT !.alternate = MoveCursor(Reset(@), 0, 0)]
  ELSE screens

\* 47 and 1047.
UseAlternateScreen(enabled) ==
  /\ Step
  /\ modes' = [modes EXCEPT !.alternateScreen = enabled]
  /\ active' = IF modes.alternateScreen = enabled THEN active ELSE Slot(enabled)
  /\ entry' = IF enabled THEN entry ELSE NoEntry
  /\ UNCHANGED <<screens, pen, saved>>

\* What a full-screen program finds.
Found(s, p, m) ==
  [lines |-> s.lines, wrapped |-> s.wrapped, history |-> s.history,
   row |-> s.row, column |-> s.column, pen |-> p, originMode |-> m.originMode]

\* 1049 set: the cursor is saved even when the alternate screen is on.
EnterFullScreen ==
  /\ Step
  /\ saved' = Saved
  /\ screens' = Entered(TRUE)
  /\ active' = "alternate"
  /\ modes' = [modes EXCEPT !.alternateScreen = TRUE]
  /\ entry' = IF modes.alternateScreen THEN entry ELSE <<Found(normal, pen, modes)>>
  /\ UNCHANGED pen

\* 1049 reset: the cursor is restored even when the normal screen was on.
LeaveFullScreen ==
  /\ Step
  /\ screens' = [screens EXCEPT !.normal = Restored(@, saved.normal)]
  /\ active' = "normal"
  /\ pen' = saved.normal.pen
  /\ modes' = [modes EXCEPT !.alternateScreen = FALSE,
                            !.originMode = saved.normal.originMode]
  /\ entry' = NoEntry
  /\ UNCHANGED saved

-----------------------------------------------------------------------------
(* Resets, and what the window does.                                       *)

\* RIS: the normal screen's history goes, too.
FullReset ==
  /\ Step
  /\ screens' = [normal    |-> ClearScrollback(Reset(normal)),
                 alternate |-> Reset(screens.alternate)]
  /\ active' = "normal"
  /\ modes' = DefaultModes
  /\ pen' = DefaultPen
  /\ saved' = [normal |-> NoCursor, alternate |-> NoCursor]
  /\ entry' = NoEntry

\* DECSTR.
SoftReset ==
  /\ Step
  /\ screens' = [screens EXCEPT ![active] = MoveCursor(ResetRegion(@), 0, 0)]
  /\ modes' = [modes EXCEPT !.originMode = FALSE, !.insertMode = FALSE,
                            !.autoWrap = TRUE]
  /\ pen' = DefaultPen
  /\ UNCHANGED <<active, saved, entry>>

\* updateGridSize: both screens change size, the saved cursors stay.
ResizeWindow(size) ==
  /\ Step
  /\ size # <<screen.columns, screen.rows>>
  /\ screens' = [b \in DOMAIN screens |-> Resize(screens[b], size[1], size[2])]
  /\ entry' = NoEntry
  /\ UNCHANGED <<active, modes, pen, saved>>

\* TerminalWidget::clearScreen, with the active screen.
ClearScreen ==
  Becomes(MoveCursor(ClearScrollback(EraseInDisplay(screen, "all")), 0, 0))

-----------------------------------------------------------------------------
(* A step.                                                                 *)

Write ==
  \/ \E width \in {1, 2} : PrintCharacter(width)
  \/ PrintMark

Move ==
  \/ Backspace \/ Tab \/ Return
  \/ \E n \in Counts :
       \/ MoveRelative(n, 0) \/ MoveRelative(-n, 0)
       \/ MoveRelative(0, n) \/ MoveRelative(0, -n)
       \/ MoveLines(n) \/ MoveLines(-n)
       \/ MoveToRow(n) \/ MoveToColumn(n)
       \/ TabForward(n) \/ TabBackward(n)
       \/ \E m \in Counts : MoveTo(n, m)

Feed == LineFeed \/ IndexDown \/ IndexUp \/ NewLine

ShiftRows ==
  \E n \in Counts : InsertRows(n) \/ DeleteRows(n) \/ Scroll(n) \/ ScrollBack(n)

Edit ==
  \/ \E mode \in Modes : EraseDisplay(mode) \/ EraseLine(mode)
  \/ \E n \in Counts : EraseChars(n) \/ InsertChars(n) \/ DeleteChars(n)
  \/ EraseHistory \/ FillAll \/ ColumnMode \/ ClearScreen

Tabs == TabStop \/ NoTabStop \/ NoTabs

\* A bottom that is left out is the last row.
Margins ==
  \/ ResetMargins
  \/ \E n \in Counts, m \in Counts \cup {screen.rows} : SetMargins(n, m)

Settings ==
  \E enabled \in BOOLEAN :
    \/ \E mode \in {"autoWrap", "insertMode", "newLineMode"} : SetMode(mode, enabled)
    \/ OriginMode(enabled)
    \/ UseAlternateScreen(enabled)

Cursors == SaveCursor \/ RestoreCursor \/ EnterFullScreen \/ LeaveFullScreen

Next ==
  \/ Write \/ Move \/ Feed \/ ShiftRows \/ Edit \/ Tabs \/ Margins
  \/ Settings \/ Cursors
  \/ FullReset \/ SoftReset
  \/ \E p \in Pens : SetPen(p)
  \/ \E size \in Sizes : ResizeWindow(size)

Spec == Init /\ [][Next]_vars

-----------------------------------------------------------------------------
(* Properties.                                                             *)

\* The scroll region is the whole screen or has two rows at least, all of them
\* on the screen: scrollUp, insertLines and the others erase and insert at the
\* margins without a check of their own (Screen.cpp:381-483).
RegionOK(s) == FullRegion(s) \/ (0 <= s.top /\ s.top < s.bottom /\ s.bottom <= LastRow(s))

\* A wrap is pending only where it can be: behind a glyph in the last column.
\* Everything else that moves the cursor or changes the width cancels it
\* (Screen.hpp:117, "the cursor sits one past the last column").
PendingWrapAtEdge(s) == s.pendingWrap => s.column = LastColumn(s)

\* What the vectors of a screen of the given size hold.
ScreenOK(s, columns, rows, limit) ==
  LET line == [0..(columns - 1) -> Cells]
  IN  /\ s.columns = columns /\ s.rows = rows /\ s.limit = limit
      /\ s.lines \in [0..(rows - 1) -> line]
      /\ s.wrapped \in [0..(rows - 1) -> BOOLEAN]
      /\ s.tabs \subseteq 0..(columns - 1)
      /\ Len(s.history) <= limit
      /\ \A i \in 1..Len(s.history) : s.history[i] \in line
      /\ s.row \in 0..(rows - 1) /\ s.column \in 0..(columns - 1)
      /\ s.pendingWrap \in BOOLEAN
      /\ PendingWrapAtEdge(s)
      /\ RegionOK(s)

\* A program that asks where the cursor is (CPR) and later sends it there (CUP)
\* finds it where it was, in origin mode, too (Terminal.cpp:292, 671).  Excepted
\* is a cursor above the top margin, whose row is reported as none or less.
ReportLeadsBack ==
  ReportedPosition[1] > 0 =>
    LET there == Addressed(ReportedPosition[1], ReportedPosition[2])
    IN  there.row = screen.row /\ there.column = screen.column

\* Both screens have the size of the window in every vector, so that no index
\* computed from the cursor, the margins or a count leaves one; only the normal
\* screen keeps history; the active screen is the one the mode flag names; and
\* the cursor's position is reported as it would be addressed.
TypeOK ==
  /\ <<screen.columns, screen.rows>> \in Sizes
  /\ \A b \in DOMAIN screens :
       ScreenOK(screens[b], screen.columns, screen.rows, IF b = "normal" THEN Limit ELSE 0)
  /\ active = Slot(modes.alternateScreen)
  /\ modes \in [DOMAIN DefaultModes -> BOOLEAN]
  /\ pen \in Pens
  /\ ReportLeadsBack

\* All text a user can scroll through: the history, then the screen.
Text(s) == s.history \o LinesFrom(s, 0, s.rows)

\* t has the text of s and k blank lines behind it, less what is older than a
\* full history takes.
Continues(t, s, k) ==
  Text(t) = Suffix(Text(s) \o [i \in 1..k |-> BlankLine(t.columns)], Limit + t.rows)

\* A change of height and a line feed lose no line of the normal screen: what
\* leaves it goes to the history, and comes back first when the window grows
\* (Screen.cpp:104 "the content the user was reading is not simply destroyed",
\* Screen.cpp:125).  A smaller scroll region makes no history, by intention.
TextIsKept ==
  [][ /\ (\E size \in Sizes : size[1] = normal.columns /\ ResizeWindow(size))
           => Continues(normal', normal,
                        Clamp(normal'.rows - normal.rows - Len(normal.history), 0, normal'.rows))
      /\ active = "normal" /\ FullRegion(normal) =>
           /\ LineFeed \/ IndexDown \/ NewLine
                => \E k \in {0, 1} : Continues(normal', normal, k)
           /\ \A n \in Counts :
                Scroll(n) => Continues(normal', normal, Least(n, normal.rows))
    ]_vars

\* Every wide glyph of the line has both its halves.
Whole(line) ==
  \A c \in DOMAIN line :
    /\ line[c] = "lead"  => c + 1 \in DOMAIN line /\ line[c + 1] = "trail"
    /\ line[c] = "trail" => c - 1 \in DOMAIN line /\ line[c - 1] = "lead"

AllWhole(s) == \A r \in DOMAIN s.lines : Whole(s.lines[r])

\* Writing over a part of a wide glyph takes the rest of it away, wraps and
\* scrolls included (Screen.cpp:198).  It is said of writing in replace mode
\* only: insert mode, and erasing, inserting and deleting cells, cut through
\* glyphs.
WritingKeepsGlyphsWhole ==
  [][ Write /\ ~modes.insertMode /\ AllWhole(screen) => AllWhole(screen') ]_vars

\* A line keeps its wrap flag when rows are inserted, deleted or scrolled, so
\* that a copied paragraph breaks where the program broke it
\* (TerminalWidget.cpp:1054): no row that moves gets the flag of another.
FlagsMoveWithLines ==
  [][ ShiftRows \/ IndexUp =>
        LET Rows(s) == {<<s.lines[r], s.wrapped[r]>> : r \in DOMAIN s.lines}
        IN  Rows(screen') \subseteq
              Rows(screen) \cup {<<BlankLine(screen.columns), FALSE>>}
    ]_vars

\* When a full-screen program that came with 1049 goes with 1049, the normal
\* screen, its history, the cursor's position, the pen and the origin mode are
\* as it found them, whatever it wrote and saved in between, cursors of its own
\* included (Terminal.cpp:624).  The pending wrap is not: restoreCursor drops it.
\* Nothing is said of a visit in which the window changes its size or 47, 1047 or a
\* full reset leave the alternate screen: these clear entry.
LeavesNoTrace ==
  [][ LeaveFullScreen /\ entry # NoEntry =>
        entry = <<Found(normal', pen', modes')>> ]_vars

=============================================================================
