------------------------------ MODULE Console ------------------------------
(***************************************************************************)
(* The console as its callers see it (c_io.c): Screen's functions, and     *)
(* c_printf with the conversions of Format.  Processes print with          *)
(* interrupts enabled, so that a handler's output may come between the     *)
(* statements of c_putchar; handlers and system calls print undisturbed.   *)
(***************************************************************************)
EXTENDS Screen, Format

CONSTANTS Chars,       \* characters put, among "nl", "cr" and others
          Args,        \* coordinates that callers use
          Fields,      \* directives of formats
          FixedFields, \* those used for output at fixed positions
          MaxChars,    \* characters put into the region
          MaxCalls     \* other calls

(* What the constants must satisfy.                                        *)
CallSizes == Args \subseteq Nat /\ MaxChars \in Nat /\ MaxCalls \in Nat

(* Arguments and widths are numbers or texts.                              *)
FieldsTyped ==
  \A d \in Fields \cup FixedFields :
    d.num \in MinInt .. MaxInt /\ d.width \in Nat /\ d.text \in Seq(STRING)

(* The paper is long enough for all that is put.                           *)
PaperLasts ==
  \E most \in 0 .. Feeds : /\ \A d \in Fields : Len(Formatted(d)) <= most
                           /\ MaxChars + MaxCalls * most <= Feeds

ASSUME ConsoleAssumption == CallSizes /\ FieldsTyped /\ PaperLasts

VARIABLES part,      \* what a process has done of c_putchar, or "none"
          torn,      \* history: a handler printed meanwhile
          printed,   \* history: directive and text of the last call, if a c_printf
          puts, calls

consoleVars == <<screenVars, part, torn, printed, puts, calls>>

NoText == [field |-> Directive("none", FALSE, FALSE, 0, 0, <<>>), text |-> <<>>]

(* c_printf with a format of one directive.                                *)
Printf(d) == PutText(Formatted(d)) /\ printed' = [field |-> d, text |-> Formatted(d)]

(* c_printf_at with a directive, a newline and a character.                *)
PrintfAt(x, y, d) ==
  /\ PutTextAt(x, y, [i \in 1 .. Len(Formatted(d)) |->
                        [ch |-> Formatted(d)[i], literal |-> FALSE]]
                       \o <<[ch |-> "nl", literal |-> TRUE], [ch |-> "a", literal |-> TRUE]>>)
  /\ printed' = [field |-> d, text |-> Formatted(d)]

----------------------------------------------------------------------------
(* c_putchar of a plain character in a process, statement by statement.    *)

StoreChar(ch) ==
  LET new == CatchUp(screen, cursor, region) IN
  /\ part = "none" /\ part' = "stored"
  /\ screen' = Drawn(new.screen, new.cursor, ch)
  /\ cursor' = new.cursor
  /\ paper' = Typed(paper, region, ch)
  /\ UNCHANGED <<region, shown, torn>>

MoveRight ==
  /\ part = "stored" /\ part' = "moved"
  /\ cursor' = At(cursor.x + 1, cursor.y)
  /\ UNCHANGED <<screen, region, shown, paper, torn>>

(* Mutant: the end of the line is not looked for.                          *)
TestEndNever ==
  /\ part = "moved"
  /\ part' = "none" /\ shown' = SetCursor(cursor, region)
  /\ UNCHANGED <<screen, region, cursor, paper, torn>>

TestEnd ==
  /\ part = "moved"
  /\ IF cursor.x > region.max_x THEN part' = "wrap" /\ UNCHANGED shown
     ELSE part' = "none" /\ shown' = SetCursor(cursor, region)
  /\ UNCHANGED <<screen, region, cursor, paper, torn>>

Wrap ==
  /\ part = "wrap" /\ part' = "none"
  /\ cursor' = At(region.min_x, cursor.y + 1)
  /\ shown' = SetCursor(cursor', region)
  /\ UNCHANGED <<screen, region, paper, torn>>

----------------------------------------------------------------------------

ConsoleInit ==
  /\ ScreenInit
  /\ part = "none" /\ torn = FALSE /\ printed = NoText /\ puts = 0 /\ calls = 0

Put  == puts < MaxChars /\ puts' = puts + 1 /\ printed' = NoText /\ UNCHANGED calls
Call == calls < MaxCalls /\ calls' = calls + 1 /\ UNCHANGED puts

(* Output of a handler; a process may be inside c_putchar.                 *)
HandlerPuts ==
  /\ Put /\ \E ch \in Chars : PutChar(ch)
  /\ torn' = (torn \/ part # "none")
  /\ UNCHANGED part

ProcessPuts == Put /\ \E ch \in Chars \ {"nl", "cr"} : StoreChar(ch)

ProcessGoesOn == (MoveRight \/ TestEnd \/ Wrap) /\ UNCHANGED <<printed, puts, calls>>

(* The other functions; a cursor moved forgets what was torn.              *)
Other ==
  /\ Call /\ part = "none"
  /\ \/ \E d \in Fields : Printf(d) /\ UNCHANGED torn
     \/ /\ \/ /\ \/ \E n \in Args : Scroll(n)
                 \/ Clear
                 \/ \E x1, y1, x2, y2 \in Args : SetScroll(x1, y1, x2, y2)
                 \/ \E x, y \in Args : MoveTo(x, y)
                 \/ ClearScreen
              /\ printed' = NoText
           \/ \E x, y \in Args, d \in FixedFields : PrintfAt(x, y, d)
           \/ /\ \E x, y \in Args, ch \in Chars : PutTextAt(x, y, <<[ch |-> ch, literal |-> FALSE]>>)
              /\ printed' = NoText
        /\ Resume
        /\ torn' = (torn /\ UNCHANGED <<region, cursor>>)
  /\ UNCHANGED part

ConsoleNext == HandlerPuts \/ ProcessPuts \/ ProcessGoesOn \/ Other

ConsoleSpec == ConsoleInit /\ [][ConsoleNext]_consoleVars

----------------------------------------------------------------------------
(* Properties.                                                             *)

(* Every variable keeps its type.                                          *)
ConsoleTypeOK ==
  /\ screen \in [Rows -> [Cols -> STRING]]
  /\ region.min_x \in Cols /\ region.max_x \in region.min_x .. Width - 1
  /\ region.min_y \in Rows /\ region.max_y \in region.min_y .. Height - 1
  /\ part \in {"none", "stored", "moved", "wrap"} /\ torn \in BOOLEAN
  /\ printed.text \in Seq(STRING)
  /\ puts \in 0 .. MaxChars /\ calls \in 0 .. MaxCalls

(* The line of the paper at the top of the region: the last line typed on  *)
(* is visible, a new line that nothing was typed on yet is not.            *)
FirstLine ==
  LET height == region.max_y - region.min_y + 1
  IN IF paper.last < height THEN 0 ELSE paper.last - height + 1

(* The region shows the end of what a typewriter would have written, and   *)
(* the cursor is where the typewriter is (c_io.c 163-200, 250-284): no     *)
(* character is lost or misplaced by wrapping, by delayed scrolling, or by *)
(* output outside the region in between, unless a handler's output fell    *)
(* into a call of c_putchar.  The hardware's cursor follows.               *)
ShowsText ==
  part = "none" /\ ~torn =>
    /\ shown = SetCursor(cursor, region)
    /\ cursor.x - region.min_x = paper.col
    /\ cursor.y - region.min_y = paper.line - FirstLine
    /\ \A y \in region.min_y .. region.max_y, x \in region.min_x .. region.max_x :
         LET typed == paper.text[FirstLine + y - region.min_y][x - region.min_x]
         IN typed # "open" => screen[y][x] = typed

(* However handlers print inside c_putchar (c_io.c 163-200), the cursor    *)
(* comes back: once no call is in progress it is in a column of the        *)
(* region, and at most one line further down than a delayed scroll leaves  *)
(* it, so that the next character is on the screen.                        *)
CursorRecovers ==
  part = "none" => /\ cursor.x \in region.min_x .. region.max_x
                   /\ cursor.y \in region.min_y .. region.max_y + 2

(* What c_printf puts out for decimal and hexadecimal numbers, characters  *)
(* and strings (c_io.c 285-500) is the numeral of its argument, the least  *)
(* number included, in a field of at least the given width.                *)
PrintsArguments ==
  printed.field.conv \in {"c", "s", "d", "x"} => IsField(printed.field, printed.text)

(* Scrolling output and fixed output keep apart (c_io.c 134-160, 163-200): *)
(* what is put into the region, and did not interrupt a process that does, *)
(* changes nothing outside, and a newline put beside the region clears     *)
(* nothing inside.                                                         *)
RegionKeptApart ==
  [][/\ (part = "none" /\ puts' > puts) =>
          \A x \in Cols, y \in Rows : ~InRegion(region, x, y) => screen'[y][x] = screen[y][x]
     /\ \A x, y \in Args :
          /\ PutTextAt(x, y, <<[ch |-> "nl", literal |-> FALSE]>>)
          /\ x \notin region.min_x .. region.max_x
          => \A u \in Cols, v \in Rows : InRegion(region, u, v) => screen'[v][u] = screen[v][u]
    ]_consoleVars

----------------------------------------------------------------------------
(* What the code's comments promise and the code does not keep.            *)

(* c_clearscroll "moves the cursor to (0,0)" (c_io.h 140).                 *)
ClearMovesCursor == [][Clear => cursor' = At(region.min_x, region.min_y)]_consoleVars

(* "print an integer as a octal value" (c_io.h 48).                        *)
PrintsOctal == printed # NoText => IsField(printed.field, printed.text)

(* Interrupted output stays in the region.                                 *)
OutputInRegion ==
  [][puts' > puts =>
       \A x \in Cols, y \in Rows : ~InRegion(region, x, y) => screen'[y][x] = screen[y][x]]_consoleVars

(* No character is lost, even if output is interrupted.                    *)
ShowsAllText == [](part = "none" => shown = SetCursor(cursor, region)
                                    /\ cursor.x - region.min_x = paper.col)

============================================================================
