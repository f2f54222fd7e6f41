------------------------------- MODULE Screen -------------------------------
(***************************************************************************)
(* Console output (c_io.c): the video memory, a scrolling region, and the  *)
(* cursor in it.  Here a call is one step; Console has the calls that are  *)
(* interrupted, and the properties.                                        *)
(*                                                                         *)
(* paper is a history variable: what the characters put since the cursor   *)
(* was last moved would be on a typewriter, whose paper never ends.        *)
(***************************************************************************)
EXTENDS Integers, Sequences

CONSTANTS Width, Height,  \* of the screen, 80 and 25 in the code
          Top,            \* first row of the region that _init sets, 7
          Feeds           \* bound on the new lines on the paper

(* What the constants must satisfy.                                        *)
ScreenSizes ==
  Width \in Nat \ {0} /\ Height \in Nat /\ Top \in 0 .. Height - 1 /\ Feeds \in Nat

ASSUME ScreenAssumption == ScreenSizes

VARIABLES screen,   \* the video memory, by row and column
          region,   \* scroll_min_x, scroll_min_y, scroll_max_x, scroll_max_y
          cursor,   \* curr_x, curr_y
          shown,    \* the position in the hardware's cursor register
          paper     \* history

screenVars == <<screen, region, cursor, shown, paper>>

Cols == 0 .. Width - 1
Rows == 0 .. Height - 1

At(x, y) == [x |-> x, y |-> y]

InRegion(r, x, y) == x \in r.min_x .. r.max_x /\ y \in r.min_y .. r.max_y

(* The characters of the region replaced by New(x, y).                     *)
Redraw(s, r, New(_, _)) ==
  [y \in Rows |-> [x \in Cols |-> IF InRegion(r, x, y) THEN New(x, y) ELSE s[y][x]]]

Bound(min, value, max) ==
  IF value < min THEN min ELSE IF value > max THEN max ELSE value

(* __c_setcursor does not leave the region while a scroll is delayed.      *)
SetCursor(c, r) == At(c.x, IF c.y > r.max_y THEN r.max_y ELSE c.y)

----------------------------------------------------------------------------
(* The typewriter.                                                         *)

Lines == 0 .. Height + Feeds

(* A new sheet has the lines of the region, of which nothing is known,     *)
(* and blank ones below; it starts where the cursor is.                    *)
NewPaper(r, c) ==
  [line |-> c.y - r.min_y, col |-> c.x - r.min_x, last |-> 0,
   text |-> [l \in Lines |->
              [x \in Cols |-> IF l <= r.max_y - r.min_y THEN "open" ELSE "blank"]]]

Typed(p, r, c) ==
  LET width == r.max_x - r.min_x + 1
      stay  == [p EXCEPT !.last = p.line]
      feed  == [stay EXCEPT !.line = @ + 1, !.col = 0]
  IN CASE c = "cr" -> [stay EXCEPT !.col = 0]
       [] c = "nl" -> [feed EXCEPT !.text[p.line] =
                         [x \in Cols |-> IF x >= p.col THEN "blank" ELSE @[x]]]
       [] OTHER -> [(IF p.col + 1 = width THEN feed ELSE [stay EXCEPT !.col = @ + 1])
                      EXCEPT !.text[p.line][p.col] = c]

----------------------------------------------------------------------------
(* The scrolling functions.                                                *)

ClearScroll(s, r) == Redraw(s, r, LAMBDA x, y : "blank")

(* Mutant: the last line is not blanked.                                   *)
ScrolledKeepsLast(s, r, lines) ==
  IF lines > r.max_y - r.min_y
  THEN ClearScroll(s, r)
  ELSE Redraw(s, r, LAMBDA x, y : IF y + lines <= r.max_y THEN s[y + lines][x] ELSE s[y][x])

(* c_scroll: the lines move up, or are all cleared.                        *)
Scrolled(s, r, lines) ==
  IF lines > r.max_y - r.min_y
  THEN ClearScroll(s, r)
  ELSE Redraw(s, r, LAMBDA x, y : IF y + lines <= r.max_y THEN s[y + lines][x] ELSE "blank")

(* Where c_scroll leaves the cursor.                                       *)
ScrolledCursor(c, r, lines) ==
  IF lines > r.max_y - r.min_y THEN At(r.min_x, r.min_y) ELSE c

(* The position after a character: lines wrap.                             *)
Advanced(c, r) ==
  IF c.x + 1 > r.max_x THEN At(r.min_x, c.y + 1) ELSE At(c.x + 1, c.y)

(* The first part of c_putchar on a screen s with cursor c: a scroll that  *)
(* an earlier call delayed.                                                *)
CatchUp(s, c, r) ==
  LET late == c.y - r.max_y IN
  IF late > 0
  THEN [screen |-> Scrolled(s, r, late), cursor |-> At(ScrolledCursor(c, r, late).x, r.max_y)]
  ELSE [screen |-> s, cursor |-> c]

(* __c_putchar_at: nothing is written off the screen.                      *)
Drawn(s, c, ch) == IF c.x \in Cols /\ c.y \in Rows THEN [s EXCEPT ![c.y][c.x] = ch] ELSE s

(* All of c_putchar.                                                       *)
PutCharOn(s, c, r, ch) ==
  LET old == CatchUp(s, c, r).screen
      pos == CatchUp(s, c, r).cursor
  IN CASE ch = "nl" -> [screen |-> [old EXCEPT ![pos.y] =
                                     [x \in Cols |-> IF x \in pos.x .. r.max_x THEN "blank"
                                                     ELSE @[x]]],
                        cursor |-> At(r.min_x, pos.y + 1)]
       [] ch = "cr" -> [screen |-> old, cursor |-> At(r.min_x, pos.y)]
       [] OTHER -> [screen |-> Drawn(old, pos, ch), cursor |-> Advanced(pos, r)]

(* c_putchar.                                                              *)
PutChar(ch) ==
  LET new == PutCharOn(screen, cursor, region, ch)
  IN /\ screen' = new.screen /\ cursor' = new.cursor
     /\ shown' = SetCursor(new.cursor, region)
     /\ paper' = Typed(paper, region, ch)
     /\ UNCHANGED region

(* Screen, cursor and paper after one more character.                      *)
AfterChar(a, r, ch) ==
  LET new == PutCharOn(a.screen, a.cursor, r, ch)
  IN [screen |-> new.screen, cursor |-> new.cursor, paper |-> Typed(a.paper, r, ch)]

(* The same after each character of a text.                                *)
AfterText(text) ==
  LET after[i \in 0 .. Len(text)] ==
        IF i = 0 THEN [screen |-> screen, cursor |-> cursor, paper |-> paper]
        ELSE AfterChar(after[i - 1], region, text[i])
  IN after

(* c_puts and c_printf: one character of the text after the other.         *)
PutText(text) ==
  LET new == AfterText(text)[Len(text)]
  IN /\ screen' = new.screen /\ cursor' = new.cursor /\ paper' = new.paper
     /\ shown' = IF text = <<>> THEN shown ELSE SetCursor(new.cursor, region)
     /\ UNCHANGED region

(* The paper goes on if the call left the region and the cursor alone.     *)
Resume ==
  paper' = IF /\ UNCHANGED <<region, cursor>>
              /\ \A x \in Cols, y \in Rows :
                   InRegion(region, x, y) => screen'[y][x] = screen[y][x]
           THEN paper ELSE NewPaper(region', cursor')

(* c_scroll.                                                               *)
Scroll(lines) ==
  /\ screen' = Scrolled(screen, region, lines)
  /\ cursor' = ScrolledCursor(cursor, region, lines)
  /\ shown' = IF lines > region.max_y - region.min_y THEN SetCursor(cursor', region) ELSE shown
  /\ UNCHANGED region

(* c_clearscroll.                                                          *)
Clear == screen' = ClearScroll(screen, region) /\ UNCHANGED <<region, cursor, shown>>

SetScroll(x1, y1, x2, y2) ==
  LET min_x == Bound(0, x1, Width - 1)
      min_y == Bound(0, y1, Height - 1)
  IN /\ region' = [min_x |-> min_x, min_y |-> min_y,
                   max_x |-> Bound(min_x, x2, Width - 1),
                   max_y |-> Bound(min_y, y2, Height - 1)]
     /\ cursor' = At(min_x, min_y)
     /\ shown' = SetCursor(cursor', region')
     /\ UNCHANGED screen

MoveTo(x, y) ==
  /\ cursor' = At(Bound(region.min_x, x + region.min_x, region.max_x),
                  Bound(region.min_y, y + region.min_y, region.max_y))
  /\ shown' = SetCursor(cursor', region)
  /\ UNCHANGED <<screen, region>>

----------------------------------------------------------------------------
(* The functions for fixed positions.                                      *)

(* Mutant: the region's left edge does not stop the clearing.              *)
LimitIgnoresLeft(x, r) ==
  IF x > r.max_x THEN Width - 1 ELSE r.max_x

(* Where clearing the rest of a line ends.                                 *)
Limit(x, r) ==
  IF x > r.max_x THEN Width - 1 ELSE IF x >= r.min_x THEN r.max_x ELSE r.min_x - 1

(* c_putchar_at on a screen s.                                             *)
PutCharAtOn(s, x, y, ch) ==
  IF ch = "nl"
  THEN [v \in Rows |-> [u \in Cols |-> IF v = y /\ u \in x .. Limit(x, region)
                                       THEN "blank" ELSE s[v][u]]]
  ELSE Drawn(s, At(x, y), ch)

(* Only a newline of the format itself starts a new line, at the left edge *)
(* of the region.                                                          *)
AfterCharAt(a, e) ==
  [screen |-> PutCharAtOn(a.screen, a.x, a.y, e.ch),
   x |-> IF e.literal /\ e.ch \in {"nl", "cr"} THEN region.min_x ELSE a.x + 1,
   y |-> IF e.literal /\ e.ch = "nl" THEN a.y + 1 ELSE a.y]

AfterTextAt(x, y, text) ==
  LET after[i \in 0 .. Len(text)] ==
        IF i = 0 THEN [screen |-> screen, x |-> x, y |-> y]
        ELSE AfterCharAt(after[i - 1], text[i])
  IN after

(* c_puts_at and c_printf_at.                                              *)
PutTextAt(x, y, text) ==
  /\ screen' = AfterTextAt(x, y, text)[Len(text)].screen
  /\ UNCHANGED <<region, cursor, shown>>

(* c_clearscreen.                                                          *)
ClearScreen ==
  /\ screen' = [y \in Rows |-> [x \in Cols |-> "blank"]]
  /\ UNCHANGED <<region, cursor, shown>>

----------------------------------------------------------------------------

(* After c_io_init and the c_setscroll in _init; the screen still shows    *)
(* what the loader left there.                                             *)
ScreenInit ==
  /\ screen = [y \in Rows |-> [x \in Cols |-> "old"]]
  /\ region = [min_x |-> 0, min_y |-> Top, max_x |-> Width - 1, max_y |-> Height - 1]
  /\ cursor = At(0, Top) /\ shown = cursor
  /\ paper = NewPaper(region, cursor)

=============================================================================
