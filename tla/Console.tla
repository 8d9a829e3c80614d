------------------------------- MODULE Console -------------------------------
(***************************************************************************)
(* The text screen of kernel.cpp and kernel2.cpp, its cursor x, y, and the *)
(* mouse's own cursor, a cell whose colours are swapped.                   *)
(*                                                                         *)
(* printf runs in interrupt handlers, which nothing interrupts and which   *)
(* are one step, and in the main loop, where an interrupt may come between *)
(* any two accesses to the screen, x or y: there it is the steps that pc   *)
(* names.  x and y are also the loop variables of the clearing of the      *)
(* screen.  The makefile asks for no optimisation, so x++ and y++ load,    *)
(* add and store.  Characters are not told apart, save the newline.        *)
(***************************************************************************)
EXTENDS Integers

CONSTANTS
    Width, Height,  \* of the screen (80, 25)
    LongText        \* characters of a message like "UNHANDLED INTERRUPT 0x2B"

ASSUME ScreenAssumption ==
    /\ Width \in 1 .. 127 /\ Height \in 1 .. 127
    /\ LongText \in Nat \ {0}

VARIABLES
    x, y,           \* the cursor, shared by everyone who prints
    pc,             \* where the main loop is in printf
    tmp,            \* its register: the x or y it has loaded
    at, swapped,    \* the cell it looked up, and whether its colours are swapped
    inverted,       \* cells with swapped colours
    mouse,          \* the cell of MouseToConsole
    torn,           \* history: a handler ran between a look-up and its store
    strayed         \* history: something was written beyond the spare row

cursor  == <<x, y>>
screen  == <<inverted, mouse, torn>>
locals  == <<pc, tmp, at, swapped>>
shared  == <<cursor, screen, strayed>>

Cell(cx, cy) == Width * cy + cx

MouseCell == Cell(mouse.x, mouse.y)

(* One row more than the screen, and one cell.                             *)
Beyond(cell) == cell > Width * (Height + 1)

ConsoleInit ==
    /\ x = 0 /\ y = 0
    /\ tmp = 0 /\ at = 0 /\ swapped = FALSE
    /\ mouse = [x |-> Width \div 2, y |-> Height \div 2]
    /\ inverted = {MouseCell}
    /\ torn = FALSE /\ strayed = FALSE

-----------------------------------------------------------------------------
(* A whole printf, in a handler                                            *)

(* The wrap at the right edge, then the clearing of a full screen, which   *)
(* ends with the cursor at home.                                           *)
Wrapped(c) == IF c.x >= Width THEN [x |-> 0, y |-> c.y + 1] ELSE c
Cleared(c) == IF c.y >= Height THEN [x |-> 0, y |-> 0] ELSE c

(* Mutant: the row below the last one is not noticed.                      *)
AdvanceNoClear(c, char) ==
    Wrapped(IF char = "\n" THEN [x |-> 0, y |-> c.y + 1]
                           ELSE [x |-> c.x + 1, y |-> c.y])

Advance(c, char) ==
    Cleared(Wrapped(IF char = "\n" THEN [x |-> 0, y |-> c.y + 1]
                                   ELSE [x |-> c.x + 1, y |-> c.y]))

(* A text is a newline, or so many other characters.                       *)
Texts == {"newline", "key", "message"}

End(text) ==
    LET after[n \in 0 .. LongText] ==
            IF n = 0 THEN [x |-> x, y |-> y] ELSE Advance(after[n - 1], "c")
    IN  CASE text = "newline" -> Advance([x |-> x, y |-> y], "\n")
          [] text = "key"     -> after[1]
          [] text = "message" -> after[LongText]

(* A handler that comes while the main loop holds a cell it looked up.     *)
Interrupted == torn' = (torn \/ pc \in {"write", "blank"})

PrintText(text) ==
    LET end == End(text)
    IN  /\ x' = end.x /\ y' = end.y
        /\ strayed' = (strayed \/ (text # "newline" /\ Beyond(Cell(x, y))))
        /\ Interrupted
        /\ UNCHANGED <<inverted, mouse>>

-----------------------------------------------------------------------------
(* The mouse's cursor, in its handler                                      *)

Int8(n) == ((n + 128) % 256) - 128

Clamp(n, size) == IF n >= size THEN size - 1 ELSE IF n < 0 THEN 0 ELSE n

Toggle(cells, cell) ==
    IF cell \in cells THEN cells \ {cell} ELSE cells \cup {cell}

(* Mutant: the cell that is left keeps its swapped colours.                *)
OnMouseMoveTrail(dx, dy) ==
    LET to == [x |-> Clamp(Int8(mouse.x + dx), Width),
               y |-> Clamp(Int8(mouse.y + dy), Height)]
    IN  /\ mouse' = to
        /\ inverted' = inverted \cup {Cell(to.x, to.y)}
        /\ Interrupted
        /\ UNCHANGED <<cursor, strayed>>

OnMouseMove(dx, dy) ==
    LET to == [x |-> Clamp(Int8(mouse.x + dx), Width),
               y |-> Clamp(Int8(mouse.y + dy), Height)]
    IN  /\ mouse' = to
        /\ inverted' = Toggle(Toggle(inverted, MouseCell), Cell(to.x, to.y))
        /\ Interrupted
        /\ UNCHANGED <<cursor, strayed>>

-----------------------------------------------------------------------------
(* printf and clearscreen, step by step, in the main loop                  *)

Goto(p) == pc' = p

LookUp ==
    /\ at' = Cell(x, y) /\ swapped' = (Cell(x, y) \in inverted)
    /\ UNCHANGED <<cursor, tmp, screen, strayed>>

(* The character goes with the colours that were looked up to the cell the *)
(* cursor named then or names now: the order of the two index computations *)
(* is the compiler's.                                                      *)
Store ==
    /\ \E cell \in {at, Cell(x, y)} :
          /\ inverted' = IF swapped THEN inverted \cup {cell}
                                    ELSE inverted \ {cell}
          /\ strayed' = (strayed \/ Beyond(cell))
    /\ at' = 0 /\ swapped' = FALSE
    /\ UNCHANGED <<cursor, tmp, mouse, torn>>

(* x or y is loaded, set to the loaded value plus one, or set to 0.        *)
Load(v)  == /\ tmp' = v
            /\ UNCHANGED <<cursor, at, swapped, screen, strayed>>
SetX(v)  == /\ x' = v /\ tmp' = 0
            /\ UNCHANGED <<y, at, swapped, screen, strayed>>
SetY(v)  == /\ y' = v /\ tmp' = 0
            /\ UNCHANGED <<x, at, swapped, screen, strayed>>
JustTest == UNCHANGED <<cursor, tmp, at, swapped, screen, strayed>>

NextCharacter ==
    /\ pc = "next"
    /\ \/ LookUp /\ Goto("write")
       \/ SetX(0) /\ Goto("loadY")        \* '\n'
       \/ SetY(0) /\ Goto("row")           \* clearscreen

PutCharacter ==
    \/ pc = "write"  /\ Store /\ Goto("loadX")
    \/ pc = "loadX" /\ Load(x) /\ Goto("addX")
    \/ pc = "addX"  /\ SetX(tmp + 1) /\ Goto("rightEdge")

(* The test of the right edge after the wrap is one more than the code has:   *)
(* there x is 0, or what a handler left, which is on the screen.             *)
NextLine ==
    \/ pc = "rightEdge" /\ x >= Width /\ SetX(0) /\ Goto("loadY")
    \/ pc = "rightEdge" /\ x < Width /\ JustTest /\ Goto("lastRow")
    \/ pc = "loadY" /\ Load(y) /\ Goto("addY")
    \/ pc = "addY"  /\ SetY(tmp + 1) /\ Goto("rightEdge")
    \/ pc = "lastRow" /\ y >= Height /\ SetY(0) /\ Goto("row")
    \/ pc = "lastRow" /\ y < Height /\ JustTest /\ Goto("next")

Clear ==
    \/ pc = "row" /\ y < Height /\ SetX(0) /\ Goto("column")
    \/ pc = "row" /\ y >= Height /\ SetX(0) /\ Goto("home")
    \/ pc = "column" /\ x < Width /\ LookUp /\ Goto("blank")
    \/ pc = "column" /\ x >= Width /\ Load(y) /\ Goto("addRow")
    \/ pc = "blank" /\ Store /\ Goto("loadColumn")
    \/ pc = "loadColumn" /\ Load(x) /\ Goto("addColumn")
    \/ pc = "addColumn" /\ SetX(tmp + 1) /\ Goto("column")
    \/ pc = "addRow" /\ SetY(tmp + 1) /\ Goto("row")
    \/ pc = "home" /\ SetY(0) /\ Goto("next")

MainPrints == NextCharacter \/ PutCharacter \/ NextLine \/ Clear

-----------------------------------------------------------------------------
(* Properties                                                              *)

(* One cell shows the mouse, and it is where the mouse is: the reading of  *)
(* a cell's colours and the writing of its character (kernel.cpp 47) are   *)
(* not one step, so this lasts until a handler comes between the two.      *)
OneCursor == ~torn => inverted = {MouseCell}

(* Whoever prints in between, the main loop and the handlers write at most *)
(* one row and one cell below the screen, and the cursor is on the screen  *)
(* whenever the main loop is between two characters.                       *)
PrintsNearTheScreen ==
    /\ ~strayed
    /\ pc = "next" => x < Width /\ y < Height
=============================================================================
