------------------------------ MODULE Gestures ------------------------------
(* The renderer's input side (renderer.ts): what pointers, the long-press     *)
(* timer and the keyboard of the focused canvas make of themselves.  Each     *)
(* action names in `hook` the callback it fires; the page (Posing) conjoins   *)
(* what that callback does.  The view transform is abstracted: an event comes *)
(* with the cell under it, or Off when it is beside the board.                *)
EXTENDS Naturals, FiniteSets, SequencesExt

CONSTANTS
    Cells,          \* the cells of the board
    Off,            \* no cell: beside the board, or a null hook argument
    MaxPointers     \* bound: pointers down at once

VARIABLES
    pointers,       \* how many pointers are down: no rule looks at which
    moved,          \* the gesture dragged, pinched or long-pressed
    press,          \* how it began: [type, button]
    timer,          \* the armed long-press: [at], the cell under it, or {}
    cursor,         \* the keyboard's roving cursor, or Off
    spaceHeld,      \* the renderer's continuous-paint flag
    fired           \* the cell hooks the current press has fired (history)

gestVars == <<pointers, moved, press, timer, cursor, spaceHeld, fired>>
Hook(name, c) == [name |-> name, cell |-> c]
NoHook == Hook("none", Off)

GestInit ==
    /\ pointers = 0 /\ moved = FALSE /\ press = [type |-> "mouse", button |-> "left"]
    /\ timer = {} /\ cursor = Off /\ spaceHeld = FALSE /\ fired = <<>>

(* onPointerDown: the first pointer opens a press that may still become a     *)
(* tap, and a touch arms the long-press timer; a second one makes it a pinch. *)
PointerDown(type, button, c) ==
    /\ pointers < MaxPointers
    /\ pointers' = pointers + 1
    /\ IF pointers = 0
       THEN /\ moved' = FALSE
            /\ press' = [type |-> type, button |-> button]
            /\ timer' = IF type = "touch" THEN {c} ELSE timer
            /\ fired' = <<>>
       ELSE /\ moved' = (moved \/ pointers = 1)
            /\ timer' = IF pointers = 1 THEN {} ELSE timer
            /\ fired' = IF pointers = 1 /\ (fired = <<>> \/ Last(fired) # "pinch")
                        THEN Append(fired, "pinch") ELSE fired
            /\ UNCHANGED press
    /\ UNCHANGED <<cursor, spaceHeld>>
DownHook == IF pointers = 0 THEN Hook("hover", Off) ELSE NoHook

(* onPointerMove with a pointer down: past the threshold the press is a drag; *)
(* with the right button it deselects what it crosses, else it pans.          *)
Drag ==
    /\ pointers = 1
    /\ moved' = TRUE
    /\ timer' = IF moved THEN timer ELSE {}
    /\ UNCHANGED <<pointers, press, cursor, spaceHeld, fired>>
DragHook(c) == IF press.button = "right" THEN Hook("rightHover", c) ELSE Hook("hover", Off)

(* updatePinch: two fingers move the view and never a cell.                   *)
Pinch ==
    /\ pointers >= 2
    /\ UNCHANGED gestVars

(* (mutated) the long-press leaves the tap to come alone.                     *)
LongPressThenTap ==
    /\ timer # {}
    /\ timer' = {}
    /\ fired' = IF moved \/ timer = {Off} THEN fired ELSE Append(fired, "longPress")
    /\ UNCHANGED <<pointers, moved, press, cursor, spaceHeld>>

(* The timer of a stationary touch: it inspects, and eats the tap to come.    *)
LongPress ==
    /\ timer # {}
    /\ timer' = {}
    /\ moved' = (moved \/ timer # {Off})
    /\ fired' = IF moved \/ timer = {Off} THEN fired ELSE Append(fired, "longPress")
    /\ UNCHANGED <<pointers, press, cursor, spaceHeld>>
LongPressHook ==
    IF moved \/ timer = {Off} THEN NoHook ELSE Hook("longPress", CHOOSE c \in timer : TRUE)

(* onPointerUp: the only pointer of a press that never moved is a tap.        *)
IsTap(c) == pointers = 1 /\ ~moved /\ c # Off
PointerUp(c) ==
    /\ pointers > 0
    /\ pointers' = pointers - 1
    /\ timer' = {}
    /\ fired' = IF IsTap(c) THEN Append(fired, "tap") ELSE fired
    /\ UNCHANGED <<moved, press, cursor, spaceHeld>>
UpHook(c) ==
    IF ~IsTap(c) THEN NoHook
    ELSE IF press.button = "right" THEN Hook("rightTap", c) ELSE Hook("tap", c)

(* onPointerCancel: the browser took the pointer away.                        *)
PointerCancel ==
    /\ pointers > 0
    /\ pointers' = pointers - 1
    /\ timer' = {}
    /\ UNCHANGED <<moved, press, cursor, spaceHeld, fired>>

(* Hover and leave, with no pointer down.                                     *)
HoverIdle == pointers = 0 /\ UNCHANGED gestVars

(* moveCursor: the first arrow reveals the cursor, the next ones move it and, *)
(* with Space held, activate the cell they enter.                             *)
Arrow(c) ==
    /\ c # cursor
    /\ cursor' = c
    /\ UNCHANGED <<pointers, moved, press, timer, spaceHeld, fired>>
ArrowHook(c) ==
    IF cursor # Off /\ spaceHeld THEN Hook("activate", c) ELSE Hook("cursorMove", c)

(* The Space key, seen by the canvas only while it has the focus.             *)
SpaceKey(down, focused) ==
    /\ spaceHeld' = IF focused THEN down ELSE spaceHeld
    /\ UNCHANGED <<pointers, moved, press, timer, cursor, fired>>
=============================================================================
