---------------------------- MODULE PagedDisplay ----------------------------
(***************************************************************************)
(* What gfxlib.h promises of double buffering (gl_flipbuf, gl_setpixel):   *)
(* pixels are set on a page that is not shown, a flip exchanges the two    *)
(* pages at the start of a frame, and a frame shows one page from its      *)
(* first word to its last.                                                 *)
(***************************************************************************)
CONSTANTS
  Cells,       \* addresses of the frame memory
  Colours,     \* what a cell may hold
  Blank        \* what it holds before anything is drawn

VARIABLES
  front,       \* the page shown
  back,        \* the page being drawn
  flipping,    \* a flip has been asked for and has not happened
  unread,      \* cells this frame has not shown yet
  panel        \* what the LEDs show

pageVars == <<front, back, flipping, unread, panel>>

Picture == [Cells -> Colours]

Init ==
  /\ front = [c \in Cells |-> Blank] /\ back = front
  /\ flipping = FALSE
  /\ unread = Cells /\ panel = front

Draw(c, colour) ==
  /\ ~flipping
  /\ back' = [back EXCEPT ![c] = colour]
  /\ UNCHANGED <<front, flipping, unread, panel>>

Flip ==
  /\ ~flipping /\ flipping' = TRUE
  /\ UNCHANGED <<front, back, unread, panel>>

Show(c) ==
  /\ c \in unread /\ unread' = unread \ {c}
  /\ panel' = [panel EXCEPT ![c] = front[c]]
  /\ UNCHANGED <<front, back, flipping>>

NewFrame ==
  /\ unread = {} /\ unread' = Cells
  /\ \/ UNCHANGED <<front, back, flipping>>
     \/ flipping /\ flipping' = FALSE /\ front' = back /\ back' = front
  /\ UNCHANGED panel

Next ==
  \/ \E c \in Cells, colour \in Colours : Draw(c, colour)
  \/ Flip
  \/ (\E c \in Cells : Show(c)) \/ NewFrame

Spec == Init /\ [][Next]_pageVars

=============================================================================
