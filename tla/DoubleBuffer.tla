---------------------------- MODULE DoubleBuffer ----------------------------
(***************************************************************************)
(* Double buffering end to end: an application calling the drivers         *)
(* (bitfire_gfx.c), the link at the level of DisplayLink's contract, the   *)
(* two frame memories with the registers that select them                  *)
(* (cpuledctrl_top.vhd), and LEDCTRL reading the shown one word by word.   *)
(*                                                                         *)
(* CPUCTRL holds wr_to_mem up until the next transfer starts, so a pixel   *)
(* is written not once but for as long as it stays on the write port.      *)
(***************************************************************************)
EXTENDS BspGfx, FiniteSets

CONSTANTS
  PowerUp,     \* what the output ports may hold before the first command
  Waits        \* TRUE: the application lets a frame go by after a flip

ASSUME WaitsAssumption == Waits \in BOOLEAN /\ \A f \in PowerUp : f \in PortFile

VARIABLES
  pc, todo,                   \* the application, the transfers of its call
  workbuf,                    \* bsp_workbuf
  waiting,                    \* a flip was asked for; it has not happened
  cur, done,                  \* the transfer on the link, and whether it is over
  ports, wr,                  \* CPUCTRL's outputs; wr is << >> or <<address, word>>
  reg_work_buffer, reg_show_buffer,
  mem,                        \* MEM0 and MEM1: buffer to contents
  unread,                     \* addresses LEDCTRL has not read in this frame
  panel,                      \* the words being shown
  drawn, flipped              \* history: the pictures as the calls drew them

cpuVars == <<pc, todo, workbuf, waiting>>
fpgaVars == <<ports, wr, reg_work_buffer, reg_show_buffer, mem>>
scanVars == <<unread, panel>>
vars == <<cpuVars, cur, done, fpgaVars, scanVars, drawn, flipped>>

(* The addresses the strokes touch, and the words there.                   *)
CellOf(t) == <<t.bytes[1], t.bytes[2] % 4>>
WordIn(t) == <<t.bytes[3], t.bytes[4]>>
Data == {t \in Transfer : t.cpu_cmd = 0}
Cells == {CellOf(t) : t \in Data}
Blank == <<0, 0>>
Colours == {Blank} \cup {WordIn(t) : t \in Data}

Dark == [c \in Cells |-> Blank]

Init ==
  /\ pc = "boot" /\ todo = << >> /\ workbuf = 0 /\ waiting = FALSE
  /\ cur = Command(255) /\ done = TRUE
  /\ ports \in PowerUp /\ wr = << >>
  /\ reg_work_buffer = 0 /\ reg_show_buffer = 0
  /\ mem = [b \in 0 .. 1 |-> Dark]
  /\ unread = Cells /\ panel = Dark
  /\ drawn = Dark /\ flipped = Dark

-----------------------------------------------------------------------------

(* The application.  It flips once before it draws, as gfxlib.h asks.      *)
InitGfx ==
  /\ pc = "boot" /\ pc' = "ready"
  /\ todo' = InitTransfers /\ workbuf' = 0
  /\ UNCHANGED <<waiting, cur, done, fpgaVars, scanVars, drawn, flipped>>

(* bsp_flipbuf(), without the exchange of bsp_workbuf: a slip the          *)
(* properties catch.                                                       *)
FlipBufSame ==
  /\ pc # "boot" /\ todo = << >> /\ ~waiting
  /\ pc' = "drawing"
  /\ todo' = FlipTransfers(workbuf) /\ UNCHANGED workbuf
  /\ waiting' = Waits
  /\ drawn' = flipped /\ flipped' = drawn
  /\ UNCHANGED <<cur, done, fpgaVars, scanVars>>

FlipBuf ==
  /\ pc # "boot" /\ todo = << >> /\ ~waiting
  /\ pc' = "drawing"
  /\ todo' = FlipTransfers(workbuf) /\ workbuf' = 1 - workbuf
  /\ waiting' = Waits
  /\ drawn' = flipped /\ flipped' = drawn
  /\ UNCHANGED <<cur, done, fpgaVars, scanVars>>

SetPixelXY(x, y, col) ==
  /\ pc = "drawing" /\ todo = << >> /\ ~waiting
  /\ todo' = PixelTransfers(x, y, col)
  /\ drawn' = IF todo' = << >> THEN drawn
              ELSE [drawn EXCEPT ![CellOf(todo'[1])] = WordIn(todo'[1])]
  /\ UNCHANGED <<pc, workbuf, waiting, cur, done, fpgaVars, scanVars, flipped>>

(* A slip the properties catch: a new transfer leaves the write port up.   *)
AskHeld ==
  /\ todo # << >> /\ done
  /\ cur' = Head(todo) /\ todo' = Tail(todo) /\ done' = FALSE
  /\ UNCHANGED <<pc, workbuf, waiting, fpgaVars, scanVars, drawn, flipped>>

(* The next transfer starts: its sync takes the write port down.           *)
Ask ==
  /\ todo # << >> /\ done
  /\ cur' = Head(todo) /\ todo' = Tail(todo) /\ done' = FALSE
  /\ wr' = << >>
  /\ UNCHANGED <<pc, workbuf, waiting, ports, reg_work_buffer, reg_show_buffer,
                 mem, scanVars, drawn, flipped>>

(* The memories after the write port has been up on buffer b.              *)
WriteTo(b, w, m) == IF w = << >> THEN m ELSE [m EXCEPT ![b][w[1]] = w[2]]

(* CPUCTRL carries the transfer out.                                       *)
Deliver ==
  /\ ~done /\ done' = TRUE
  /\ ports' = PortsAfter(cur, ports)
  /\ wr' = IF cur.cpu_cmd = 0 THEN <<CellOf(cur), WordIn(cur)>> ELSE wr
  /\ mem' = WriteTo(reg_work_buffer, wr', mem)
  /\ UNCHANGED <<cpuVars, cur, reg_work_buffer, reg_show_buffer, scanVars, drawn, flipped>>

-----------------------------------------------------------------------------

(* LEDCTRL reads a word of the shown memory (LedScan has the order).       *)
ReadWord(c) ==
  /\ c \in unread /\ unread' = unread \ {c}
  /\ panel' = [panel EXCEPT ![c] = mem[reg_show_buffer][c]]
  /\ UNCHANGED <<cpuVars, cur, done, fpgaVars, drawn, flipped>>

(* A slip the properties catch: the work buffer does not wait for vertsync. *)
LatchShowOnly ==
  /\ reg_work_buffer' = reg_work_buffer
  /\ reg_show_buffer' = ports["show_buffer"]

(* The registers follow the ports at vertsync.                             *)
Latch ==
  /\ reg_work_buffer' = ports["work_buffer"]
  /\ reg_show_buffer' = ports["show_buffer"]

(* The end of a frame.  A pixel still on the write port goes to the new    *)
(* work buffer too.  An application that waits for its flip may go on.     *)
VertSync ==
  /\ unread = {} /\ unread' = Cells
  /\ Latch
  /\ mem' = WriteTo(reg_work_buffer', wr, mem)
  /\ waiting' = (waiting /\ ~(todo = << >> /\ done))
  /\ UNCHANGED <<pc, todo, workbuf, cur, done, ports, wr, panel, drawn, flipped>>

Call == InitGfx \/ FlipBuf \/ \E s \in Strokes : SetPixelXY(s[1], s[2], s[3])

Next ==
  \/ Call
  \/ Ask \/ Deliver
  \/ (\E c \in Cells : ReadWord(c)) \/ VertSync

Spec == Init /\ [][Next]_vars

(* A call that has been made is carried out, and the scan does not stop.   *)
FairSpec ==
  /\ Spec
  /\ WF_vars(Ask) /\ WF_vars(Deliver)
  /\ WF_vars((\E c \in Cells : ReadWord(c)) \/ VertSync)

-----------------------------------------------------------------------------

TypeOK ==
  /\ pc \in {"boot", "ready", "drawing"} /\ todo \in Seq(Transfer)
  /\ workbuf \in 0 .. 1 /\ waiting \in BOOLEAN
  /\ cur \in Transfer \cup {Command(255)} /\ done \in BOOLEAN
  /\ ports \in PortFile /\ wr \in {<< >>} \cup (Cells \X Colours)
  /\ reg_work_buffer \in 0 .. 1 /\ reg_show_buffer \in 0 .. 1
  /\ mem \in [0 .. 1 -> [Cells -> Colours]]
  /\ unread \subseteq Cells /\ panel \in [Cells -> Colours]
  /\ drawn \in [Cells -> Colours] /\ flipped \in [Cells -> Colours]

Pages == INSTANCE PagedDisplay WITH
  front <- IF waiting THEN drawn ELSE flipped,
  back <- IF waiting THEN flipped ELSE drawn,
  flipping <- waiting

(* Although a flip is two commands that may fall on either side of a       *)
(* vertsync, pixels reach the memory after the call that set them, and the *)
(* write port stays up, the drivers and the FPGA do what gfxlib.h:99-101   *)
(* says: nothing is drawn on the page shown, and the pages change places   *)
(* between two frames.                                                     *)
Implements == Pages!Spec

(* A complete frame is a picture as the application had drawn it when it   *)
(* flipped: the last one, or the one before while that flip is under way.  *)
ShownAsDrawn ==
  unread = {} => panel = flipped \/ (waiting /\ panel = drawn)

(* Every pixel of a picture that is flipped is shown in a complete frame.  *)
FlipShown ==
  \A c \in Cells, w \in Colours :
    (waiting /\ flipped[c] = w) ~> (unread = {} /\ panel[c] = w)

(* What gfxlib.h:99-101 and 118 say without asking for a wait: a flip takes *)
(* place at vertsync and pixels go to the working buffer, so the page being *)
(* shown never changes.                                                     *)
ShownPageSteady ==
  [][reg_show_buffer' = reg_show_buffer => mem'[reg_show_buffer] = mem[reg_show_buffer]]_vars

=============================================================================
