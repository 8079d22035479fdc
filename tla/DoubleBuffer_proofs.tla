------------------------ MODULE DoubleBuffer_proofs -------------------------
(***************************************************************************)
(* Double buffering, for every set of strokes, panel position and contents *)
(* of the ports at power-up: types, and, of an application that lets a     *)
(* frame pass after a flip, that a frame shows one finished picture and    *)
(* that drivers and FPGA implement PagedDisplay.                           *)
(***************************************************************************)
EXTENDS DoubleBuffer, TLAPS

USE PanelAssumption, StrokesAssumption

-----------------------------------------------------------------------------
(* What a command does to the ports leaves a port file (cpuctrl.vhd        *)
(* 85-131).                                                                *)
LEMMA ExecuteType ==
  ASSUME NEW f \in PortFile, NEW op \in Byte
  PROVE  Execute(op, f) \in PortFile
<1> DEFINE Pins == {"shdn_ledsup", "shdnn_muxsup", "lbn_rsx", "on_rsx",
                    "sel1_rsx", "sel2_rsx", "show_buffer", "work_buffer"}
<1>0. Pin = Pins /\ Port = Pins \cup {"pwm_duty"} /\ "pwm_duty" \notin Pins
  BY DEF Pin, Port
<1>1. ASSUME NEW p \in Pin, NEW v \in 0 .. 1
      PROVE  [f EXCEPT ![p] = v] \in PortFile
  BY <1>1 DEF PortFile, Port
<1>2. ASSUME NEW v \in 0 .. 128
      PROVE  [f EXCEPT !["pwm_duty"] = v] \in PortFile
  BY <1>0, <1>2 DEF PortFile
<1>3. CASE op \in 0 .. 11
  <2>1. PinOf[op \div 2 + 1] \in Pin /\ op % 2 \in 0 .. 1
    BY <1>3 DEF PinOf, Pin
  <2>2. Execute(op, f) = [f EXCEPT ![PinOf[op \div 2 + 1]] = op % 2]
    BY <1>3 DEF Execute
  <2> QED BY <1>1, <2>1, <2>2
<1>4. CASE op \in 16 .. 21
  <2>1. Duty[op - 16] \in 0 .. 128
    BY <1>4 DEF Duty
  <2>2. Execute(op, f) = [f EXCEPT !["pwm_duty"] = Duty[op - 16]]
    BY <1>4 DEF Execute
  <2> QED BY <1>2, <2>1, <2>2
<1>5. CASE op \in 32 .. 33
  <2>1. Execute(op, f) = [f EXCEPT !["show_buffer"] = op % 2] /\ op % 2 \in 0 .. 1
    BY <1>5 DEF Execute
  <2> QED BY <1>1, <2>1 DEF Pin
<1>6. CASE op \in 34 .. 35
  <2>1. Execute(op, f) = [f EXCEPT !["work_buffer"] = op % 2] /\ op % 2 \in 0 .. 1
    BY <1>6 DEF Execute
  <2> QED BY <1>1, <2>1 DEF Pin
<1>7. CASE op \notin 0 .. 11 \cup 16 .. 21 \cup 32 .. 35
  BY <1>7 DEF Execute, Byte
<1> QED BY <1>3, <1>4, <1>5, <1>6, <1>7

(* What the driver's calls queue is made of transfers (bitfire_gfx.c).     *)
LEMMA CallsType ==
  /\ InitTransfers \in Seq(Transfer)
  /\ \A w \in 0 .. 1 : FlipTransfers(w) \in Seq(Transfer)
  /\ \A s \in Strokes : PixelTransfers(s[1], s[2], s[3]) \in Seq(Transfer)
<1>1. \A op \in {1, 3, 16 + PRESET} \cup 32 .. 35 : Command(op) \in Transfer
  BY DEF Transfer
<1>2. \A w \in 0 .. 1 : WorkBuf(w) \in Transfer /\ ShowBuf(w) \in Transfer
  BY <1>1 DEF WorkBuf, ShowBuf
<1>3. InitTransfers \in Seq(Transfer)
  BY <1>1, <1>2 DEF InitTransfers
<1>4. \A w \in 0 .. 1 : FlipTransfers(w) \in Seq(Transfer)
  BY <1>2 DEF FlipTransfers
<1>5. \A s \in Strokes : InWindow(s[1], s[2]) => PixelData(PixelAddr(s[1], s[2]), s[3]) \in Transfer
  BY DEF Transfer
<1>6. \A s \in Strokes : PixelTransfers(s[1], s[2], s[3]) \in Seq(Transfer)
  BY <1>5 DEF PixelTransfers
<1> QED BY <1>3, <1>4, <1>6

(* The ports a transfer asks for are a port file.                          *)
LEMMA PortsAfterShape ==
  ASSUME NEW t \in Transfer \cup {Command(255)}, NEW f \in PortFile
  PROVE  PortsAfter(t, f) \in PortFile
<1>1. t.cpu_cmd = 1 => t.bytes[1] \in Byte
  BY DEF Transfer, Command, PixelData, Byte
<1> QED BY <1>1, ExecuteType DEF PortsAfter

LEMMA DataCell ==
  ASSUME NEW t \in Data
  PROVE  t \in Transfer /\ t.cpu_cmd = 0 /\ CellOf(t) \in Cells /\ WordIn(t) \in Colours
  BY DEF Data, Cells, Colours

LEMMA Commands ==
  ASSUME NEW op
  PROVE  Command(op).cpu_cmd = 1 /\ Command(op) \notin Data
  BY DEF Command, Data

(* A setpixel asks for nothing, or for one word of the frame memory.       *)
LEMMA PixelData1 ==
  ASSUME NEW s \in Strokes
  PROVE  \/ PixelTransfers(s[1], s[2], s[3]) = << >>
         \/ \E t \in Data : PixelTransfers(s[1], s[2], s[3]) = <<t>>
<1>1. CASE InWindow(s[1], s[2])
  <2>1. PixelData(PixelAddr(s[1], s[2]), s[3]) \in Data
    BY <1>1 DEF Data, Transfer, PixelData
  <2> QED
    BY <1>1, <2>1 DEF PixelTransfers
<1>2. CASE ~InWindow(s[1], s[2])
  BY <1>2 DEF PixelTransfers
<1> QED
  BY <1>1, <1>2

(* What WorkBuf and ShowBuf do to the ports.                               *)
LEMMA BufferPorts ==
  ASSUME NEW f \in PortFile, NEW n \in 0 .. 1
  PROVE  /\ PortsAfter(WorkBuf(n), f)["work_buffer"] = n
         /\ PortsAfter(WorkBuf(n), f)["show_buffer"] = f["show_buffer"]
         /\ PortsAfter(ShowBuf(n), f)["show_buffer"] = n
         /\ PortsAfter(ShowBuf(n), f)["work_buffer"] = f["work_buffer"]
<1>1. n = 0 \/ n = 1
  OBVIOUS
<1>2. (34 + n) % 2 = n /\ (32 + n) % 2 = n
  BY <1>1
<1>3. DOMAIN f = Port /\ "work_buffer" \in Port /\ "show_buffer" \in Port
  BY DEF PortFile, Port, Pin
<1>4. PortsAfter(WorkBuf(n), f) = Execute(34 + n, f) /\ PortsAfter(ShowBuf(n), f) = Execute(32 + n, f)
  BY DEF PortsAfter, WorkBuf, ShowBuf, Command
<1>5. \A op \in 34 .. 35 : Execute(op, f) = [f EXCEPT !["work_buffer"] = op % 2]
  BY DEF Execute
<1>6. \A op \in 32 .. 33 : Execute(op, f) = [f EXCEPT !["show_buffer"] = op % 2]
  BY DEF Execute
<1>7. 34 + n \in 34 .. 35 /\ 32 + n \in 32 .. 33
  BY <1>1
<1>8. /\ PortsAfter(WorkBuf(n), f) = [f EXCEPT !["work_buffer"] = n]
      /\ PortsAfter(ShowBuf(n), f) = [f EXCEPT !["show_buffer"] = n]
  BY <1>2, <1>4, <1>5, <1>6, <1>7
<1> QED
  BY <1>3, <1>8

LEMMA PortBits ==
  ASSUME NEW f \in PortFile
  PROVE  f["work_buffer"] \in 0 .. 1 /\ f["show_buffer"] \in 0 .. 1
  BY DEF PortFile, Port, Pin

LEMMA Writing ==
  ASSUME NEW m \in [0 .. 1 -> [Cells -> Colours]], NEW b \in 0 .. 1,
         NEW w \in {<< >>} \cup (Cells \X Colours)
  PROVE  /\ WriteTo(b, w, m) \in [0 .. 1 -> [Cells -> Colours]]
         /\ WriteTo(b, w, m)[1 - b] = m[1 - b]
         /\ w = << >> => WriteTo(b, w, m) = m
         /\ w # << >> => WriteTo(b, w, m)[b] = [m[b] EXCEPT ![w[1]] = w[2]]
<1>1. CASE w = << >>
  BY <1>1 DEF WriteTo
<1>2. CASE w \in Cells \X Colours
  <2>1. w # << >> /\ w[1] \in Cells /\ w[2] \in Colours /\ 1 - b # b /\ 1 - b \in 0 .. 1
    <3>1. PICK c \in Cells, v \in Colours : w = <<c, v>>
      BY <1>2
    <3>2. w # << >> /\ w[1] = c /\ w[2] = v
      BY <3>1
    <3>3. 1 - b # b /\ 1 - b \in 0 .. 1
      OBVIOUS
    <3> QED
      BY <3>1, <3>2, <3>3
  <2>2. WriteTo(b, w, m) = [m EXCEPT ![b] = [m[b] EXCEPT ![w[1]] = w[2]]]
    BY <2>1 DEF WriteTo
  <2>3. [m[b] EXCEPT ![w[1]] = w[2]] \in [Cells -> Colours]
    BY <2>1
  <2>4. PICK x \in [Cells -> Colours] : x = [m[b] EXCEPT ![w[1]] = w[2]]
    BY <2>3
  <2>5. WriteTo(b, w, m) = [m EXCEPT ![b] = x]
    BY <2>2, <2>4
  <2>6. WriteTo(b, w, m) \in [0 .. 1 -> [Cells -> Colours]]
    BY <2>4, <2>5
  <2>7. WriteTo(b, w, m)[1 - b] = m[1 - b]
    BY <2>1, <2>5
  <2>8. WriteTo(b, w, m)[b] = x
    BY <2>5
  <2> QED
    BY <2>1, <2>4, <2>6, <2>7, <2>8
<1> QED
  BY <1>1, <1>2

-----------------------------------------------------------------------------
(* Types.                                                                  *)

LEMMA DarkType == Dark \in [Cells -> Colours] /\ Blank \in Colours
  BY DEF Dark, Colours

LEMMA InitType == Init => TypeOK
<1>1. << >> \in Seq(Transfer)
  OBVIOUS
<1> QED
  BY <1>1, DarkType, WaitsAssumption DEF Init, TypeOK

LEMMA NextType == TypeOK /\ [Next]_vars => TypeOK'
<1> SUFFICES ASSUME TypeOK, [Next]_vars PROVE TypeOK'
  OBVIOUS
<1>1. CASE InitGfx
  BY <1>1, CallsType DEF InitGfx, TypeOK, fpgaVars, scanVars
<1>2. CASE FlipBuf
  <2>1. FlipTransfers(workbuf) \in Seq(Transfer) /\ 1 - workbuf \in 0 .. 1
    BY CallsType DEF TypeOK
  <2> QED
    BY <1>2, <2>1, WaitsAssumption DEF FlipBuf, TypeOK, fpgaVars, scanVars
<1>3. ASSUME NEW s \in Strokes, SetPixelXY(s[1], s[2], s[3])
      PROVE  TypeOK'
  <2>1. todo' \in Seq(Transfer) /\ (todo' = << >> \/ \E t \in Data : todo' = <<t>>)
    BY <1>3, CallsType, PixelData1 DEF SetPixelXY
  <2>2. drawn' \in [Cells -> Colours]
    <3>1. CASE todo' = << >>
      BY <1>3, <3>1 DEF SetPixelXY, TypeOK
    <3>2. ASSUME NEW t \in Data, todo' = <<t>>
          PROVE  drawn' \in [Cells -> Colours]
      <4>1. drawn' = [drawn EXCEPT ![CellOf(t)] = WordIn(t)]
        BY <1>3, <3>2 DEF SetPixelXY
      <4> QED
        BY <4>1, DataCell DEF TypeOK
    <3> QED
      BY <2>1, <3>1, <3>2
  <2> QED
    BY <1>3, <2>1, <2>2 DEF SetPixelXY, TypeOK, fpgaVars, scanVars
<1>4. CASE Ask
  <2>1. Head(todo) \in Transfer /\ Tail(todo) \in Seq(Transfer)
    BY <1>4 DEF Ask, TypeOK
  <2> QED
    BY <1>4, <2>1 DEF Ask, TypeOK, scanVars
<1>5. CASE Deliver
  <2>1. ports' \in PortFile
    BY <1>5, PortsAfterShape DEF Deliver, TypeOK
  <2>2. wr' \in {<< >>} \cup (Cells \X Colours)
    <3>1. cur.cpu_cmd = 0 => cur \in Data
      BY Commands DEF TypeOK, Data
    <3> QED
      BY <1>5, <3>1, DataCell DEF Deliver, TypeOK
  <2>3. mem' \in [0 .. 1 -> [Cells -> Colours]]
    BY <1>5, <2>2, Writing DEF Deliver, TypeOK
  <2> QED
    BY <1>5, <2>1, <2>2, <2>3 DEF Deliver, TypeOK, cpuVars, scanVars
<1>6. ASSUME NEW c \in Cells, ReadWord(c)
      PROVE  TypeOK'
  <2>1. mem[reg_show_buffer][c] \in Colours
    BY DEF TypeOK
  <2> QED
    BY <1>6, <2>1 DEF ReadWord, TypeOK, cpuVars, fpgaVars
<1>7. CASE VertSync
  <2>1. reg_work_buffer' \in 0 .. 1 /\ reg_show_buffer' \in 0 .. 1
    BY <1>7, PortBits DEF VertSync, Latch, TypeOK
  <2>2. mem' \in [0 .. 1 -> [Cells -> Colours]]
    BY <1>7, <2>1, Writing DEF VertSync, TypeOK
  <2> QED
    BY <1>7, <2>1, <2>2 DEF VertSync, TypeOK
<1>8. CASE UNCHANGED vars
  BY <1>8 DEF vars, cpuVars, fpgaVars, scanVars, TypeOK
<1> QED
  BY <1>1, <1>2, <1>3, <1>4, <1>5, <1>6, <1>7, <1>8 DEF Next, Call

(* Every variable keeps its type, with and without the wait after a flip:  *)
(* no pixel is written outside the frame memory, no register leaves its    *)
(* range.                                                                  *)
THEOREM TypeCorrect == Spec => []TypeOK
  BY InitType, NextType, PTL DEF Spec

-----------------------------------------------------------------------------
(* Which page is which: before the flip that is under way has happened,    *)
(* the buffer that the driver will draw next is still shown.               *)
Front == IF waiting THEN drawn ELSE flipped
Back == IF waiting THEN flipped ELSE drawn
BackBuf == IF waiting THEN 1 - workbuf ELSE workbuf
FrontBuf == IF waiting THEN workbuf ELSE 1 - workbuf

(* A flip: both commands ahead, one on the link, or the second one.        *)
BothLeft == todo = FlipTransfers(1 - workbuf)

OneLeft ==
  /\ todo = <<ShowBuf(1 - workbuf)>> /\ cur = WorkBuf(workbuf) /\ wr = << >>
  /\ done => ports["work_buffer"] = workbuf

NoneLeft ==
  /\ todo = << >> /\ cur = ShowBuf(1 - workbuf) /\ wr = << >>
  /\ ports["work_buffer"] = workbuf
  /\ done => ports["show_buffer"] = 1 - workbuf

FlipInv == waiting => pc = "drawing" /\ (BothLeft \/ OneLeft \/ NoneLeft)

(* Until the first flip has happened, whatever the ports hold, all is      *)
(* dark and no pixel is under way.                                         *)
Fresh ==
  /\ pc = "drawing" => waiting
  /\ wr = << >> /\ cur.cpu_cmd = 1 /\ \A k \in 1 .. Len(todo) : todo[k].cpu_cmd = 1
  /\ mem = [b \in 0 .. 1 |-> Dark] /\ panel = Dark /\ drawn = Dark /\ flipped = Dark

Carried(t, m) == IF t.cpu_cmd = 0 THEN [m EXCEPT ![CellOf(t)] = WordIn(t)] ELSE m
Arrived == IF done THEN mem[BackBuf] ELSE Carried(cur, mem[BackBuf])

(* Pixels go to the back buffer, and will have made the back page of it;   *)
(* a pixel still on the write port is one that is there already.           *)
BackInv ==
  /\ ~waiting \/ BothLeft => /\ ports["work_buffer"] = BackBuf /\ reg_work_buffer = BackBuf
                             /\ ~done => cur.cpu_cmd = 0
  /\ Back = IF waiting \/ todo = << >> THEN Arrived ELSE Carried(Head(todo), Arrived)
  /\ wr # << >> => mem[BackBuf][wr[1]] = wr[2]

(* The front page is in the front buffer, and that one is shown.           *)
FrontInv ==
  /\ mem[FrontBuf] = Front /\ reg_show_buffer = FrontBuf
  /\ ~(waiting /\ todo = << >> /\ done) => ports["show_buffer"] = FrontBuf

Running ==
  /\ pc = "drawing" /\ BackInv /\ FrontInv
  /\ ~waiting => todo = << >> \/ \E t \in Data : todo = <<t>>

ShownSoFar == \A c \in Cells \ unread : panel[c] = Front[c]

PageInv == TypeOK /\ FlipInv /\ (Fresh \/ Running) /\ ShownSoFar

-----------------------------------------------------------------------------
LEMMA FlipShape ==
  ASSUME NEW n \in 0 .. 1
  PROVE  /\ FlipTransfers(n) = <<WorkBuf(1 - n), ShowBuf(n)>>
         /\ FlipTransfers(1 - n) = <<WorkBuf(n), ShowBuf(1 - n)>>
         /\ WorkBuf(n).cpu_cmd = 1 /\ ShowBuf(n).cpu_cmd = 1
         /\ WorkBuf(1 - n).cpu_cmd = 1 /\ ShowBuf(1 - n).cpu_cmd = 1
         /\ 1 - n \in 0 .. 1 /\ 1 - (1 - n) = n
         /\ FlipTransfers(n) # << >>
<1>1. 1 - n \in 0 .. 1 /\ 1 - (1 - n) = n
  OBVIOUS
<1>2. FlipTransfers(n) = <<WorkBuf(1 - n), ShowBuf(n)>>
  BY DEF FlipTransfers
<1>3. FlipTransfers(1 - n) = <<WorkBuf(n), ShowBuf(1 - n)>>
  BY <1>1 DEF FlipTransfers
<1> QED
  BY <1>1, <1>2, <1>3, Commands DEF WorkBuf, ShowBuf

LEMMA InitPages == Init => PageInv
<1> SUFFICES ASSUME Init PROVE PageInv
  OBVIOUS
<1>1. TypeOK
  BY InitType
<1>2. Fresh
  BY Commands DEF Init, Fresh
<1>3. FlipInv /\ ShownSoFar
  BY DEF Init, FlipInv, ShownSoFar
<1> QED
  BY <1>1, <1>2, <1>3 DEF PageInv

(* The initialisation sends commands only.                                 *)
LEMMA InitGfxPages == ASSUME PageInv, InitGfx PROVE FlipInv' /\ (Fresh \/ Running)' /\ ShownSoFar'
<1>1. ~waiting /\ Fresh
  BY DEF PageInv, InitGfx, FlipInv, Running
<1>2. \A k \in 1 .. Len(InitTransfers) : InitTransfers[k].cpu_cmd = 1
  BY Commands DEF InitTransfers, WorkBuf, ShowBuf
<1>3. Fresh'
  BY <1>1, <1>2 DEF InitGfx, Fresh, fpgaVars, scanVars
<1>4. FlipInv' /\ ShownSoFar'
  BY <1>1 DEF InitGfx, FlipInv, PageInv, ShownSoFar, Front, scanVars
<1> QED
  BY <1>3, <1>4

(* A flip changes the names of the pages, not what is in the buffers.      *)
LEMMA FlipPages ==
  ASSUME Waits, PageInv, FlipBuf
  PROVE  FlipInv' /\ (Fresh \/ Running)' /\ ShownSoFar' /\ Front' = Front /\ Back' = Back
<1>1. /\ todo = << >> /\ ~waiting /\ waiting' = TRUE /\ pc' = "drawing"
      /\ todo' = FlipTransfers(workbuf) /\ workbuf' = 1 - workbuf
      /\ drawn' = flipped /\ flipped' = drawn /\ workbuf \in 0 .. 1
      /\ UNCHANGED <<cur, done, ports, wr, reg_work_buffer, reg_show_buffer, mem, unread, panel>>
  BY DEF FlipBuf, PageInv, TypeOK, fpgaVars, scanVars
<1>2. 1 - workbuf' = workbuf /\ todo' = <<WorkBuf(1 - workbuf), ShowBuf(workbuf)>> /\ todo' # << >>
  BY <1>1, FlipShape
<1>3. BothLeft'
  BY <1>1, <1>2 DEF BothLeft
<1>4. Front' = Front /\ Back' = Back /\ BackBuf' = BackBuf /\ FrontBuf' = FrontBuf
  BY <1>1, <1>2 DEF Front, Back, BackBuf, FrontBuf
<1>5. FlipInv' /\ ShownSoFar'
  BY <1>1, <1>3, <1>4 DEF FlipInv, PageInv, ShownSoFar
<1>6. ASSUME Fresh PROVE Fresh'
  <2>1. \A k \in 1 .. Len(todo') : todo'[k].cpu_cmd = 1
    BY <1>1, <1>2, FlipShape
  <2> QED
    BY <1>6, <1>1, <2>1 DEF Fresh
<1>7. ASSUME Running PROVE Running'
  <2>1. Arrived' = Arrived
    BY <1>1, <1>4 DEF Arrived
  <2>2. BackInv'
    BY <1>7, <1>1, <1>3, <1>4, <2>1 DEF Running, BackInv
  <2>3. FrontInv'
    BY <1>7, <1>1, <1>2, <1>4 DEF Running, FrontInv
  <2> QED
    BY <1>1, <2>2, <2>3 DEF Running
<1> QED
  BY <1>4, <1>5, <1>6, <1>7 DEF PageInv

(* A pixel is drawn on the back page, and asked for.                       *)
LEMMA PixelPages ==
  ASSUME PageInv, NEW s \in Strokes, SetPixelXY(s[1], s[2], s[3])
  PROVE  /\ FlipInv' /\ (Fresh \/ Running)' /\ ShownSoFar'
         /\ UNCHANGED <<flipped, waiting, unread, panel>>
         /\ ~waiting
         /\ drawn' = drawn \/ \E c \in Cells, w \in Colours : drawn' = [drawn EXCEPT ![c] = w]
<1>1. /\ pc = "drawing" /\ todo = << >> /\ ~waiting
      /\ todo' = PixelTransfers(s[1], s[2], s[3])
      /\ drawn' = IF todo' = << >> THEN drawn ELSE [drawn EXCEPT ![CellOf(todo'[1])] = WordIn(todo'[1])]
      /\ UNCHANGED <<pc, workbuf, waiting, cur, done, ports, wr, reg_work_buffer, reg_show_buffer, mem,
                     unread, panel, flipped>>
  BY DEF SetPixelXY, fpgaVars, scanVars
<1>2. Running /\ ShownSoFar
  BY <1>1 DEF PageInv, Fresh
<1>3. Front' = Front /\ BackBuf' = BackBuf /\ FrontBuf' = FrontBuf /\ Back' = drawn' /\ Back = drawn
  BY <1>1 DEF Front, Back, BackBuf, FrontBuf
<1>4. FlipInv' /\ ShownSoFar'
  BY <1>1, <1>2, <1>3 DEF FlipInv, ShownSoFar
<1>5. Arrived' = Arrived
  BY <1>1, <1>3 DEF Arrived
<1>6. FrontInv'
  BY <1>1, <1>2, <1>3 DEF Running, FrontInv
<1>7. CASE todo' = << >>
  <2>1. BackInv'
    BY <1>7, <1>1, <1>2, <1>3, <1>5 DEF Running, BackInv
  <2> QED
    BY <1>7, <1>1, <1>4, <1>6, <2>1 DEF Running
<1>8. ASSUME NEW t \in Data, todo' = <<t>>
      PROVE  Running' /\ \E c \in Cells, w \in Colours : drawn' = [drawn EXCEPT ![c] = w]
  <2>1. Head(todo') = t /\ todo'[1] = t /\ todo' # << >>
    BY <1>8
  <2>2. drawn' = [drawn EXCEPT ![CellOf(t)] = WordIn(t)]
    BY <1>1, <2>1
  <2>3. Arrived = drawn
    BY <1>1, <1>2, <1>3 DEF Running, BackInv
  <2>4. Back' = Carried(Head(todo'), Arrived')
    BY <1>3, <1>5, <2>1, <2>2, <2>3, DataCell DEF Carried
  <2>5. BackInv'
    BY <1>1, <1>2, <1>3, <1>5, <2>1, <2>4 DEF Running, BackInv
  <2>6. Running'
    BY <1>1, <1>6, <1>8, <2>5 DEF Running
  <2> QED
    BY <2>2, <2>6, DataCell
<1> QED
  BY <1>1, <1>4, <1>7, <1>8, PixelData1

LEMMA OneIsNotBoth == ASSUME NEW n \in 0 .. 1 PROVE <<ShowBuf(1 - n)>> # FlipTransfers(1 - n) /\ << >> # FlipTransfers(1 - n)
<1>1. Len(<<ShowBuf(1 - n)>>) = 1 /\ Len(<<WorkBuf(n), ShowBuf(1 - n)>>) = 2 /\ Len(<< >>) = 0
  OBVIOUS
<1> QED
  BY <1>1, FlipShape

(* A transfer starts: a pixel that was ahead is on the link, a flip has    *)
(* one command less ahead, the write port is down.                         *)
LEMMA AskPages == ASSUME PageInv, Ask PROVE FlipInv' /\ (Fresh \/ Running)' /\ ShownSoFar'
<1>1. /\ todo # << >> /\ done /\ cur' = Head(todo) /\ todo' = Tail(todo) /\ done' = FALSE /\ wr' = << >>
      /\ todo \in Seq(Transfer) /\ workbuf \in 0 .. 1
      /\ UNCHANGED <<pc, workbuf, waiting, ports, reg_work_buffer, reg_show_buffer, mem, unread, panel,
                     drawn, flipped>>
  BY DEF Ask, PageInv, TypeOK, scanVars
<1>2. Front' = Front /\ BackBuf' = BackBuf /\ FrontBuf' = FrontBuf /\ Back' = Back
  BY <1>1 DEF Front, Back, BackBuf, FrontBuf
<1>3. ShownSoFar'
  BY <1>1, <1>2 DEF PageInv, ShownSoFar
<1>4. ASSUME BothLeft PROVE OneLeft'
  <2>1. todo = <<WorkBuf(workbuf), ShowBuf(1 - workbuf)>>
    BY <1>1, <1>4, FlipShape DEF BothLeft
  <2>2. cur' = WorkBuf(workbuf) /\ todo' = <<ShowBuf(1 - workbuf)>>
    BY <1>1, <2>1
  <2> QED
    BY <1>1, <2>2 DEF OneLeft
<1>5. ASSUME OneLeft PROVE NoneLeft'
  <2>1. cur' = ShowBuf(1 - workbuf) /\ todo' = << >> /\ ports["work_buffer"] = workbuf
    BY <1>1, <1>5 DEF OneLeft
  <2> QED
    BY <1>1, <2>1 DEF NoneLeft
<1>6. waiting => pc = "drawing" /\ (OneLeft' \/ NoneLeft')
  BY <1>1, <1>4, <1>5 DEF PageInv, FlipInv, NoneLeft
<1>7. FlipInv'
  BY <1>1, <1>6 DEF FlipInv
<1>8. ASSUME Fresh PROVE Fresh'
  <2>1. Len(todo) \in Nat /\ Len(todo) > 0 /\ Head(todo) = todo[1]
    BY <1>1
  <2>2. Head(todo).cpu_cmd = 1
    BY <2>1, <1>8 DEF Fresh
  <2>3. Len(todo') = Len(todo) - 1 /\ \A k \in 1 .. Len(todo') : todo'[k] = todo[k + 1]
    BY <1>1, <2>1
  <2>4. \A k \in 1 .. Len(todo') : todo'[k].cpu_cmd = 1
    BY <2>1, <2>3, <1>8 DEF Fresh
  <2> QED
    BY <1>8, <1>1, <2>2, <2>4 DEF Fresh
<1>9. ASSUME Running PROVE Running'
  <2>1. FrontInv'
    BY <1>1, <1>2, <1>9 DEF Running, FrontInv
  <2>2. Arrived = mem[BackBuf]
    BY <1>1 DEF Arrived
  <2>3. CASE waiting
    <3>1. cur'.cpu_cmd = 1 /\ ~BothLeft'
      BY <2>3, <1>1, <1>6, FlipShape, OneIsNotBoth DEF OneLeft, NoneLeft, BothLeft
    <3>2. Arrived' = mem[BackBuf]
      BY <1>1, <1>2, <3>1 DEF Arrived, Carried
    <3>3. BackInv'
      BY <2>3, <1>1, <1>2, <1>9, <2>2, <3>1, <3>2 DEF Running, BackInv
    <3> QED
      BY <2>1, <2>3, <1>1, <1>9, <3>3 DEF Running
  <2>4. CASE ~waiting
    <3>1. PICK t \in Data : todo = <<t>>
      BY <2>4, <1>1, <1>9 DEF Running
    <3>2. cur' = t /\ todo' = << >> /\ t.cpu_cmd = 0
      BY <1>1, <3>1, DataCell
    <3>3. Arrived' = Carried(t, mem[BackBuf])
      BY <1>1, <1>2, <3>2 DEF Arrived, Carried
    <3>4. Back = Carried(t, Arrived)
      BY <2>4, <1>1, <1>9, <3>1 DEF Running, BackInv
    <3>5. BackInv'
      BY <2>4, <1>1, <1>2, <1>9, <2>2, <3>2, <3>3, <3>4 DEF Running, BackInv
    <3> QED
      BY <2>1, <2>4, <1>1, <1>9, <3>2, <3>5 DEF Running
  <2> QED
    BY <2>3, <2>4
<1> QED
  BY <1>3, <1>7, <1>8, <1>9 DEF PageInv

(* A transfer arrives: a pixel in the back buffer, or a command in the     *)
(* ports.                                                                  *)
LEMMA DeliverPages == ASSUME PageInv, Deliver PROVE FlipInv' /\ (Fresh \/ Running)' /\ ShownSoFar'
<1>1. /\ ~done /\ done' = TRUE /\ ports' = PortsAfter(cur, ports)
      /\ wr' = IF cur.cpu_cmd = 0 THEN <<CellOf(cur), WordIn(cur)>> ELSE wr
      /\ mem' = WriteTo(reg_work_buffer, wr', mem)
      /\ UNCHANGED <<pc, todo, workbuf, waiting, cur, reg_work_buffer, reg_show_buffer, unread, panel,
                     drawn, flipped>>
  BY DEF Deliver, cpuVars, scanVars
<1>2. /\ workbuf \in 0 .. 1 /\ 1 - workbuf \in 0 .. 1 /\ ports \in PortFile /\ reg_work_buffer \in 0 .. 1
      /\ mem \in [0 .. 1 -> [Cells -> Colours]] /\ cur \in Transfer \cup {Command(255)}
      /\ wr \in {<< >>} \cup (Cells \X Colours)
  BY DEF PageInv, TypeOK
<1>3. Front' = Front /\ BackBuf' = BackBuf /\ FrontBuf' = FrontBuf /\ Back' = Back
  BY <1>1 DEF Front, Back, BackBuf, FrontBuf
<1>4. ShownSoFar'
  BY <1>1, <1>3 DEF PageInv, ShownSoFar
<1>5. ASSUME OneLeft PROVE OneLeft' /\ wr = << >> /\ ports'["show_buffer"] = ports["show_buffer"]
  <2>1. cur = WorkBuf(workbuf) /\ cur.cpu_cmd = 1
    BY <1>2, <1>5, FlipShape DEF OneLeft
  <2>2. ports'["work_buffer"] = workbuf /\ ports'["show_buffer"] = ports["show_buffer"]
    BY <1>1, <1>2, <2>1, BufferPorts
  <2> QED
    BY <1>1, <1>5, <2>1, <2>2 DEF OneLeft
<1>6. ASSUME NoneLeft PROVE NoneLeft' /\ wr = << >>
  <2>1. cur = ShowBuf(1 - workbuf) /\ cur.cpu_cmd = 1
    BY <1>2, <1>6, FlipShape DEF NoneLeft
  <2>2. ports'["show_buffer"] = 1 - workbuf /\ ports'["work_buffer"] = ports["work_buffer"]
    BY <1>1, <1>2, <2>1, BufferPorts
  <2> QED
    BY <1>1, <1>6, <2>1, <2>2 DEF NoneLeft
<1>7. BothLeft' = BothLeft
  BY <1>1 DEF BothLeft
<1>8. FlipInv'
  BY <1>1, <1>5, <1>6, <1>7 DEF PageInv, FlipInv
<1>9. ASSUME Fresh PROVE Fresh'
  <2>1. wr' = << >> /\ mem' = mem
    <3>1. wr' = << >>
      BY <1>1, <1>9 DEF Fresh
    <3> QED
      BY <1>1, <3>1 DEF WriteTo
  <2> QED
    BY <1>1, <1>9, <2>1 DEF Fresh
<1>10. BackBuf \in 0 .. 1 /\ FrontBuf = 1 - BackBuf
  BY <1>2, FlipShape DEF BackBuf, FrontBuf
<1>11. ASSUME Running, cur.cpu_cmd = 0 PROVE Running'
  <2>1. cur \in Data /\ wr' = <<CellOf(cur), WordIn(cur)>> /\ ports' = ports
    BY <1>1, <1>2, <1>11, Commands DEF Data, PortsAfter
  <2>2. CellOf(cur) \in Cells /\ WordIn(cur) \in Colours /\ wr' \in Cells \X Colours /\ wr' # << >>
        /\ wr'[1] = CellOf(cur) /\ wr'[2] = WordIn(cur)
    BY <2>1, DataCell
  <2>3. ~waiting \/ BothLeft
    BY <1>2, <1>11, FlipShape DEF PageInv, FlipInv, OneLeft, NoneLeft
  <2>4. reg_work_buffer = BackBuf /\ ports["work_buffer"] = BackBuf
    BY <2>3, <1>11 DEF Running, BackInv
  <2>5. mem'[BackBuf] = [mem[BackBuf] EXCEPT ![CellOf(cur)] = WordIn(cur)] /\ mem'[FrontBuf] = mem[FrontBuf]
    BY <1>1, <1>2, <1>10, <2>2, <2>4, Writing
  <2>6. Arrived' = Arrived
    BY <1>1, <1>3, <1>11, <2>5 DEF Arrived, Carried
  <2>7. mem'[BackBuf][wr'[1]] = wr'[2]
    BY <1>2, <1>10, <2>2, <2>5
  <2>8. BackInv'
    BY <1>1, <1>3, <1>7, <1>11, <2>1, <2>6, <2>7 DEF Running, BackInv
  <2>9. waiting => todo # << >>
    BY <2>3, <1>2, OneIsNotBoth DEF BothLeft
  <2>10. FrontInv'
    BY <1>1, <1>3, <1>11, <2>1, <2>5, <2>9 DEF Running, FrontInv
  <2> QED
    BY <1>1, <1>11, <2>8, <2>10 DEF Running
<1>12. ASSUME Running, cur.cpu_cmd # 0 PROVE Running'
  <2>1. waiting /\ ~BothLeft /\ (OneLeft \/ NoneLeft)
    BY <1>1, <1>12 DEF PageInv, FlipInv, Running, BackInv
  <2>2. wr' = << >> /\ mem' = mem
    <3>1. wr' = << >>
      BY <1>1, <1>5, <1>6, <1>12, <2>1
    <3> QED
      BY <1>1, <3>1 DEF WriteTo
  <2>3. Arrived' = Arrived
    BY <1>1, <1>3, <1>12, <2>2 DEF Arrived, Carried
  <2>4. BackInv'
    BY <1>1, <1>3, <1>7, <1>12, <2>1, <2>2, <2>3 DEF Running, BackInv
  <2>5. ~(waiting /\ todo = << >>) => ports'["show_buffer"] = ports["show_buffer"]
    BY <1>5, <2>1 DEF NoneLeft
  <2>6. FrontInv'
    BY <1>1, <1>3, <1>12, <2>2, <2>5 DEF Running, FrontInv
  <2> QED
    BY <1>1, <1>12, <2>1, <2>4, <2>6 DEF Running
<1> QED
  BY <1>4, <1>8, <1>9, <1>11, <1>12 DEF PageInv

(* A word is read: of the front page.                                      *)
LEMMA ReadPages ==
  ASSUME PageInv, NEW c \in Cells, ReadWord(c)
  PROVE  /\ FlipInv' /\ (Fresh \/ Running)' /\ ShownSoFar'
         /\ panel' = [panel EXCEPT ![c] = Front[c]]
<1>1. /\ c \in unread /\ unread' = unread \ {c} /\ unread \subseteq Cells
      /\ panel' = [panel EXCEPT ![c] = mem[reg_show_buffer][c]] /\ panel \in [Cells -> Colours]
      /\ reg_show_buffer \in 0 .. 1
      /\ UNCHANGED <<pc, todo, workbuf, waiting, cur, done, ports, wr, reg_work_buffer, reg_show_buffer,
                     mem, drawn, flipped>>
  BY DEF ReadWord, PageInv, TypeOK, cpuVars, fpgaVars
<1>2. /\ Front' = Front /\ Back' = Back /\ BackBuf' = BackBuf /\ FrontBuf' = FrontBuf
      /\ BothLeft' = BothLeft /\ OneLeft' = OneLeft /\ NoneLeft' = NoneLeft
  BY <1>1 DEF Front, Back, BackBuf, FrontBuf, BothLeft, OneLeft, NoneLeft
<1>3. mem[reg_show_buffer] = Front
  BY <1>1 DEF PageInv, Fresh, Running, FrontInv, Front
<1>4. panel' = [panel EXCEPT ![c] = Front[c]]
  BY <1>1, <1>3
<1>5. ShownSoFar'
  BY <1>1, <1>2, <1>4 DEF PageInv, ShownSoFar
<1>6. FlipInv'
  BY <1>1, <1>2 DEF PageInv, FlipInv
<1>7. ASSUME Fresh PROVE Fresh'
  <2>1. panel = Dark /\ Front = Dark
    BY <1>7 DEF Fresh, Front
  <2>2. panel' = Dark
    BY <1>1, <1>4, <2>1
  <2> QED
    BY <1>1, <1>7, <2>2 DEF Fresh
<1>8. ASSUME Running PROVE Running'
  <2>1. Arrived' = Arrived
    BY <1>1, <1>2 DEF Arrived
  <2>2. BackInv'
    BY <1>1, <1>2, <1>8, <2>1 DEF Running, BackInv
  <2>3. FrontInv'
    BY <1>1, <1>2, <1>8 DEF Running, FrontInv
  <2> QED
    BY <1>1, <1>8, <2>2, <2>3 DEF Running
<1> QED
  BY <1>4, <1>5, <1>6, <1>7, <1>8 DEF PageInv

(* A frame ends.  The write port writes what is there already; the         *)
(* registers keep to their pages, or, when the flip has been carried out,  *)
(* the pages change places.                                                *)
LEMMA VertSyncPages ==
  ASSUME PageInv, VertSync
  PROVE  /\ FlipInv' /\ (Fresh \/ Running)' /\ ShownSoFar'
         /\ unread = {} /\ unread' = Cells /\ UNCHANGED <<panel, drawn, flipped>>
         /\ waiting' => waiting
<1>1. /\ unread = {} /\ unread' = Cells
      /\ reg_work_buffer' = ports["work_buffer"] /\ reg_show_buffer' = ports["show_buffer"]
      /\ mem' = WriteTo(reg_work_buffer', wr, mem)
      /\ waiting' = (waiting /\ ~(todo = << >> /\ done))
      /\ UNCHANGED <<pc, todo, workbuf, cur, done, ports, wr, panel, drawn, flipped>>
  BY DEF VertSync, Latch
<1>2. /\ workbuf \in 0 .. 1 /\ 1 - workbuf \in 0 .. 1 /\ mem \in [0 .. 1 -> [Cells -> Colours]]
      /\ wr \in {<< >>} \cup (Cells \X Colours) /\ waiting \in BOOLEAN
  BY DEF PageInv, TypeOK
<1>3. ShownSoFar' /\ (waiting' => waiting)
  BY <1>1 DEF ShownSoFar
<1>4. BothLeft' = BothLeft /\ OneLeft' = OneLeft /\ NoneLeft' = NoneLeft
  BY <1>1 DEF BothLeft, OneLeft, NoneLeft
<1>5. FlipInv'
  BY <1>1, <1>3, <1>4 DEF PageInv, FlipInv
<1>6. BackBuf \in 0 .. 1 /\ FrontBuf \in 0 .. 1
  BY <1>2 DEF BackBuf, FrontBuf
<1>7. mem' = mem
  <2>1. CASE wr = << >>
    BY <1>1, <2>1 DEF WriteTo
  <2>2. CASE wr # << >>
    <3>1. Running /\ (~waiting \/ BothLeft)
      BY <2>2 DEF PageInv, FlipInv, Fresh, OneLeft, NoneLeft
    <3>2. reg_work_buffer' = BackBuf /\ mem[BackBuf][wr[1]] = wr[2]
      BY <1>1, <2>2, <3>1 DEF Running, BackInv
    <3>3. PICK a \in Cells, v \in Colours : wr = <<a, v>>
      BY <1>2, <2>2
    <3>4. wr[1] = a /\ wr[2] = v
      BY <3>3
    <3>5. mem' = [mem EXCEPT ![BackBuf] = [mem[BackBuf] EXCEPT ![a] = v]]
      BY <1>1, <2>2, <3>2, <3>4 DEF WriteTo
    <3>6. mem[BackBuf] \in [Cells -> Colours] /\ mem[BackBuf][a] = v
      BY <1>2, <1>6, <3>2, <3>4
    <3>7. [mem[BackBuf] EXCEPT ![a] = v] = mem[BackBuf]
      BY <3>6
    <3> QED
      BY <1>2, <1>6, <3>5, <3>7
  <2> QED
    BY <2>1, <2>2
<1>8. ASSUME waiting' = waiting PROVE (Fresh \/ Running)'
  <2>1. Front' = Front /\ Back' = Back /\ BackBuf' = BackBuf /\ FrontBuf' = FrontBuf
    BY <1>1, <1>8 DEF Front, Back, BackBuf, FrontBuf
  <2>2. ASSUME Fresh PROVE Fresh'
    BY <1>1, <1>7, <1>8, <2>2 DEF Fresh
  <2>3. ASSUME Running PROVE Running'
    <3>1. Arrived' = Arrived
      BY <1>1, <1>7, <2>1 DEF Arrived
    <3>2. BackInv'
      BY <1>1, <1>4, <1>7, <1>8, <2>1, <2>3, <3>1 DEF Running, BackInv
    <3>3. ports["show_buffer"] = FrontBuf
      BY <1>1, <1>2, <1>8, <2>3 DEF Running, FrontInv
    <3>4. FrontInv'
      BY <1>1, <1>7, <1>8, <2>1, <2>3, <3>3 DEF Running, FrontInv
    <3> QED
      BY <1>1, <1>8, <2>3, <3>2, <3>4 DEF Running
  <2> QED
    BY <2>2, <2>3 DEF PageInv
<1>9. ASSUME waiting' # waiting PROVE Running'
  <2>1. waiting /\ waiting' = FALSE /\ todo = << >> /\ done
    BY <1>1, <1>2, <1>9
  <2>2. pc = "drawing" /\ NoneLeft
    BY <1>2, <2>1, OneIsNotBoth DEF PageInv, FlipInv, OneLeft, BothLeft
  <2>3. /\ wr = << >> /\ reg_work_buffer' = workbuf /\ reg_show_buffer' = 1 - workbuf
        /\ ports["work_buffer"] = workbuf /\ ports["show_buffer"] = 1 - workbuf
    BY <1>1, <2>1, <2>2 DEF NoneLeft
  <2>4. /\ Front' = flipped /\ Back' = drawn /\ BackBuf' = workbuf /\ FrontBuf' = 1 - workbuf
        /\ Front = drawn /\ Back = flipped /\ BackBuf = 1 - workbuf /\ FrontBuf = workbuf
    BY <1>1, <2>1 DEF Front, Back, BackBuf, FrontBuf
  <2>5. mem[workbuf] = drawn /\ mem[1 - workbuf] = flipped
    <3>1. CASE Fresh
      BY <1>2, <3>1 DEF Fresh
    <3>2. CASE Running
      BY <2>1, <2>4, <3>2 DEF Running, BackInv, FrontInv, Arrived
    <3> QED
      BY <3>1, <3>2 DEF PageInv
  <2>6. Arrived' = drawn
    BY <1>1, <1>7, <2>1, <2>4, <2>5 DEF Arrived
  <2>7. BackInv'
    BY <1>1, <2>1, <2>3, <2>4, <2>6 DEF BackInv
  <2>8. FrontInv'
    BY <1>1, <1>7, <2>1, <2>3, <2>4, <2>5 DEF FrontInv
  <2> QED
    BY <1>1, <2>1, <2>2, <2>7, <2>8 DEF Running
<1> QED
  BY <1>1, <1>3, <1>5, <1>8, <1>9

-----------------------------------------------------------------------------
LEMMA StutterPages == ASSUME PageInv, UNCHANGED vars PROVE FlipInv' /\ (Fresh \/ Running)' /\ ShownSoFar'
<1>1. /\ UNCHANGED <<pc, todo, workbuf, waiting, cur, done, ports, wr, reg_work_buffer, reg_show_buffer>>
      /\ UNCHANGED <<mem, unread, panel, drawn, flipped>>
  BY DEF vars, cpuVars, fpgaVars, scanVars
<1>2. /\ Front' = Front /\ Back' = Back /\ BackBuf' = BackBuf /\ FrontBuf' = FrontBuf
      /\ BothLeft' = BothLeft /\ OneLeft' = OneLeft /\ NoneLeft' = NoneLeft
  BY <1>1 DEF Front, Back, BackBuf, FrontBuf, BothLeft, OneLeft, NoneLeft
<1>3. FlipInv' = FlipInv /\ ShownSoFar' = ShownSoFar /\ Arrived' = Arrived /\ Fresh' = Fresh
  BY <1>1, <1>2 DEF FlipInv, ShownSoFar, Arrived, Fresh
<1>4. BackInv' = BackInv /\ FrontInv' = FrontInv
  BY <1>1, <1>2, <1>3 DEF BackInv, FrontInv
<1>5. Running' = Running
  BY <1>1, <1>4 DEF Running
<1> QED
  BY <1>3, <1>5 DEF PageInv

LEMMA NextPages == ASSUME Waits, PageInv, [Next]_vars PROVE PageInv'
<1>1. TypeOK'
  BY NextType DEF PageInv
<1>2. FlipInv' /\ (Fresh \/ Running)' /\ ShownSoFar'
  BY InitGfxPages, FlipPages, PixelPages, AskPages, DeliverPages, ReadPages, VertSyncPages, StutterPages
  DEF Next, Call
<1> QED
  BY <1>1, <1>2 DEF PageInv

LEMMA PageInvariance == ASSUME Waits PROVE Spec => []PageInv
<1>1. PageInv /\ [Next]_vars => PageInv'
  BY NextPages
<1> QED
  BY InitPages, <1>1, PTL DEF Spec

(* A complete frame is one picture as the application had drawn it when it *)
(* flipped, although a flip is two commands that the registers may take on *)
(* at two frames, and the last pixel stays on the write port across a      *)
(* vertsync.                                                               *)
THEOREM ShownCorrect == ASSUME Waits PROVE Spec => []ShownAsDrawn
<1>1. PageInv => ShownAsDrawn
  <2> SUFFICES ASSUME PageInv, unread = {} PROVE panel = Front
    BY DEF ShownAsDrawn, Front
  <2>1. panel \in [Cells -> Colours] /\ drawn \in [Cells -> Colours] /\ flipped \in [Cells -> Colours]
    BY DEF PageInv, TypeOK
  <2>2. Front \in [Cells -> Colours] /\ \A c \in Cells : panel[c] = Front[c]
    BY <2>1 DEF Front, PageInv, ShownSoFar
  <2> QED
    BY <2>1, <2>2
<1> QED
  BY PageInvariance, <1>1, PTL

LEMMA StepPages == ASSUME Waits, PageInv, [Next]_vars PROVE [Pages!Next]_(Pages!pageVars)
<1>1. CASE InitGfx
  BY <1>1 DEF InitGfx, scanVars, Pages!pageVars
<1>2. CASE FlipBuf
  <2>1. Front' = Front /\ Back' = Back /\ ~waiting /\ waiting' /\ UNCHANGED <<unread, panel>>
    BY <1>2, FlipPages DEF FlipBuf, scanVars
  <2>2. Pages!Flip
    BY <2>1 DEF Pages!Flip, Front, Back
  <2> QED
    BY <2>2 DEF Pages!Next
<1>3. ASSUME NEW s \in Strokes, SetPixelXY(s[1], s[2], s[3])
      PROVE  [Pages!Next]_(Pages!pageVars)
  <2>1. UNCHANGED <<flipped, waiting, unread, panel>> /\ ~waiting
    BY <1>3, PixelPages
  <2>2. CASE drawn' = drawn
    BY <2>1, <2>2 DEF Pages!pageVars
  <2>3. ASSUME NEW c \in Cells, NEW w \in Colours, drawn' = [drawn EXCEPT ![c] = w]
        PROVE  Pages!Next
    <3>1. Pages!Draw(c, w)
      BY <2>1, <2>3 DEF Pages!Draw
    <3> QED
      BY <3>1 DEF Pages!Next
  <2> QED
    BY <1>3, <2>2, <2>3, PixelPages
<1>4. CASE Ask \/ Deliver
  BY <1>4 DEF Ask, Deliver, cpuVars, scanVars, Pages!pageVars
<1>5. ASSUME NEW c \in Cells, ReadWord(c)
      PROVE  Pages!Next
  <2>1. panel' = [panel EXCEPT ![c] = Front[c]]
    BY <1>5, ReadPages
  <2>2. Pages!Show(c)
    BY <1>5, <2>1 DEF ReadWord, cpuVars, Pages!Show, Front
  <2> QED
    BY <2>2 DEF Pages!Next
<1>6. CASE VertSync
  <2>1. /\ unread = {} /\ unread' = Cells /\ UNCHANGED <<panel, drawn, flipped>>
        /\ waiting' => waiting
    BY <1>6, VertSyncPages
  <2>2. waiting \in BOOLEAN /\ waiting' \in BOOLEAN
    BY NextType DEF PageInv, TypeOK
  <2>3. Pages!NewFrame
    BY <2>1, <2>2 DEF Pages!NewFrame
  <2> QED
    BY <2>3 DEF Pages!Next
<1>7. CASE UNCHANGED vars
  BY <1>7 DEF vars, cpuVars, scanVars, Pages!pageVars
<1> QED
  BY <1>1, <1>2, <1>3, <1>4, <1>5, <1>6, <1>7 DEF Next, Call

(* Drivers and FPGA implement the two pages of gfxlib.h: what is drawn     *)
(* goes to the page that is not shown, and the pages change places between *)
(* two frames, whole.                                                      *)
THEOREM DisplayImplements == ASSUME Waits PROVE Spec => Implements
<1>1. Init => Pages!Init
  BY DEF Init, Pages!Init, Dark
<1>2. PageInv /\ [Next]_vars => [Pages!Next]_(Pages!pageVars)
  BY StepPages
<1> QED
  BY <1>1, <1>2, PageInvariance, PTL DEF Spec, Implements, Pages!Spec
=============================================================================
