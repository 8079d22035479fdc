-------------------------- MODULE FpgaLink_proofs ---------------------------
(***************************************************************************)
(* Proofs about the serial link, for every byte width, every gap of six    *)
(* slow edges or more, every panel position and every set of strokes.  The *)
(* first part is about types.  The second shows that the link delivers:    *)
(* with the driver that waits for each byte to leave (Polled), no byte is  *)
(* torn and every transfer has been carried out, exactly as asked, before  *)
(* the driver touches the lines again.  Its invariant follows a byte       *)
(* through the link by two clocks it can be told by: the bits of it the    *)
(* SPI master has sent, and the slow edges since the last of them.         *)
(***************************************************************************)
EXTENDS FpgaLink, TLAPS

USE BitsAssumption, GapAssumption, PanelAssumption, StrokesAssumption

-----------------------------------------------------------------------------
(* The transfers of the driver's calls, and what they ask of the ports.    *)

(* What a command does to the ports leaves a port file (cpuctrl.vhd        *)
(* 85-131).                                                                *)
LEMMA ExecuteType ==
  ASSUME NEW f \in PortFile, NEW op \in Byte
  PROVE  Execute(op, f) \in PortFile
<1> DEFINE Pins == {"shdn_ledsup", "shdnn_muxsup", "lbn_rsx", "on_rsx",
                    "sel1_rsx", "sel2_rsx", "show_buffer", "work_buffer"}
<1>0. Pin = Pins /\ Port = Pins \cup {"pwm_duty"} /\ "pwm_duty" \notin Pins
  BY DEF Pin, Port
<1>1. ASSUME NEW p \in Pin, NEW v \in 0 .. 1
      PROVE  [f EXCEPT ![p] = v] \in PortFile
  BY <1>1 DEF PortFile, Port
<1>2. ASSUME NEW v \in 0 .. 128
      PROVE  [f EXCEPT !["pwm_duty"] = v] \in PortFile
  BY <1>0, <1>2 DEF PortFile
<1>3. CASE op \in 0 .. 11
  <2>1. PinOf[op \div 2 + 1] \in Pin /\ op % 2 \in 0 .. 1
    BY <1>3 DEF PinOf, Pin
  <2>2. Execute(op, f) = [f EXCEPT ![PinOf[op \div 2 + 1]] = op % 2]
    BY <1>3 DEF Execute
  <2> QED BY <1>1, <2>1, <2>2
<1>4. CASE op \in 16 .. 21
  <2>1. Duty[op - 16] \in 0 .. 128
    BY <1>4 DEF Duty
  <2>2. Execute(op, f) = [f EXCEPT !["pwm_duty"] = Duty[op - 16]]
    BY <1>4 DEF Execute
  <2> QED BY <1>2, <2>1, <2>2
<1>5. CASE op \in 32 .. 33
  <2>1. Execute(op, f) = [f EXCEPT !["show_buffer"] = op % 2] /\ op % 2 \in 0 .. 1
    BY <1>5 DEF Execute
  <2> QED BY <1>1, <2>1 DEF Pin
<1>6. CASE op \in 34 .. 35
  <2>1. Execute(op, f) = [f EXCEPT !["work_buffer"] = op % 2] /\ op % 2 \in 0 .. 1
    BY <1>6 DEF Execute
  <2> QED BY <1>1, <2>1 DEF Pin
<1>7. CASE op \notin 0 .. 11 \cup 16 .. 21 \cup 32 .. 35
  BY <1>7 DEF Execute, Byte
<1> QED BY <1>3, <1>4, <1>5, <1>6, <1>7

(* A transfer: a mode and one byte, or four.                               *)
LEMMA TransferShape ==
  ASSUME NEW t \in Transfer \cup {Command(255)}
  PROVE  /\ t.cpu_cmd \in 0 .. 1
         /\ t.bytes \in Seq(Byte)
         /\ t.cpu_cmd = 1 => Len(t.bytes) = 1
         /\ t.cpu_cmd = 0 => Len(t.bytes) = 4
         /\ Len(t.bytes) \in Nat /\ Len(t.bytes) > 0
         /\ t = [cpu_cmd |-> t.cpu_cmd, bytes |-> t.bytes]
<1>1. ASSUME NEW op \in Byte, t = Command(op)
      PROVE  /\ t.cpu_cmd = 1 /\ t.bytes \in Seq(Byte) /\ Len(t.bytes) = 1
             /\ Len(t.bytes) \in Nat /\ Len(t.bytes) > 0
             /\ t = [cpu_cmd |-> t.cpu_cmd, bytes |-> t.bytes]
  BY <1>1 DEF Command
<1>2. ASSUME NEW s \in Strokes, t = PixelData(PixelAddr(s[1], s[2]), s[3])
      PROVE  /\ t.cpu_cmd = 0 /\ t.bytes \in Seq(Byte) /\ Len(t.bytes) = 4
             /\ Len(t.bytes) \in Nat /\ Len(t.bytes) > 0
             /\ t = [cpu_cmd |-> t.cpu_cmd, bytes |-> t.bytes]
  <2>1. s[1] \in Nat /\ s[2] \in Nat /\ s[3][1] \in Byte /\ s[3][2] \in Byte
    OBVIOUS
  <2>2. s[1] % 40 \in 0 .. 39 /\ s[2] % 16 \in 0 .. 15
    BY <2>1
  <2>3. PixelAddr(s[1], s[2]) \in 0 .. 639
    BY <2>2 DEF PixelAddr, GL_XSIZE, GL_YSIZE
  <2>4. PixelAddr(s[1], s[2]) % 256 \in Byte /\ PixelAddr(s[1], s[2]) \div 256 \in Byte
    BY <2>3 DEF Byte
  <2> QED BY <1>2, <2>1, <2>4 DEF PixelData
<1>3. {1, 3, 16 + PRESET} \cup 32 .. 35 \cup {255} \subseteq Byte
  BY DEF Byte
<1>4. CASE t \in {Command(op) : op \in {1, 3, 16 + PRESET} \cup 32 .. 35} \cup {Command(255)}
  BY <1>1, <1>3, <1>4
<1>5. CASE t \in {PixelData(PixelAddr(s[1], s[2]), s[3]) : s \in {u \in Strokes : InWindow(u[1], u[2])}}
  BY <1>2, <1>5
<1> QED BY <1>4, <1>5 DEF Transfer

(* What the driver's calls queue is made of transfers (bitfire_gfx.c).     *)
LEMMA CallsType ==
  /\ InitTransfers \in Seq(Transfer)
  /\ \A w \in 0 .. 1 : FlipTransfers(w) \in Seq(Transfer)
  /\ \A s \in Strokes : PixelTransfers(s[1], s[2], s[3]) \in Seq(Transfer)
<1>1. \A op \in {1, 3, 16 + PRESET} \cup 32 .. 35 : Command(op) \in Transfer
  BY DEF Transfer
<1>2. \A w \in 0 .. 1 : WorkBuf(w) \in Transfer /\ ShowBuf(w) \in Transfer
  BY <1>1 DEF WorkBuf, ShowBuf
<1>3. InitTransfers \in Seq(Transfer)
  BY <1>1, <1>2 DEF InitTransfers
<1>4. \A w \in 0 .. 1 : FlipTransfers(w) \in Seq(Transfer)
  BY <1>2 DEF FlipTransfers
<1>5. \A s \in Strokes : InWindow(s[1], s[2]) => PixelData(PixelAddr(s[1], s[2]), s[3]) \in Transfer
  BY DEF Transfer
<1>6. \A s \in Strokes : PixelTransfers(s[1], s[2], s[3]) \in Seq(Transfer)
  BY <1>5 DEF PixelTransfers
<1> QED BY <1>3, <1>4, <1>6

(* The ports a transfer asks for are a port file.                          *)
LEMMA PortsAfterShape ==
  ASSUME NEW t \in Transfer \cup {Command(255)}, NEW f \in PortFile
  PROVE  PortsAfter(t, f) \in PortFile
<1>1. t.cpu_cmd = 1 => t.bytes[1] \in Byte
  BY TransferShape
<1> QED BY <1>1, ExecuteType DEF PortsAfter

(* The same for what the link may have been sent before its first byte.    *)
LEMMA TransferType ==
  ASSUME NEW t \in Transfer \cup {NoTransfer}
  PROVE  /\ t.cpu_cmd \in 0 .. 1
         /\ t.bytes \in Seq(Byte)
         /\ t.cpu_cmd = 1 => Len(t.bytes) = 1
         /\ t.cpu_cmd = 0 => Len(t.bytes) = 4
         /\ Len(t.bytes) \in Nat /\ Len(t.bytes) > 0
         /\ t = [cpu_cmd |-> t.cpu_cmd, bytes |-> t.bytes]
  BY TransferShape DEF NoTransfer

LEMMA PortsAfterType ==
  ASSUME NEW t \in Transfer \cup {NoTransfer}, NEW f \in PortFile
  PROVE  PortsAfter(t, f) \in PortFile
  BY PortsAfterShape DEF NoTransfer

-----------------------------------------------------------------------------

(* TypeOK is inductive once it says that a byte is handed to the SPI       *)
(* master only while one is left, and that a byte being received is not    *)
(* complete yet.                                                           *)
TypeInv ==
  /\ TypeOK
  /\ pc = "send" => nsent < Len(cur.bytes)
  /\ pc \in {"sync", "mode"} => nsent = 0
  /\ spi_state = 1 => ctr < BITS

LEMMA TypeInit == Init => TypeInv
<1> SUFFICES ASSUME Init PROVE TypeInv
  OBVIOUS
<1>1. InSpiTypeOK
  BY DEF Init, InSpiInit, InSpiTypeOK, Word, Byte
<1>2. CpuCtrlTypeOK
  BY PowerUpAssumption DEF Init, CpuCtrlInit, CpuCtrlTypeOK, Byte
<1>3. cur \in Transfer \cup {NoTransfer} /\ nsent \in 0 .. Len(cur.bytes)
  BY DEF Init, NoTransfer, Command
<1>4. todo \in Seq(Transfer) /\ tx \in Seq(Byte) /\ Len(tx) <= MasterDepth
  BY DEF Init, MasterDepth
<1>5. base.ports \in PortFile
  BY PowerUpAssumption DEF Init, CpuCtrlInit
<1> QED BY <1>1, <1>2, <1>3, <1>4, <1>5 DEF Init, InSpiInit, TypeInv, TypeOK

(* CPUCTRL keeps its types whatever byte it reads.                         *)
LEMMA CpuCtrlEdgeType ==
  ASSUME CpuCtrlTypeOK, NEW w \in Word, NEW r \in 0 .. 1, NEW m \in 0 .. 1,
         CpuCtrlEdge(w, r, m)
  PROVE  CpuCtrlTypeOK'
<1>1. PICK b \in Byte : CmdEdge(b, r, m) /\ MainEdge(b, r, m)
  BY GarbledAssumption DEF CpuCtrlEdge, Word
<1>2. cmdstate' \in 0 .. 1 /\ ports' \in PortFile
  BY <1>1, ExecuteType DEF CmdEdge, CpuCtrlTypeOK
<1>3. b % 4 \in 0 .. 3
  BY DEF Byte
<1>4. /\ cc_state' \in 0 .. 7
      /\ tmpaddr' \in Byte \X (0 .. 3) /\ tmpdata' \in Byte \X Byte
      /\ wr_to_mem' \in 0 .. 1
      /\ wraddr_to_mem' \in Byte \X (0 .. 3) /\ data_to_mem' \in Byte \X Byte
  <2>0. 0 \in Byte
    BY DEF Byte
  <2>1. CASE Take(b, r, m) /\ UNCHANGED <<wraddr_to_mem, data_to_mem>>
    BY <1>3, <2>0, <2>1 DEF Take, CpuCtrlTypeOK
  <2>2. CASE Toggle(r) /\ UNCHANGED <<wraddr_to_mem, data_to_mem>>
    BY <2>2 DEF Toggle, CpuCtrlTypeOK
  <2>3. CASE Hold(r) /\ UNCHANGED <<wraddr_to_mem, data_to_mem>>
    BY <2>3 DEF Hold, CpuCtrlTypeOK
  <2>4. CASE Write(r)
    BY <2>4 DEF Write, CpuCtrlTypeOK
  <2> QED BY <1>1, <2>1, <2>2, <2>3, <2>4 DEF MainEdge
<1> QED BY <1>2, <1>4 DEF CpuCtrlTypeOK

(* The write port writes inside the memory.                                *)
LEMMA MemWriteType ==
  ASSUME CpuCtrlTypeOK, DOMAIN vram \subseteq Byte \X (0 .. 3), MemWrite
  PROVE  DOMAIN vram' \subseteq Byte \X (0 .. 3)
BY DEF CpuCtrlTypeOK, MemWrite, Written, Put

(* A serial edge keeps the types of both ends.                             *)
LEMMA BitType ==
  ASSUME TypeInv, MasterBit, Receive
  PROVE  /\ tx' \in Seq(Byte) /\ Len(tx') <= MasterDepth
         /\ bit' \in 0 .. BITS - 1 /\ quiet' \in 0 .. GAP
         /\ ctr' \in 0 .. BITS /\ spi_state' \in 0 .. 1 /\ tmpres' \in Word
         /\ spi_state' = 1 => ctr' < BITS
<1>1. tx \in Seq(Byte) /\ tx # << >> /\ Len(tx) <= 2
  BY DEF TypeInv, TypeOK, MasterBit, MasterDepth
<1>2. Head(tx) \in Byte /\ Tail(tx) \in Seq(Byte) /\ Len(Tail(tx)) = Len(tx) - 1
  BY <1>1
<1>3. tx' \in Seq(Byte) /\ Len(tx') <= MasterDepth
  BY <1>1, <1>2 DEF MasterBit, MasterDepth
<1>4. bit' \in 0 .. BITS - 1 /\ quiet' \in 0 .. GAP
  BY DEF MasterBit, TypeInv, TypeOK
<1>5. /\ ctr' \in 0 .. BITS /\ spi_state' \in 0 .. 1 /\ tmpres' \in Word
      /\ spi_state' = 1 => ctr' < BITS
  <2>1. CASE tsync = 1
    BY <2>1 DEF Receive, TypeInv, TypeOK, InSpiTypeOK
  <2>2. CASE tsync # 1
    BY <1>2, <2>2 DEF Receive, SpiEdge, TypeInv, TypeOK, InSpiTypeOK, Word
  <2> QED BY <2>1, <2>2
<1> QED BY <1>3, <1>4, <1>5

(* A slow edge keeps the types of the FPGA.                                *)
LEMMA SlowClockType ==
  ASSUME TypeInv, NEW full \in BOOLEAN, NEW word \in Word, SlowClock(full, word)
  PROVE  /\ outstate' \in 0 .. 3 /\ outdata' \in Word /\ outrdy' \in 0 .. 1
         /\ CpuCtrlTypeOK'
         /\ DOMAIN vram' \subseteq Byte \X (0 .. 3)
<1>1. outstate' \in 0 .. 3 /\ outdata' \in Word /\ outrdy' \in 0 .. 1
  <2>1. CASE tsync = 1
    BY <2>1 DEF SlowClock, TypeInv, TypeOK, InSpiTypeOK
  <2>2. CASE tsync # 1
    <3>1. SlowEdge(full, word)
      BY <2>2 DEF SlowClock
    <3>2. outstate \in 0 .. 3 /\ outdata \in Word /\ outrdy \in 0 .. 1 /\ 0 \in Word
      BY DEF TypeInv, TypeOK, InSpiTypeOK, Word, Byte
    <3> QED BY <3>1, <3>2 DEF SlowEdge
  <2> QED BY <2>1, <2>2
<1>2. CpuCtrlTypeOK'
  <2>1. CASE tsync = 1
    BY <2>1 DEF SlowClock, TypeInv, TypeOK, CpuCtrlTypeOK, cpuctrlVars
  <2>2. CASE tsync # 1
    BY <2>2, CpuCtrlEdgeType DEF SlowClock, TypeInv, TypeOK, InSpiTypeOK
  <2> QED BY <2>1, <2>2
<1>3. DOMAIN vram' \subseteq Byte \X (0 .. 3)
  BY MemWriteType DEF SlowClock, TypeInv, TypeOK
<1> QED BY <1>1, <1>2, <1>3

LEMMA TypeStep == TypeInv /\ [Next]_vars => TypeInv'
<1> SUFFICES ASSUME TypeInv, [Next]_vars PROVE TypeInv'
  OBVIOUS
<1> USE DEF TypeInv, TypeOK
<1>1. CASE UNCHANGED vars
  BY <1>1 DEF vars, inspiVars, cpuctrlVars, cpuVars, spiVars, InSpiTypeOK, CpuCtrlTypeOK
<1>2. CASE Call
  <2> USE DEF inspiVars, cpuctrlVars, spiVars, InSpiTypeOK, CpuCtrlTypeOK
  <2>1. CASE InitGfx
    BY <2>1, CallsType DEF InitGfx
  <2>2. CASE FlipBuf
    BY <2>2, CallsType DEF FlipBuf
  <2>3. ASSUME NEW s \in Strokes, SetPixelXY(s[1], s[2], s[3]) PROVE TypeInv'
    BY <2>3, CallsType DEF SetPixelXY
  <2> QED BY <1>2, <2>1, <2>2, <2>3 DEF Call
<1>3. CASE SyncHigh
  <2>1. InSpiTypeOK' /\ CpuCtrlTypeOK'
    BY <1>3 DEF SyncHigh, InSpiReset, CpuCtrlReset, InSpiTypeOK, CpuCtrlTypeOK, Word, Byte
  <2>2. cur' \in Transfer /\ todo' \in Seq(Transfer)
    BY <1>3 DEF SyncHigh
  <2>3. nsent' = 0 /\ nsent' \in 0 .. Len(cur'.bytes)
    <3>1. Len(cur'.bytes) \in Nat
      BY <2>2, TransferType
    <3> QED BY <1>3, <3>1 DEF SyncHigh
  <2>4. base'.ports \in PortFile
    BY <1>3, PortsAfterType DEF SyncHigh, Asked
  <2>5. pc' = "sync" /\ spi_state' = 0 /\ tsync' = 1
    BY <1>3 DEF SyncHigh, InSpiReset
  <2>6. UNCHANGED <<workbuf, tx, bit, tcsel, quiet, vram>>
    BY <1>3 DEF SyncHigh, spiVars
  <2> QED BY <2>1, <2>2, <2>3, <2>4, <2>5, <2>6
<1>4. CASE SyncLow \/ SetMode
  <2>1. cur.cpu_cmd \in 0 .. 1 /\ Len(cur.bytes) \in Nat /\ Len(cur.bytes) > 0
    BY TransferType
  <2>2. UNCHANGED <<inspiVars, cpuctrlVars, todo, cur, nsent, workbuf, spiVars, quiet, vram, base>>
    BY <1>4 DEF SyncLow, SetMode
  <2>3. nsent = 0 /\ pc' \in {"mode", "send"} /\ tsync' \in 0 .. 1 /\ tcsel' \in 0 .. 1
    BY <1>4, <2>1 DEF SyncLow, SetMode
  <2>4. InSpiTypeOK' /\ CpuCtrlTypeOK' /\ (spi_state = 1 => ctr < BITS)'
    BY <2>2 DEF InSpiTypeOK, CpuCtrlTypeOK, inspiVars, cpuctrlVars
  <2>5. UNCHANGED <<todo, cur, nsent, workbuf, tx, bit, quiet, vram, base>>
    BY <2>2 DEF spiVars
  <2>6. nsent' = 0 /\ nsent' < Len(cur'.bytes) /\ nsent' \in 0 .. Len(cur'.bytes)
    <3>1. 0 < Len(cur.bytes) /\ 0 \in 0 .. Len(cur.bytes)
      BY <2>1
    <3>2. nsent' = 0 /\ cur' = cur
      BY <2>3, <2>5
    <3> QED BY <3>1, <3>2
  <2> QED BY <2>3, <2>4, <2>5, <2>6
<1>5. CASE Send
  <2>1. cur.bytes \in Seq(Byte) /\ nsent \in 0 .. Len(cur.bytes) - 1
    BY <1>5, TransferType DEF Send
  <2>2. tx' \in Seq(Byte) /\ Len(tx') <= MasterDepth
    <3>1. cur.bytes[nsent + 1] \in Byte
      BY <2>1
    <3>2. Len(tx) < 2
      BY <1>5 DEF Send, MasterDepth
    <3> QED BY <1>5, <3>1, <3>2 DEF Send, MasterDepth
  <2> QED BY <1>5, <2>1, <2>2 DEF Send, inspiVars, cpuctrlVars, InSpiTypeOK, CpuCtrlTypeOK
<1>6. CASE Bit
  BY <1>6, BitType DEF Bit, MasterBit, cpuVars, cpuctrlVars, InSpiTypeOK, CpuCtrlTypeOK
<1>7. CASE BitOnEdge
  <2>1. /\ tx' \in Seq(Byte) /\ Len(tx') <= MasterDepth
        /\ bit' \in 0 .. BITS - 1 /\ quiet' \in 0 .. GAP
        /\ ctr' \in 0 .. BITS /\ spi_state' \in 0 .. 1 /\ tmpres' \in Word
        /\ spi_state' = 1 => ctr' < BITS
    BY <1>7, BitType DEF BitOnEdge
  <2>2. Held \in Word /\ Held' \in Word
    BY <2>1 DEF Held, Word, InSpiTypeOK
  <2>3. PICK full \in BOOLEAN, word \in Word : SlowClock(full, word)
    BY <1>7, <2>2 DEF BitOnEdge
  <2>4. /\ outstate' \in 0 .. 3 /\ outdata' \in Word /\ outrdy' \in 0 .. 1
        /\ CpuCtrlTypeOK' /\ DOMAIN vram' \subseteq Byte \X (0 .. 3)
    BY <2>3, SlowClockType
  <2> QED BY <1>7, <2>1, <2>4 DEF BitOnEdge, MasterBit, cpuVars, InSpiTypeOK
<1>8. CASE Tick
  <2>1. Held \in Word /\ (ctr = BITS) \in BOOLEAN
    BY DEF Held, Word, InSpiTypeOK
  <2>2. /\ outstate' \in 0 .. 3 /\ outdata' \in Word /\ outrdy' \in 0 .. 1
        /\ CpuCtrlTypeOK' /\ DOMAIN vram' \subseteq Byte \X (0 .. 3)
    BY <1>8, <2>1, SlowClockType DEF Tick
  <2>3. quiet' \in 0 .. GAP
    BY <1>8 DEF Tick
  <2> QED BY <1>8, <2>2, <2>3 DEF Tick, cpuVars, spiVars, InSpiTypeOK
<1> QED BY <1>1, <1>2, <1>3, <1>4, <1>5, <1>6, <1>7, <1>8 DEF Next

LEMMA TypeInvariance == Spec => []TypeInv
BY TypeInit, TypeStep, PTL DEF Spec

(* Whatever the clocks and the calls do, no register, counter or queue of  *)
(* the link leaves its range: in particular the bit counter of INSPI_BUF   *)
(* never passes a byte and CPUCTRL never leaves its eight states.          *)
THEOREM TypeCorrect == Spec => []TypeOK
<1>1. TypeInv => TypeOK
  BY DEF TypeInv
<1> QED BY <1>1, TypeInvariance, PTL

-----------------------------------------------------------------------------

(* Bytes of the current transfer that are wholly on the FPGA's side.       *)
Arrived == nsent - Len(tx)

(* The CPU: sync is up in its one state, the mode line is set before the   *)
(* first byte, the SPI master has at most the byte handed over last.       *)
CpuInv ==
  /\ tsync = 1 <=> pc = "sync"
  /\ pc = "boot" => nsent = 0
  /\ pc \in {"boot", "idle"} =>
       nsent = Len(cur.bytes) \/ (nsent = 0 /\ cur = NoTransfer)
  /\ pc = "send" \/ nsent > 0 => tcsel = cur.cpu_cmd
  /\ tx = << >> \/ (nsent > 0 /\ tx = <<cur.bytes[nsent]>>)
  /\ bit > 0 => tx # << >>

(* The serial side of INSPI_BUF holds the bits sent so far of the byte on  *)
(* the wire, or the whole of the one before.                               *)
WireInv ==
  \/ bit > 0 /\ spi_state = 1 /\ ctr = bit /\ tmpres = Head(tx)
  \/ bit = 0 /\ spi_state = 0 /\ Arrived = 0 /\ ctr = 0
  \/ bit = 0 /\ spi_state = 0 /\ Arrived > 0 /\ ctr = BITS /\ tmpres = cur.bytes[Arrived]

(* CPUCTRL has taken k bytes and is ready for another; or it has taken k   *)
(* and waits for ready to drop.                                            *)
Armed(k) ==
  /\ cmdstate = 0
  /\ IF cur.cpu_cmd = 1 THEN k = 0 /\ cc_state = 0 ELSE cc_state = 2 * k

Took(k) ==
  IF cur.cpu_cmd = 1 THEN k = 1 /\ cmdstate = 1 /\ cc_state = 0
                     ELSE cmdstate = 0 /\ cc_state = 2 * k - 1

(* Nothing has arrived.                                                    *)
Silent == Arrived = 0 /\ outstate = 0 /\ outrdy = 0 /\ Armed(0)

(* A byte has arrived, `quiet` slow edges ago: seen three times it is      *)
(* ready, the edge after that it is taken.                                 *)
Presented ==
  /\ bit = 0 /\ Arrived > 0
  /\ quiet <= 2 => outstate \in {quiet, quiet + 1}
  /\ quiet >= 3 => outstate = 3
  /\ quiet <= 2 => outrdy = 0
  /\ quiet >= 4 => outrdy = 1
  /\ quiet >= 1 => outdata = cur.bytes[Arrived]
  /\ \/ quiet <= 4 /\ Armed(Arrived - 1)
     \/ quiet >= 4 /\ Took(Arrived)
  /\ quiet >= 6 /\ Arrived = 4 => wr_to_mem = 1

(* The next byte is on its way: the one before is withdrawn and CPUCTRL    *)
(* sees that, before the new one is complete.                              *)
Withdrawn ==
  /\ bit > 0 /\ Arrived > 0
  /\ bit >= 2 \/ quiet >= 1 => outstate = 0 /\ outrdy = 0
  /\ outrdy = 1 => outstate = 3 /\ outdata = cur.bytes[Arrived] /\ Took(Arrived)
  /\ outrdy = 0 => outstate = 0
  /\ \/ bit <= 2 /\ ~(bit = 2 /\ quiet >= 1) /\ Took(Arrived)
     \/ Armed(Arrived)

HandshakeInv == Silent \/ Presented \/ Withdrawn

(* What has been carried out: the ports change when a command is taken,    *)
(* the memory when the write port goes up with the address and data the    *)
(* transfer brought; until then both are what the transfers before left.   *)
Collected ==
  /\ cc_state >= 1 => tmpaddr[1] = cur.bytes[1]
  /\ cc_state >= 3 => tmpaddr[2] = cur.bytes[2] % 4
  /\ cc_state >= 5 => tmpdata[1] = cur.bytes[3]
  /\ cc_state = 7 => tmpdata[2] = cur.bytes[4]

Carried ==
  /\ ports = IF cur.cpu_cmd = 1 /\ cmdstate = 1 THEN Execute(cur.bytes[1], base.ports)
                                                ELSE base.ports
  /\ Written = IF cc_state = 7 /\ wr_to_mem = 1 THEN MemAfter(cur, base.vram)
                                                ELSE base.vram
  /\ cc_state \in 1 .. 6 => wr_to_mem = 0
  /\ Collected

LinkInv == TypeInv /\ CpuInv /\ WireInv /\ HandshakeInv /\ Carried

(* What a step may do to ports and memory: nothing, or all that is asked.  *)
Lawful ==
  \/ UNCHANGED <<ports, Written>>
  \/ ports' = PortsAfter(cur, base.ports) /\ Written' = MemAfter(cur, base.vram)

-----------------------------------------------------------------------------

(* Writing a word twice is writing it once (the write port stays up).      *)
LEMMA PutTwice ==
  ASSUME NEW m, NEW a, NEW w
  PROVE  Put(Put(m, a, w), a, w) = Put(m, a, w)
BY DEF Put

(* The memory as the write port leaves it does not change while the port   *)
(* keeps its word, nor when it goes down.                                  *)
LEMMA WrittenStays ==
  ASSUME MemWrite,
         \/ wr_to_mem' = 0
         \/ UNCHANGED <<wr_to_mem, wraddr_to_mem, data_to_mem>>
  PROVE  Written' = Written
<1>1. CASE wr_to_mem' = 0
  BY <1>1 DEF MemWrite, Written
<1>2. CASE UNCHANGED <<wr_to_mem, wraddr_to_mem, data_to_mem>>
  BY <1>2, PutTwice DEF MemWrite, Written
<1> QED BY <1>1, <1>2

(* A data transfer is carried out by putting up the collected word.        *)
LEMMA CollectedWord ==
  ASSUME CpuCtrlTypeOK, Collected, cc_state = 7, cur.cpu_cmd = 0, NEW m
  PROVE  MemAfter(cur, m) = Put(m, tmpaddr, tmpdata)
<1>1. /\ tmpaddr = <<tmpaddr[1], tmpaddr[2]>> /\ tmpdata = <<tmpdata[1], tmpdata[2]>>
  BY DEF CpuCtrlTypeOK
<1>2. /\ tmpaddr[1] = cur.bytes[1] /\ tmpaddr[2] = cur.bytes[2] % 4
      /\ tmpdata[1] = cur.bytes[3] /\ tmpdata[2] = cur.bytes[4]
  BY DEF Collected
<1> QED BY <1>1, <1>2 DEF MemAfter

-----------------------------------------------------------------------------
(* The four things a slow edge can mean to CPUCTRL (cpuctrl.vhd 72-198).   *)

(* Nothing is ready and no byte is held: it goes on waiting.               *)
LEMMA WaitingEdge ==
  ASSUME CpuCtrlTypeOK, Carried, UNCHANGED <<cur, base>>, cur.cpu_cmd \in 0 .. 1,
         NEW w, NEW m \in 0 .. 1, CpuCtrlEdge(w, 0, m), MemWrite,
         NEW k \in 0 .. 3, Armed(k)
  PROVE  Armed(k)' /\ Carried' /\ Lawful
<1>1. PICK b : CmdEdge(b, 0, m) /\ MainEdge(b, 0, m)
  BY DEF CpuCtrlEdge
<1>2. cmdstate' = cmdstate /\ ports' = ports /\ cmdstate = 0
  BY <1>1 DEF CmdEdge, Armed
<1>3. cc_state \in {0, 2, 4, 6}
  BY DEF Armed
<1>4. /\ cc_state' = cc_state
      /\ wr_to_mem' = 0 \/ UNCHANGED <<wr_to_mem, wraddr_to_mem, data_to_mem>>
      /\ cc_state # 0 => UNCHANGED <<tmpaddr, tmpdata, wr_to_mem>>
  BY <1>1, <1>3 DEF MainEdge, Take, Toggle, Hold, Write
<1>5. Written' = Written
  BY <1>4, WrittenStays
<1>6. Collected'
  BY <1>3, <1>4 DEF Carried, Collected
<1> QED BY <1>2, <1>3, <1>4, <1>5, <1>6 DEF Armed, Carried, Lawful

(* A byte was taken and ready has dropped: it arms for the next.           *)
LEMMA WithdrawnEdge ==
  ASSUME CpuCtrlTypeOK, Carried, UNCHANGED <<cur, base>>, cur.cpu_cmd = 0,
         NEW w, NEW m \in 0 .. 1, CpuCtrlEdge(w, 0, m), MemWrite,
         NEW k \in 1 .. 3, Took(k)
  PROVE  Armed(k)' /\ Carried' /\ Lawful
<1>1. PICK b : CmdEdge(b, 0, m) /\ MainEdge(b, 0, m)
  BY DEF CpuCtrlEdge
<1>2. cmdstate' = cmdstate /\ ports' = ports /\ cmdstate = 0
  BY <1>1 DEF CmdEdge, Took
<1>3. cc_state \in {1, 3, 5} /\ cc_state = 2 * k - 1
  BY DEF Took
<1>4. /\ cc_state' = cc_state + 1
      /\ UNCHANGED <<tmpaddr, tmpdata, wr_to_mem, wraddr_to_mem, data_to_mem>>
  BY <1>1, <1>3 DEF MainEdge, Take, Toggle, Hold, Write
<1>5. Written' = Written
  BY <1>4, WrittenStays
<1>6. Collected'
  BY <1>3, <1>4 DEF Carried, Collected
<1> QED BY <1>2, <1>3, <1>4, <1>5, <1>6 DEF Armed, Carried, Lawful

(* A byte was taken and is still ready: nothing is taken again.  After the *)
(* last byte of a data transfer, the write port goes up.                   *)
LEMMA HoldingEdge ==
  ASSUME CpuCtrlTypeOK, Carried, UNCHANGED <<cur, base>>, cur.cpu_cmd \in 0 .. 1,
         NEW w, CpuCtrlEdge(w, 1, cur.cpu_cmd), MemWrite,
         NEW k \in 1 .. 4, Took(k)
  PROVE  /\ Took(k)' /\ Carried'
         /\ cur.cpu_cmd = 0 /\ k = 4 => wr_to_mem' = 1
         /\ Lawful
<1>1. PICK b : CmdEdge(b, 1, cur.cpu_cmd) /\ MainEdge(b, 1, cur.cpu_cmd)
  BY DEF CpuCtrlEdge
<1>2. cmdstate' = cmdstate /\ ports' = ports
  BY <1>1 DEF CmdEdge, Took
<1>3. CASE cur.cpu_cmd = 1
  <2>1. cc_state = 0
    BY <1>3 DEF Took
  <2>2. cc_state' = 0 /\ wr_to_mem' = 0
    BY <1>1, <1>3, <2>1 DEF MainEdge, Take, Toggle, Hold, Write
  <2>3. Written' = Written
    BY <2>2, WrittenStays
  <2> QED BY <1>2, <1>3, <2>1, <2>2, <2>3 DEF Took, Carried, Collected, Lawful
<1>4. CASE cur.cpu_cmd = 0 /\ k < 4
  <2>1. cc_state \in {1, 3, 5} /\ cc_state = 2 * k - 1
    BY <1>4 DEF Took
  <2>2. UNCHANGED <<cc_state, tmpaddr, tmpdata, wr_to_mem, wraddr_to_mem, data_to_mem>>
    BY <1>1, <2>1 DEF MainEdge, Take, Toggle, Hold, Write
  <2>3. Written' = Written
    BY <2>2, WrittenStays
  <2>4. Collected'
    BY <2>2 DEF Carried, Collected
  <2> QED BY <1>2, <1>4, <2>1, <2>2, <2>3, <2>4 DEF Took, Carried, Lawful
<1>5. CASE cur.cpu_cmd = 0 /\ k = 4
  <2>1. cc_state = 7
    BY <1>5 DEF Took
  <2>2. /\ wr_to_mem' = 1 /\ wraddr_to_mem' = tmpaddr /\ data_to_mem' = tmpdata
        /\ UNCHANGED <<cc_state, tmpaddr, tmpdata>>
    BY <1>1, <2>1 DEF MainEdge, Take, Toggle, Hold, Write
  <2>3. MemAfter(cur, base.vram) = Put(base.vram, tmpaddr, tmpdata)
    BY <1>5, <2>1, CollectedWord DEF Carried
  <2>4. vram' \in {base.vram, Put(base.vram, tmpaddr, tmpdata)}
    BY <2>1, <2>3 DEF MemWrite, Carried
  <2>5. Written' = Put(base.vram, tmpaddr, tmpdata)
    BY <2>2, <2>4, PutTwice DEF Written
  <2>6. Collected'
    BY <2>2 DEF Carried, Collected
  <2>7. ports' = PortsAfter(cur, base.ports) /\ Written' = MemAfter(cur, base.vram)
    BY <1>2, <1>5, <2>3, <2>5 DEF Carried, PortsAfter
  <2> QED BY <1>2, <1>5, <2>1, <2>2, <2>3, <2>5, <2>6, <2>7 DEF Took, Carried, Lawful
<1> QED BY <1>3, <1>4, <1>5

(* The next byte is ready: it is taken, and a command is carried out.      *)
LEMMA TakingEdge ==
  ASSUME CpuCtrlTypeOK, Carried, UNCHANGED <<cur, base>>,
         cur \in Transfer \cup {NoTransfer},
         NEW k \in 0 .. 3, k < Len(cur.bytes), Armed(k),
         CpuCtrlEdge(cur.bytes[k + 1], 1, cur.cpu_cmd), MemWrite
  PROVE  Took(k + 1)' /\ Carried' /\ Lawful
<1> DEFINE b == cur.bytes[k + 1]
<1>1. /\ cur.cpu_cmd \in 0 .. 1 /\ b \in Byte
      /\ cur.cpu_cmd = 1 => Len(cur.bytes) = 1
  BY TransferType
<1>2. CmdEdge(b, 1, cur.cpu_cmd) /\ MainEdge(b, 1, cur.cpu_cmd)
  BY <1>1 DEF CpuCtrlEdge
<1>3. CASE cur.cpu_cmd = 1
  <2>1. k = 0 /\ cmdstate = 0 /\ cc_state = 0
    BY <1>3 DEF Armed
  <2>2. ports' = Execute(cur.bytes[1], ports) /\ cmdstate' = 1
    BY <1>2, <1>3, <2>1 DEF CmdEdge
  <2>3. cc_state' = 0 /\ wr_to_mem' = 0
    BY <1>2, <1>3, <2>1 DEF MainEdge, Take, Toggle, Hold, Write
  <2>4. Written' = Written
    BY <2>3, WrittenStays
  <2>5. ports = base.ports
    BY <2>1 DEF Carried
  <2>6. Written = base.vram /\ MemAfter(cur, base.vram) = base.vram
    BY <1>3, <2>1 DEF Carried, MemAfter
  <2> QED BY <1>3, <2>1, <2>2, <2>3, <2>4, <2>5, <2>6
          DEF Took, Carried, Collected, PortsAfter, Lawful
<1>4. CASE cur.cpu_cmd = 0
  <2>1. cc_state = 2 * k /\ cmdstate = 0 /\ cc_state \in {0, 2, 4, 6}
    BY <1>4 DEF Armed
  <2>2. cmdstate' = 0 /\ ports' = ports
    BY <1>2, <1>4, <2>1 DEF CmdEdge
  <2>3. /\ cc_state' = cc_state + 1
        /\ cc_state = 0 => wr_to_mem' = 0 /\ tmpaddr' = <<b, 0>>
        /\ cc_state # 0 => UNCHANGED <<wr_to_mem, wraddr_to_mem, data_to_mem>>
        /\ cc_state = 2 => tmpaddr' = <<tmpaddr[1], b % 4>>
        /\ cc_state = 4 => tmpaddr' = tmpaddr /\ tmpdata' = <<b, tmpdata[2]>>
        /\ cc_state = 6 => tmpaddr' = tmpaddr /\ tmpdata' = <<tmpdata[1], b>>
    <3>1. CASE cc_state = 0
      BY <1>2, <1>4, <3>1 DEF MainEdge, Take, Toggle, Hold, Write
    <3>2. CASE cc_state = 2
      BY <1>2, <3>2 DEF MainEdge, Take, Toggle, Hold, Write
    <3>3. CASE cc_state = 4
      BY <1>2, <3>3 DEF MainEdge, Take, Toggle, Hold, Write
    <3>4. CASE cc_state = 6
      BY <1>2, <3>4 DEF MainEdge, Take, Toggle, Hold, Write
    <3> QED BY <2>1, <3>1, <3>2, <3>3, <3>4
  <2>4. Written' = Written
    BY <2>1, <2>3, WrittenStays
  <2>5. Collected'
    BY <2>1, <2>3 DEF Carried, Collected
  <2>6. cc_state' \in {1, 3, 5, 7} /\ (cc_state = 6 => wr_to_mem' = 0) /\ wr_to_mem' = 0
    BY <2>1, <2>3 DEF Carried
  <2> QED BY <1>4, <2>1, <2>2, <2>3, <2>4, <2>5, <2>6 DEF Took, Carried, Lawful
<1> QED BY <1>1, <1>3, <1>4

-----------------------------------------------------------------------------
(* Steps of the wire and of the slow clock.                                *)

(* What the invariants of the CPU say of the transfer under way.           *)
LEMMA TransferFacts ==
  ASSUME TypeInv, CpuInv
  PROVE  /\ nsent \in 0 .. 4 /\ Len(tx) \in 0 .. 1 /\ Arrived \in 0 .. 4
         /\ cur.cpu_cmd \in 0 .. 1 /\ Arrived <= Len(cur.bytes) /\ Len(cur.bytes) \in 1 .. 4
         /\ tx # << >> => /\ Len(tx) = 1 /\ nsent > 0 /\ Arrived = nsent - 1
                          /\ Head(tx) = cur.bytes[nsent] /\ Tail(tx) = << >>
         /\ tx = << >> => Arrived = nsent
         /\ nsent > 0 => tsync = 0 /\ tcsel = cur.cpu_cmd
         /\ Arrived > 0 => tsync = 0 /\ tcsel = cur.cpu_cmd /\ cur.bytes[Arrived] \in Byte
         /\ Arrived > 0 /\ bit > 0 => cur.cpu_cmd = 0 /\ Arrived <= 3
         /\ Arrived = 4 => cur.cpu_cmd = 0
<1>1. /\ cur.cpu_cmd \in 0 .. 1 /\ cur.bytes \in Seq(Byte) /\ Len(cur.bytes) \in 1 .. 4
      /\ cur.cpu_cmd = 1 => Len(cur.bytes) = 1
      /\ cur.cpu_cmd = 0 => Len(cur.bytes) = 4
  BY TransferType DEF TypeInv, TypeOK
<1>2. nsent \in 0 .. Len(cur.bytes) /\ bit \in 0 .. BITS - 1
  BY DEF TypeInv, TypeOK
<1>3. nsent > 0 => pc # "sync" /\ tsync = 0 /\ tcsel = cur.cpu_cmd
  BY <1>2 DEF TypeInv, TypeOK, CpuInv
<1>4. CASE tx = << >>
  <2>1. Len(tx) = 0 /\ bit = 0
    BY <1>2, <1>4 DEF CpuInv
  <2>2. nsent \in 0 .. 4 /\ (nsent = 4 => cur.cpu_cmd = 0) /\ (nsent > 0 => cur.bytes[nsent] \in Byte)
    BY <1>1, <1>2
  <2>3. Arrived = nsent
    BY <2>1, <2>2 DEF Arrived
  <2> QED BY <1>1, <1>2, <1>3, <1>4, <2>1, <2>2, <2>3
<1>5. CASE tx # << >>
  <2>1. nsent > 0 /\ tx = <<cur.bytes[nsent]>>
    BY <1>5 DEF CpuInv
  <2>2. Len(tx) = 1 /\ Head(tx) = cur.bytes[nsent] /\ Tail(tx) = << >>
    BY <2>1
  <2> QED BY <1>1, <1>2, <1>3, <2>1, <2>2 DEF Arrived
<1> QED BY <1>4, <1>5

(* A bit goes over the wire.                                               *)
LEMMA WireStep ==
  ASSUME TypeInv, CpuInv, WireInv, MasterBit, Receive
  PROVE  /\ CpuInv' /\ WireInv'
         /\ quiet' = 0 /\ tsync = 0 /\ UNCHANGED <<cur, base, tcsel, tsync, nsent>>
         /\ bit + 1 < BITS => bit' = bit + 1 /\ Arrived' = Arrived /\ ctr' = bit + 1
         /\ bit + 1 = BITS => bit' = 0 /\ Arrived' = Arrived + 1
         /\ bit + 1 < BITS => ctr' # BITS /\ (bit > 0 \/ Arrived = 0 => ctr # BITS)
<1>1. /\ tx # << >> /\ nsent \in 1 .. 4 /\ Len(tx) = 1 /\ Arrived = nsent - 1
      /\ Head(tx) = cur.bytes[nsent] /\ Tail(tx) = << >> /\ tsync = 0
  BY TransferFacts DEF MasterBit
<1>2. UNCHANGED <<pc, todo, cur, nsent, workbuf, tsync, tcsel, base>> /\ quiet' = 0
  BY DEF MasterBit, cpuVars
<1>3. bit \in 0 .. BITS - 1 /\ ctr \in 0 .. BITS
  BY DEF TypeInv, TypeOK, InSpiTypeOK
<1>4. /\ ctr' = bit + 1 /\ tmpres' = Head(tx)
      /\ spi_state' = IF bit + 1 = BITS THEN 0 ELSE 1
  BY <1>1, <1>3 DEF Receive, SpiEdge, WireInv
<1>5. CASE bit + 1 < BITS
  <2>1. bit' = bit + 1 /\ tx' = tx
    BY <1>3, <1>5 DEF MasterBit
  <2>2. Arrived' = Arrived
    BY <1>2, <2>1 DEF Arrived
  <2>3. CpuInv'
    BY <1>1, <1>2, <2>1 DEF CpuInv
  <2>4. WireInv'
    BY <1>3, <1>4, <1>5, <2>1 DEF WireInv
  <2> QED BY <1>1, <1>2, <1>3, <1>4, <1>5, <2>1, <2>2, <2>3, <2>4 DEF WireInv
<1>6. CASE bit + 1 = BITS
  <2>1. bit' = 0 /\ tx' = << >>
    BY <1>1, <1>6 DEF MasterBit
  <2>2. Arrived' = nsent /\ Arrived' = Arrived + 1
    BY <1>1, <1>2, <2>1 DEF Arrived
  <2>3. CpuInv'
    BY <1>2, <2>1 DEF CpuInv
  <2>4. WireInv'
    BY <1>1, <1>2, <1>4, <1>6, <2>1, <2>2 DEF WireInv
  <2> QED BY <1>1, <1>2, <1>3, <1>6, <2>1, <2>2, <2>3, <2>4
<1>7. bit + 1 < BITS \/ bit + 1 = BITS
  BY <1>3
<1> QED BY <1>5, <1>6, <1>7

(* The slow edge that INSPI_BUF and CPUCTRL see together, while sync is    *)
(* down, for each thing the handshake may be doing.                        *)

(* Nothing has arrived.                                                    *)
LEMMA SilentEdge ==
  ASSUME LinkInv, UNCHANGED <<cur, base>>, NEW word, SlowClock(FALSE, word), Silent
  PROVE  outstate' = 0 /\ outrdy' = 0 /\ Armed(0)' /\ Carried' /\ Lawful
<1>1. CpuCtrlTypeOK /\ cur.cpu_cmd \in 0 .. 1 /\ tcsel \in 0 .. 1 /\ outrdy = 0 /\ outstate = 0
  BY TransferFacts DEF LinkInv, TypeInv, TypeOK, Silent
<1>2. MemWrite /\ Carried
  BY DEF SlowClock, LinkInv
<1>3. CASE tsync = 1
  <2>1. UNCHANGED <<outstate, outdata, outrdy, cpuctrlVars>>
    BY <1>3 DEF SlowClock
  <2>2. Written' = Written
    BY <1>2, <2>1, WrittenStays DEF cpuctrlVars
  <2> QED BY <1>1, <1>2, <2>1, <2>2 DEF cpuctrlVars, Silent, Armed, Carried, Collected, Lawful
<1>4. CASE tsync # 1
  <2>1. SlowEdge(FALSE, word) /\ CpuCtrlEdge(outdata, 0, tcsel)
    BY <1>1, <1>4 DEF SlowClock
  <2>2. outstate' = 0 /\ outrdy' = 0
    BY <2>1 DEF SlowEdge
  <2>3. Armed(0)' /\ Carried' /\ Lawful
    BY <1>1, <1>2, <2>1, WaitingEdge DEF Silent
  <2> QED BY <2>2, <2>3
<1> QED BY <1>3, <1>4

(* The byte before has been withdrawn, or is being withdrawn by this edge. *)
LEMMA WithdrawingEdge ==
  ASSUME LinkInv, UNCHANGED <<cur, base>>, NEW word, SlowClock(FALSE, word), Withdrawn,
         NEW k \in 1 .. 3, k = Arrived
  PROVE  /\ outstate' = 0 /\ outrdy' = 0 /\ Carried' /\ Lawful
         /\ outrdy = 1 => Took(k)'
         /\ outrdy = 0 => Armed(k)'
<1>1. /\ CpuCtrlTypeOK /\ cur.cpu_cmd = 0 /\ tcsel = 0 /\ tsync = 0 /\ outrdy \in 0 .. 1
      /\ MemWrite /\ Carried
  BY TransferFacts DEF LinkInv, TypeInv, TypeOK, InSpiTypeOK, Withdrawn, SlowClock
<1>2. SlowEdge(FALSE, word) /\ CpuCtrlEdge(outdata, outrdy, 0)
  <2>1. tsync # 1 /\ tcsel = 0
    BY <1>1
  <2> QED BY <2>1 DEF SlowClock
<1>3. outstate' = 0 /\ outrdy' = 0
  BY <1>2 DEF SlowEdge
<1>4. CASE outrdy = 1
  <2>1. Took(k)
    BY <1>4 DEF Withdrawn
  <2>2. CpuCtrlEdge(outdata, 1, cur.cpu_cmd)
    BY <1>1, <1>2, <1>4
  <2> QED BY <1>1, <1>3, <1>4, <2>1, <2>2, HoldingEdge
<1>5. CASE outrdy = 0
  <2>1. CpuCtrlEdge(outdata, 0, 0)
    BY <1>2, <1>5
  <2>2. CASE Took(k)
    BY <1>1, <1>3, <1>5, <2>1, <2>2, WithdrawnEdge
  <2>3. CASE Armed(k)
    BY <1>1, <1>3, <1>5, <2>1, <2>3, WaitingEdge
  <2> QED BY <2>2, <2>3 DEF Withdrawn
<1> QED BY <1>1, <1>4, <1>5

(* A byte has arrived, and the edge finds all of it.                       *)
LEMMA PresentingEdge ==
  ASSUME LinkInv, UNCHANGED <<cur, base, tx, bit, nsent>>, Presented,
         SlowClock(TRUE, cur.bytes[Arrived]),
         quiet' = IF quiet < GAP THEN quiet + 1 ELSE GAP
  PROVE  Presented' /\ Carried' /\ Lawful
<1>1. PICK k \in 1 .. 4 : k = Arrived
  BY TransferFacts DEF LinkInv, Presented
<1>2. /\ CpuCtrlTypeOK /\ cur \in Transfer \cup {NoTransfer} /\ cur.cpu_cmd \in 0 .. 1
      /\ tcsel = cur.cpu_cmd /\ tsync = 0 /\ k <= Len(cur.bytes) /\ (k = 4 => cur.cpu_cmd = 0)
      /\ outrdy \in 0 .. 1 /\ outstate \in 0 .. 3 /\ quiet \in 0 .. GAP
      /\ MemWrite /\ Carried /\ bit = 0
  BY <1>1, TransferFacts DEF LinkInv, TypeInv, TypeOK, InSpiTypeOK, Presented, SlowClock
<1>3. Arrived' = k
  BY <1>1 DEF Arrived
<1>4. SlowEdge(TRUE, cur.bytes[k]) /\ CpuCtrlEdge(outdata, outrdy, cur.cpu_cmd)
  <2>1. tsync # 1 /\ tcsel = cur.cpu_cmd
    BY <1>2
  <2> QED BY <1>1, <2>1 DEF SlowClock
<1>5. /\ outstate < 3 => outstate' = outstate + 1 /\ outdata' = cur.bytes[k] /\ outrdy' = outrdy
      /\ outstate = 3 => outrdy' = 1 /\ outstate' = 3 /\ outdata' = outdata
  BY <1>4 DEF SlowEdge
<1>6. /\ quiet <= 2 => outstate \in {quiet, quiet + 1} /\ outrdy = 0
      /\ quiet >= 3 => outstate = 3
      /\ quiet >= 4 => outrdy = 1
      /\ quiet >= 1 => outdata = cur.bytes[k]
      /\ (quiet <= 4 /\ Armed(k - 1)) \/ (quiet >= 4 /\ Took(k))
      /\ quiet >= 6 /\ k = 4 => wr_to_mem = 1
  BY <1>1 DEF Presented, Armed, Took
<1>7. /\ quiet' \in 1 .. GAP
      /\ quiet' <= 2 => outstate' \in {quiet', quiet' + 1} /\ outrdy' = 0
      /\ quiet' >= 3 => outstate' = 3
      /\ quiet' >= 4 => outrdy' = 1
      /\ quiet' >= 1 => outdata' = cur.bytes[k]
  BY <1>2, <1>5, <1>6
<1>8. /\ (quiet' <= 4 /\ Armed(k - 1)') \/ (quiet' >= 4 /\ Took(k)')
      /\ quiet' >= 6 /\ k = 4 => wr_to_mem' = 1
      /\ Carried' /\ Lawful
  <2>1. CASE outrdy = 0
    <3>1. quiet <= 3 /\ Armed(k - 1) /\ k - 1 \in 0 .. 3
      BY <1>2, <1>6, <2>1
    <3>2. Armed(k - 1)' /\ Carried' /\ Lawful
      <4>1. CpuCtrlEdge(outdata, 0, cur.cpu_cmd) /\ UNCHANGED <<cur, base>>
        BY <1>4, <2>1
      <4> QED BY <1>2, <3>1, <4>1, WaitingEdge
    <3> QED BY <1>2, <3>1, <3>2
  <2>2. CASE outrdy = 1 /\ Armed(k - 1)
    <3>1. quiet \in {3, 4} /\ k - 1 \in 0 .. 3 /\ outdata = cur.bytes[(k - 1) + 1]
      BY <1>2, <1>6, <2>2 DEF Armed, Took
    <3>2. Took((k - 1) + 1)' /\ Carried' /\ Lawful
      <4>1. CpuCtrlEdge(cur.bytes[(k - 1) + 1], 1, cur.cpu_cmd) /\ UNCHANGED <<cur, base>>
        BY <1>4, <2>2, <3>1
      <4> QED BY <1>2, <2>2, <3>1, <4>1, TakingEdge
    <3> QED BY <1>2, <3>1, <3>2
  <2>3. CASE outrdy = 1 /\ ~Armed(k - 1)
    <3>1. quiet >= 4 /\ Took(k)
      BY <1>6, <2>3
    <3>2. Took(k)' /\ Carried' /\ Lawful /\ (cur.cpu_cmd = 0 /\ k = 4 => wr_to_mem' = 1)
      <4>1. CpuCtrlEdge(outdata, 1, cur.cpu_cmd) /\ UNCHANGED <<cur, base>>
        BY <1>4, <2>3
      <4> QED BY <1>2, <3>1, <4>1, HoldingEdge
    <3> QED BY <1>2, <3>1, <3>2
  <2> QED BY <1>2, <2>1, <2>2, <2>3
<1> QED BY <1>1, <1>2, <1>3, <1>7, <1>8 DEF Presented

-----------------------------------------------------------------------------
(* One lemma for each action of the link.                                  *)

LEMMA TickKeeps ==
  ASSUME LinkInv, Tick
  PROVE  CpuInv' /\ WireInv' /\ HandshakeInv' /\ Carried' /\ Lawful
<1>1. /\ UNCHANGED <<ctr, spi_state, tmpres, pc, todo, cur, nsent, workbuf, tx, bit,
                     tsync, tcsel, base>>
      /\ SlowClock(ctr = BITS, Held)
      /\ quiet' = IF quiet < GAP THEN quiet + 1 ELSE GAP
  BY DEF Tick, cpuVars, spiVars
<1>2. CpuInv' /\ WireInv' /\ Arrived' = Arrived
  BY <1>1 DEF LinkInv, CpuInv, WireInv, Arrived
<1>3. bit \in 0 .. BITS - 1 /\ quiet \in 0 .. GAP /\ quiet' >= 1 /\ outrdy \in 0 .. 1
  BY <1>1 DEF LinkInv, TypeInv, TypeOK, InSpiTypeOK
<1>4. CASE Silent
  <2>1. ctr # BITS
    BY <1>3, <1>4 DEF LinkInv, WireInv, Silent
  <2>2. SlowClock(FALSE, Held)
    BY <1>1, <2>1
  <2>3. outstate' = 0 /\ outrdy' = 0 /\ Armed(0)' /\ Carried' /\ Lawful
    BY <1>1, <1>4, <2>2, SilentEdge
  <2> QED BY <1>2, <1>4, <2>3 DEF HandshakeInv, Silent
<1>5. CASE Presented
  <2>1. ctr = BITS /\ Held = cur.bytes[Arrived]
    BY <1>5 DEF LinkInv, WireInv, Presented, Held
  <2>2. SlowClock(TRUE, cur.bytes[Arrived])
    BY <1>1, <2>1
  <2>3. Presented' /\ Carried' /\ Lawful
    BY <1>1, <1>5, <2>2, PresentingEdge
  <2> QED BY <1>2, <2>3 DEF HandshakeInv
<1>6. CASE Withdrawn
  <2>1. ctr # BITS
    BY <1>3, <1>6 DEF LinkInv, WireInv, Withdrawn
  <2>2. SlowClock(FALSE, Held)
    BY <1>1, <2>1
  <2>3. PICK k \in 1 .. 3 : k = Arrived
    BY <1>6, TransferFacts DEF LinkInv, Withdrawn
  <2>4. /\ outstate' = 0 /\ outrdy' = 0 /\ Carried' /\ Lawful
        /\ outrdy = 1 => Took(k)'
        /\ outrdy = 0 => Armed(k)'
    BY <1>1, <1>6, <2>2, <2>3, WithdrawingEdge
  <2>5. outrdy = 1 => bit = 1
    BY <1>3, <1>6 DEF Withdrawn
  <2>6. Withdrawn'
    BY <1>1, <1>2, <1>3, <1>6, <2>3, <2>4, <2>5 DEF Withdrawn, Armed, Took
  <2> QED BY <1>2, <2>4, <2>6 DEF HandshakeInv
<1> QED BY <1>4, <1>5, <1>6 DEF LinkInv, HandshakeInv

(* A serial edge between two slow edges.                                   *)
LEMMA BitKeeps ==
  ASSUME LinkInv, Bit
  PROVE  CpuInv' /\ WireInv' /\ HandshakeInv' /\ Carried' /\ Lawful
<1>1. MasterBit /\ Receive /\ UNCHANGED <<outstate, outdata, outrdy, cpuctrlVars, vram>>
  BY DEF Bit
<1>2. /\ CpuInv' /\ WireInv' /\ quiet' = 0 /\ UNCHANGED <<cur, base>>
      /\ bit + 1 < BITS => bit' = bit + 1 /\ Arrived' = Arrived
      /\ bit + 1 = BITS => bit' = 0 /\ Arrived' = Arrived + 1
  BY <1>1, WireStep DEF LinkInv
<1>3. UNCHANGED <<cmdstate, cc_state, tmpaddr, tmpdata, ports, wr_to_mem,
                  wraddr_to_mem, data_to_mem, vram, outstate, outdata, outrdy>>
  BY <1>1 DEF cpuctrlVars
<1>4. Carried' /\ Lawful
  BY <1>2, <1>3 DEF LinkInv, Carried, Collected, Lawful, Written
<1>5. /\ bit \in 0 .. BITS - 1 /\ quiet \in 0 .. GAP /\ outrdy \in 0 .. 1
      /\ bit = 0 => quiet >= GAP
      /\ bit > 0 => quiet >= 1
      /\ Arrived \in 0 .. 4
  BY <1>1, TransferFacts DEF LinkInv, TypeInv, TypeOK, InSpiTypeOK, MasterBit
<1>6. bit + 1 < BITS \/ bit + 1 = BITS
  BY <1>5
<1>7. CASE Silent
  <2>1. CASE bit + 1 < BITS
    <3>1. Silent'
      BY <1>2, <1>3, <1>7, <2>1 DEF Silent, Armed
    <3> QED BY <1>2, <1>4, <3>1 DEF HandshakeInv
  <2>2. CASE bit + 1 = BITS
    <3>1. Arrived' = 1 /\ bit' = 0 /\ quiet' = 0 /\ outstate' = 0 /\ outrdy' = 0
      BY <1>2, <1>3, <1>7, <2>2 DEF Silent
    <3>2. Presented'
      BY <1>2, <1>3, <1>7, <3>1 DEF Presented, Silent, Armed
    <3> QED BY <1>2, <1>4, <3>2 DEF HandshakeInv
  <2> QED BY <1>6, <2>1, <2>2
<1>8. CASE Presented
  <2>1. bit' = 1 /\ Arrived' = Arrived /\ quiet' = 0
    BY <1>2, <1>5, <1>8 DEF Presented
  <2>2. outstate' = 3 /\ outrdy' = 1 /\ outdata' = cur'.bytes[Arrived'] /\ Took(Arrived)
    BY <1>2, <1>3, <1>5, <1>8, <2>1 DEF Presented
  <2>3. Withdrawn'
    BY <1>2, <1>3, <1>8, <2>1, <2>2 DEF Withdrawn, Presented, Took
  <2> QED BY <1>2, <1>4, <2>3 DEF HandshakeInv
<1>9. CASE Withdrawn
  <2>1. bit > 0 /\ outstate = 0 /\ outrdy = 0
    BY <1>5, <1>9 DEF Withdrawn
  <2>2. CASE bit + 1 < BITS
    <3>1. Withdrawn'
      BY <1>2, <1>3, <1>5, <1>9, <2>1, <2>2 DEF Withdrawn, Armed, Took
    <3> QED BY <1>2, <1>4, <3>1 DEF HandshakeInv
  <2>3. CASE bit + 1 = BITS
    <3>1. Armed(Arrived)
      BY <1>5, <1>9, <2>3 DEF Withdrawn
    <3>2. Presented'
      BY <1>2, <1>3, <1>5, <2>1, <2>3, <3>1 DEF Presented, Armed
    <3> QED BY <1>2, <1>4, <3>2 DEF HandshakeInv
  <2> QED BY <1>6, <2>2, <2>3
<1> QED BY <1>7, <1>8, <1>9 DEF LinkInv, HandshakeInv

(* A serial edge that falls on a slow edge: the slow clock may find the    *)
(* counter and the shift register before or after the change.              *)
LEMMA BitOnEdgeKeeps ==
  ASSUME LinkInv, BitOnEdge
  PROVE  CpuInv' /\ WireInv' /\ HandshakeInv' /\ Carried' /\ Lawful
<1>1. MasterBit /\ Receive
  BY DEF BitOnEdge
<1>2. PICK full \in {ctr = BITS, (ctr = BITS)'}, word \in {Held, Held'} : SlowClock(full, word)
  BY DEF BitOnEdge
<1>3. /\ CpuInv' /\ WireInv' /\ quiet' = 0 /\ UNCHANGED <<cur, base>> /\ tsync = 0
      /\ bit + 1 < BITS => bit' = bit + 1 /\ Arrived' = Arrived /\ ctr' # BITS
      /\ bit + 1 = BITS => bit' = 0 /\ Arrived' = Arrived + 1
      /\ bit + 1 < BITS /\ (bit > 0 \/ Arrived = 0) => ctr # BITS
  BY <1>1, WireStep DEF LinkInv
<1>4. /\ bit \in 0 .. BITS - 1 /\ quiet \in 0 .. GAP /\ outrdy \in 0 .. 1
      /\ bit = 0 => quiet >= GAP
      /\ bit > 0 => quiet >= 1
      /\ tcsel \in 0 .. 1 /\ cur.cpu_cmd \in 0 .. 1
      /\ Arrived > 0 => tcsel = cur.cpu_cmd
      /\ CpuCtrlTypeOK /\ Carried /\ MemWrite /\ ctr \in 0 .. BITS
  BY <1>1, <1>2, TransferFacts DEF LinkInv, TypeInv, TypeOK, InSpiTypeOK, MasterBit, SlowClock
<1>5. SlowEdge(full, word) /\ CpuCtrlEdge(outdata, outrdy, tcsel)
  <2>1. tsync # 1
    BY <1>3
  <2> QED BY <1>2, <2>1 DEF SlowClock
<1>6. bit + 1 < BITS \/ bit + 1 = BITS
  BY <1>4
<1>7. CASE bit + 1 < BITS /\ Silent
  <2>1. SlowClock(FALSE, word)
    BY <1>2, <1>3, <1>7 DEF Silent
  <2>2. outstate' = 0 /\ outrdy' = 0 /\ Armed(0)' /\ Carried' /\ Lawful
    BY <1>3, <1>7, <2>1, SilentEdge
  <2>3. Silent'
    BY <1>3, <1>7, <2>2 DEF Silent
  <2> QED BY <1>3, <2>2, <2>3 DEF HandshakeInv
<1>8. CASE bit + 1 < BITS /\ Withdrawn
  <2>1. SlowClock(FALSE, word)
    BY <1>2, <1>3, <1>8 DEF Withdrawn
  <2>2. PICK k \in 1 .. 3 : k = Arrived
    BY <1>8, TransferFacts DEF LinkInv, Withdrawn
  <2>3. outrdy = 0 /\ outstate' = 0 /\ outrdy' = 0 /\ Carried' /\ Lawful /\ Armed(k)'
    BY <1>3, <1>4, <1>8, <2>1, <2>2, WithdrawingEdge DEF Withdrawn
  <2>4. Withdrawn'
    BY <1>3, <1>4, <1>8, <2>2, <2>3 DEF Withdrawn, Armed
  <2> QED BY <1>3, <2>3, <2>4 DEF HandshakeInv
<1>9. CASE bit + 1 < BITS /\ Presented
  <2>1. PICK k \in 1 .. 4 : k = Arrived
    BY TransferFacts, <1>9 DEF LinkInv, Presented
  <2>2. /\ outstate = 3 /\ outrdy = 1 /\ outdata = cur.bytes[k] /\ Took(k)
        /\ bit' = 1 /\ Arrived' = k
    BY <1>3, <1>4, <1>9, <2>1 DEF Presented, Took
  <2>3. CpuCtrlEdge(outdata, 1, cur.cpu_cmd)
    BY <1>4, <1>5, <2>1, <2>2
  <2>4. Took(k)' /\ Carried' /\ Lawful
    BY <1>3, <1>4, <2>2, <2>3, HoldingEdge
  <2>5. \/ outstate' = 3 /\ outrdy' = 1 /\ outdata' = cur.bytes[k]
        \/ outstate' = 0 /\ outrdy' = 0
    BY <1>5, <2>2 DEF SlowEdge
  <2>6. Withdrawn'
    BY <1>3, <2>1, <2>2, <2>4, <2>5 DEF Withdrawn, Took
  <2> QED BY <1>3, <2>4, <2>6 DEF HandshakeInv
<1>10. CASE bit + 1 = BITS
  <2>1. PICK k \in 0 .. 3 : k = Arrived
    BY <1>1, TransferFacts DEF LinkInv, MasterBit
  <2>2. outstate = 0 /\ outrdy = 0 /\ Armed(k)
    <3>1. CASE Silent
      BY <2>1, <3>1 DEF Silent
    <3>2. CASE Presented
      BY <1>10, <3>2 DEF Presented
    <3>3. CASE Withdrawn
      BY <1>4, <1>10, <2>1, <3>3 DEF Withdrawn, Armed
    <3> QED BY <3>1, <3>2, <3>3 DEF LinkInv, HandshakeInv
  <2>3. CpuCtrlEdge(outdata, 0, tcsel)
    BY <1>5, <2>2
  <2>4. Armed(k)' /\ Carried' /\ Lawful
    BY <1>3, <1>4, <2>2, <2>3, WaitingEdge
  <2>5. outstate' \in {0, 1} /\ outrdy' = 0
    BY <1>5, <2>2 DEF SlowEdge
  <2>6. Arrived' = k + 1 /\ bit' = 0 /\ quiet' = 0
    BY <1>3, <1>10, <2>1
  <2>7. Presented'
    BY <2>1, <2>4, <2>5, <2>6 DEF Presented, Armed
  <2> QED BY <1>3, <2>4, <2>7 DEF HandshakeInv
<1> QED BY <1>6, <1>7, <1>8, <1>9, <1>10 DEF LinkInv, HandshakeInv

(* By the time the driver may touch the lines, all has been carried out.   *)
LEMMA SettledWhenQuiet ==
  ASSUME LinkInv, pc \in {"boot", "idle"}, tx = << >>, quiet >= GAP
  PROVE  ports = PortsAfter(cur, base.ports) /\ Written = MemAfter(cur, base.vram)
<1>1. bit = 0 /\ Arrived = nsent /\ cur.cpu_cmd \in 0 .. 1 /\ quiet \in Nat /\ quiet >= 6
  <2>1. bit = 0 /\ quiet \in Nat /\ quiet >= 6
    BY DEF LinkInv, CpuInv, TypeInv, TypeOK
  <2> QED BY <2>1, TransferFacts DEF LinkInv
<1>2. CASE nsent = 0 /\ cur = NoTransfer
  <2>1. cur.cpu_cmd = 1 /\ cur.bytes[1] = 255
    BY <1>2 DEF NoTransfer, Command
  <2>2. cmdstate = 0 /\ cc_state = 0
    BY <1>1, <1>2, <2>1 DEF LinkInv, HandshakeInv, Silent, Presented, Withdrawn, Armed
  <2>3. ports = base.ports /\ Written = base.vram
    BY <2>2 DEF LinkInv, Carried
  <2>4. Execute(255, base.ports) = base.ports
    BY DEF Execute
  <2> QED BY <2>1, <2>3, <2>4 DEF PortsAfter, MemAfter
<1>3. CASE nsent = Len(cur.bytes)
  <2>1. nsent \in 1 .. 4 /\ (cur.cpu_cmd = 0 => nsent = 4)
    <3>1. /\ cur.cpu_cmd = 1 => Len(cur.bytes) = 1
          /\ cur.cpu_cmd = 0 => Len(cur.bytes) = 4
      BY TransferType DEF LinkInv, TypeInv, TypeOK
    <3> QED BY <1>1, <1>3, <3>1
  <2>2. Presented
    BY <1>1, <2>1 DEF LinkInv, HandshakeInv, Silent, Withdrawn
  <2>3. Took(nsent) /\ (nsent = 4 => wr_to_mem = 1)
    BY <1>1, <2>2 DEF Presented, Took
  <2>4. CASE cur.cpu_cmd = 1
    BY <2>3, <2>4 DEF Took, LinkInv, Carried, PortsAfter, MemAfter
  <2>5. CASE cur.cpu_cmd = 0
    <3>1. cc_state = 7 /\ wr_to_mem = 1
      BY <2>1, <2>3, <2>5 DEF Took
    <3> QED BY <2>5, <3>1 DEF LinkInv, Carried, PortsAfter
  <2> QED BY <1>1, <2>4, <2>5
<1> QED BY <1>2, <1>3 DEF LinkInv, CpuInv

(* Steps of the CPU that the FPGA does not notice.                         *)
LEMMA FpgaSame ==
  ASSUME LinkInv, UNCHANGED <<inspiVars, cpuctrlVars, cur, bit, quiet, vram, base>>,
         Arrived' = Arrived, bit > 0 => tx' = tx
  PROVE  WireInv' /\ HandshakeInv' /\ Carried' /\ Lawful
<1>1. /\ UNCHANGED <<ctr, spi_state, tmpres, outstate, outdata, outrdy>>
      /\ UNCHANGED <<cmdstate, cc_state, tmpaddr, tmpdata, ports, wr_to_mem,
                     wraddr_to_mem, data_to_mem>>
      /\ UNCHANGED <<cur, bit, quiet, vram, base>>
  BY DEF inspiVars, cpuctrlVars
<1>2. WireInv'
  BY <1>1 DEF LinkInv, WireInv
<1>3. HandshakeInv'
  <2>1. CASE Silent
    BY <1>1, <2>1 DEF HandshakeInv, Silent, Armed
  <2>2. CASE Presented
    BY <1>1, <2>2 DEF HandshakeInv, Presented, Armed, Took
  <2>3. CASE Withdrawn
    BY <1>1, <2>3 DEF HandshakeInv, Withdrawn, Armed, Took
  <2> QED BY <2>1, <2>2, <2>3 DEF LinkInv, HandshakeInv
<1>4. Carried' /\ Lawful
  BY <1>1 DEF LinkInv, Carried, Collected, Lawful, Written
<1> QED BY <1>2, <1>3, <1>4

(* A transfer starts: what was asked for becomes what is there.            *)
LEMMA SyncHighKeeps ==
  ASSUME Polled, LinkInv, SyncHigh
  PROVE  /\ CpuInv' /\ WireInv' /\ HandshakeInv' /\ Carried'
         /\ ports = Asked.ports /\ Written = Asked.vram
         /\ UNCHANGED <<ports, Written>>
<1>1. /\ pc = "idle" /\ todo # << >> /\ tx = << >> /\ quiet >= GAP
      /\ base' = Asked /\ cur' = Head(todo) /\ pc' = "sync" /\ nsent' = 0 /\ tsync' = 1
      /\ UNCHANGED <<tx, bit, tcsel, quiet, vram>>
  BY DEF SyncHigh, spiVars
<1>2. /\ ctr' = 0 /\ spi_state' = 0 /\ outstate' = 0 /\ outrdy' = 0
      /\ cmdstate' = 0 /\ cc_state' = 0
      /\ UNCHANGED <<ports, wr_to_mem, wraddr_to_mem, data_to_mem>>
  BY DEF SyncHigh, InSpiReset, CpuCtrlReset
<1>3. ports = PortsAfter(cur, base.ports) /\ Written = MemAfter(cur, base.vram)
  BY <1>1, SettledWhenQuiet
<1>4. base' = [ports |-> ports, vram |-> Written]
  BY <1>1, <1>3 DEF Asked
<1>5. Written' = Written
  BY <1>1, <1>2 DEF Written
<1>6. cur'.cpu_cmd \in 0 .. 1
  <2>1. cur' \in Transfer
    BY <1>1 DEF LinkInv, TypeInv, TypeOK
  <2> QED BY <2>1, TransferType
<1>7. Arrived' = 0 /\ bit' = 0
  <2>1. nsent' = 0 /\ Len(tx') = 0
    BY <1>1
  <2>2. Arrived' = 0
    BY <2>1 DEF Arrived
  <2>3. bit = 0
    BY <1>1 DEF LinkInv, CpuInv, TypeInv, TypeOK
  <2> QED BY <1>1, <2>2, <2>3
<1>8. CpuInv'
  BY <1>1, <1>7 DEF CpuInv
<1>9. WireInv' /\ HandshakeInv'
  BY <1>2, <1>6, <1>7 DEF WireInv, HandshakeInv, Silent, Armed
<1>10. Carried'
  BY <1>2, <1>4, <1>5 DEF Carried, Collected
<1> QED BY <1>2, <1>3, <1>5, <1>8, <1>9, <1>10 DEF Asked

(* The CPU hands a byte to the SPI master, which has none.                 *)
LEMMA SendKeeps ==
  ASSUME Polled, LinkInv, Send
  PROVE  CpuInv' /\ WireInv' /\ HandshakeInv' /\ Carried' /\ Lawful
<1>1. /\ pc = "send" /\ tx = << >> /\ tx' = Append(tx, cur.bytes[nsent + 1])
      /\ nsent' = nsent + 1 /\ pc' = IF nsent + 1 = Len(cur.bytes) THEN "idle" ELSE "send"
      /\ UNCHANGED <<inspiVars, cpuctrlVars, cur, bit, tsync, tcsel, quiet, vram, base>>
  BY DEF Send
<1>2. nsent \in 0 .. 4 /\ bit = 0
  BY <1>1, TransferFacts DEF LinkInv, CpuInv, TypeInv, TypeOK
<1>3. tx' = <<cur.bytes[nsent + 1]>> /\ Len(tx) = 0 /\ Len(tx') = 1
  BY <1>1
<1>4. Arrived' = Arrived
  BY <1>1, <1>2, <1>3 DEF Arrived
<1>5. WireInv' /\ HandshakeInv' /\ Carried' /\ Lawful
  BY <1>1, <1>2, <1>4, FpgaSame
<1>6. CpuInv'
  BY <1>1, <1>2, <1>3 DEF LinkInv, CpuInv
<1> QED BY <1>5, <1>6

(* The other steps of the CPU.                                             *)
LEMMA OtherCpuKeeps ==
  ASSUME LinkInv, Call \/ SyncLow \/ SetMode \/ UNCHANGED vars
  PROVE  CpuInv' /\ WireInv' /\ HandshakeInv' /\ Carried' /\ Lawful /\ UNCHANGED <<cur, base>>
<1>1. /\ UNCHANGED <<inspiVars, cpuctrlVars, cur, nsent, tx, bit, quiet, vram, base>>
      /\ \/ pc' = "idle" /\ pc \in {"boot", "idle"} /\ UNCHANGED <<tsync, tcsel>>
         \/ pc = "sync" /\ pc' = "mode" /\ tsync' = 0 /\ UNCHANGED tcsel
         \/ pc = "mode" /\ pc' = "send" /\ tcsel' = cur.cpu_cmd /\ UNCHANGED tsync
         \/ UNCHANGED <<pc, tsync, tcsel>>
  BY DEF Call, InitGfx, FlipBuf, SetPixelXY, SyncLow, SetMode, vars, cpuVars, spiVars
<1>2. Arrived' = Arrived
  BY <1>1 DEF Arrived
<1>3. WireInv' /\ HandshakeInv' /\ Carried' /\ Lawful
  BY <1>1, <1>2, FpgaSame
<1>4. CpuInv'
  BY <1>1 DEF LinkInv, TypeInv, TypeOK, CpuInv
<1> QED BY <1>1, <1>3, <1>4

LEMMA LinkInit == Init => LinkInv
<1> SUFFICES ASSUME Init PROVE LinkInv
  OBVIOUS
<1>1. /\ tx = << >> /\ Len(tx) = 0 /\ nsent = 0 /\ bit = 0 /\ pc = "boot" /\ tsync = 0
      /\ cur = NoTransfer /\ cur.cpu_cmd = 1
      /\ ctr = 0 /\ spi_state = 0 /\ outstate = 0 /\ outrdy = 0
      /\ cmdstate = 0 /\ cc_state = 0 /\ wr_to_mem = 0
      /\ base = [ports |-> ports, vram |-> vram]
  BY DEF Init, InSpiInit, CpuCtrlInit, NoTransfer, Command
<1>2. Arrived = 0
  <2>1. nsent = 0 /\ Len(tx) = 0
    BY <1>1
  <2> QED BY <2>1 DEF Arrived
<1>3. CpuInv
  BY <1>1 DEF CpuInv
<1>4. WireInv /\ HandshakeInv
  BY <1>1, <1>2 DEF WireInv, HandshakeInv, Silent, Armed
<1>5. Carried
  BY <1>1 DEF Carried, Collected, Written
<1> QED BY <1>3, <1>4, <1>5, TypeInit DEF LinkInv

LEMMA LinkStep ==
  ASSUME Polled, LinkInv, [Next]_vars
  PROVE  LinkInv'
<1>1. TypeInv'
  BY TypeStep DEF LinkInv
<1>2. CASE Call \/ SyncLow \/ SetMode \/ UNCHANGED vars
  BY <1>1, <1>2, OtherCpuKeeps DEF LinkInv
<1>3. CASE SyncHigh
  BY <1>1, <1>3, SyncHighKeeps DEF LinkInv
<1>4. CASE Send
  BY <1>1, <1>4, SendKeeps DEF LinkInv
<1>5. CASE Bit
  BY <1>1, <1>5, BitKeeps DEF LinkInv
<1>6. CASE BitOnEdge
  BY <1>1, <1>6, BitOnEdgeKeeps DEF LinkInv
<1>7. CASE Tick
  BY <1>1, <1>7, TickKeeps DEF LinkInv
<1> QED BY <1>2, <1>3, <1>4, <1>5, <1>6, <1>7 DEF Next

LEMMA LinkInvariance ==
  ASSUME Polled
  PROVE  Spec => []LinkInv
<1>1. LinkInv /\ [Next]_vars => LinkInv'
  BY LinkStep
<1> QED BY LinkInit, <1>1, PTL DEF Spec

-----------------------------------------------------------------------------

(* INSPI_BUF never presents a mixture of bytes as ready, although the slow *)
(* clock reads counter and shift register while they change                *)
(* (inspi_buf.vhd 26-54).                                                  *)
THEOREM UntornCorrect ==
  ASSUME Polled
  PROVE  Spec => []NoTornByte
<1>1. LinkInv => NoTornByte
  <2> SUFFICES ASSUME LinkInv, outrdy = 1 PROVE outdata # Junk
    BY DEF NoTornByte
  <2>1. quiet \in Nat
    BY DEF LinkInv, TypeInv, TypeOK
  <2>2. Arrived > 0 /\ outdata = cur.bytes[Arrived]
    BY <2>1 DEF LinkInv, HandshakeInv, Silent, Presented, Withdrawn
  <2>3. cur.bytes[Arrived] \in Byte
    BY <2>2, TransferFacts DEF LinkInv
  <2> QED BY <2>2, <2>3 DEF Junk, Byte
<1> QED BY <1>1, LinkInvariance, PTL

(* When the driver may touch the lines again, GAP slow edges after a byte, *)
(* the FPGA holds what all transfers so far asked for: the sync that comes *)
(* next destroys nothing (bitfire_fpga.c, cpuctrl.vhd 69-71).              *)
THEOREM DeliveredCorrect ==
  ASSUME Polled
  PROVE  Spec => []Delivered
<1>1. LinkInv => Delivered
  <2> SUFFICES ASSUME LinkInv, pc = "idle", tx = << >>, quiet >= GAP
               PROVE  Link!Settled
    BY DEF Delivered
  <2>1. ports = PortsAfter(cur, base.ports) /\ Written = MemAfter(cur, base.vram)
    BY SettledWhenQuiet
  <2> QED BY <2>1 DEF Link!Settled, Asked
<1> QED BY <1>1, LinkInvariance, PTL

-----------------------------------------------------------------------------

(* The abstract link speaks of the same transfers and of the same effects. *)
LEMMA SameTransfers ==
  /\ Link!Transfer = Transfer
  /\ \A t, f : Link!PortsAfter(t, f) = PortsAfter(t, f)
  /\ \A t, m : Link!MemAfter(t, m) = MemAfter(t, m)
<1>1. \A op : Link!Command(op) = Command(op)
  BY DEF Link!Command, Command
<1>2. \A x, y : Link!PixelAddr(x, y) = PixelAddr(x, y) /\ Link!InWindow(x, y) = InWindow(x, y)
  BY DEF Link!PixelAddr, PixelAddr, Link!InWindow, InWindow,
         Link!GL_XSIZE, Link!GL_YSIZE, GL_XSIZE, GL_YSIZE
<1>3. \A a, c : Link!PixelData(a, c) = PixelData(a, c)
  BY DEF Link!PixelData, PixelData
<1>4. Link!Transfer = Transfer
  BY <1>1, <1>2, <1>3 DEF Link!Transfer, Transfer
<1>5. \A op, f : Link!Execute(op, f) = Execute(op, f)
  BY DEF Link!Execute, Execute, Link!PinOf, PinOf, Link!Duty, Duty
<1>6. \A t, f : Link!PortsAfter(t, f) = PortsAfter(t, f)
  BY <1>5 DEF Link!PortsAfter, PortsAfter
<1>7. \A m, a, w : Link!Put(m, a, w) = Put(m, a, w)
  BY DEF Link!Put, Put
<1>8. \A t, m : Link!MemAfter(t, m) = MemAfter(t, m)
  BY <1>7 DEF Link!MemAfter, MemAfter
<1> QED BY <1>4, <1>6, <1>8

LEMMA LinkInitRefines == Init => Link!Init
<1> SUFFICES ASSUME Init PROVE Link!Init
  OBVIOUS
<1>1. /\ ports \in PowerUp /\ vram = << >> /\ wr_to_mem = 0
      /\ base = [ports |-> ports, vram |-> vram] /\ cur = NoTransfer
  BY DEF Init, CpuCtrlInit
<1>2. Written = << >>
  BY <1>1 DEF Written
<1>3. Asked = [ports |-> ports, vram |-> Written]
  <2>1. cur.cpu_cmd = 1 /\ cur.bytes[1] = 255
    BY <1>1 DEF NoTransfer, Command
  <2>2. Execute(255, base.ports) = base.ports
    BY DEF Execute
  <2> QED BY <1>1, <1>2, <2>1, <2>2 DEF Asked, PortsAfter, MemAfter
<1> QED BY <1>1, <1>2, <1>3 DEF Link!Init

(* A sync is where the abstract link takes the next transfer; every other  *)
(* step carries out what is asked or changes nothing.                      *)
LEMMA LinkStepRefines ==
  ASSUME Polled, LinkInv, [Next]_vars
  PROVE  [Link!Next]_(Link!linkVars)
<1>1. CASE SyncHigh
  <2>1. /\ ports = Asked.ports /\ Written = Asked.vram
        /\ UNCHANGED <<ports, Written>>
    BY <1>1, SyncHighKeeps
  <2>2. base' = Asked /\ cur' \in Transfer
    BY <1>1 DEF SyncHigh, LinkInv, TypeInv, TypeOK
  <2>3. Asked = [ports |-> ports, vram |-> Written]
    BY <2>1 DEF Asked
  <2>4. Asked' = [ports |-> PortsAfter(cur', Asked.ports), vram |-> MemAfter(cur', Asked.vram)]
    BY <2>2 DEF Asked
  <2>5. Link!Ask(cur')
    BY <2>1, <2>3, <2>4, SameTransfers DEF Link!Ask, Link!Settled
  <2> QED BY <2>2, <2>5, SameTransfers DEF Link!Next
<1>2. ASSUME Lawful, UNCHANGED <<cur, base>>
      PROVE  [Link!Next]_(Link!linkVars)
  <2>1. Asked' = Asked
    BY <1>2 DEF Asked
  <2>2. CASE UNCHANGED <<ports, Written>>
    BY <2>1, <2>2 DEF Link!linkVars
  <2>3. CASE ports' = PortsAfter(cur, base.ports) /\ Written' = MemAfter(cur, base.vram)
    BY <2>1, <2>3 DEF Asked, Link!Deliver, Link!Next
  <2> QED BY <1>2, <2>2, <2>3 DEF Lawful
<1>3. CASE Call \/ SyncLow \/ SetMode \/ UNCHANGED vars
  BY <1>2, <1>3, OtherCpuKeeps
<1>4. CASE Send
  BY <1>2, <1>4, SendKeeps DEF Send
<1>5. CASE Bit
  BY <1>2, <1>5, BitKeeps DEF Bit, MasterBit, cpuVars
<1>6. CASE BitOnEdge
  BY <1>2, <1>6, BitOnEdgeKeeps DEF BitOnEdge, MasterBit, cpuVars
<1>7. CASE Tick
  BY <1>2, <1>7, TickKeeps DEF Tick, cpuVars
<1> QED BY <1>1, <1>3, <1>4, <1>5, <1>6, <1>7 DEF Next

(* The link keeps its contract: between two syncs ports and memory change  *)
(* at most once, to what the transfer asked for; nothing else ever changes *)
(* them (cpuctrl.vhd, inspi_buf.vhd, bitfire_gfx.c).                       *)
THEOREM LinkImplements ==
  ASSUME Polled
  PROVE  Spec => Implements
<1>1. LinkInv /\ [Next]_vars => [Link!Next]_(Link!linkVars)
  BY LinkStepRefines
<1> QED BY <1>1, LinkInitRefines, LinkInvariance, PTL DEF Spec, Implements, Link!Spec
=============================================================================
