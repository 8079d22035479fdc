------------------------------ MODULE FpgaLink ------------------------------
(***************************************************************************)
(* The serial link between the display driver and the FPGA: the CPU        *)
(* running the BSP calls, its SPI master, INSPI_BUF and CPUCTRL.           *)
(*                                                                         *)
(* Three clocks run against each other: the CPU's, the serial clock and    *)
(* the FPGA's slow clock.  Each rising edge is a step; a serial edge that  *)
(* falls on a slow edge is a step of its own (BitOnEdge), in which the     *)
(* slow clock may catch the counter and the shift register before or after *)
(* the change, independently.                                              *)
(***************************************************************************)
EXTENDS InSpiBuf, CpuCtrl, BspGfx

CONSTANTS
  Polled,    \* TRUE: spi_polled_putchar (Bitfire); FALSE: spi_send (Atmosfire)
  GAP        \* slow edges the CPU needs, at least, from the last serial edge
             \* of a byte to the next sync or the next byte

ASSUME GapAssumption == Polled \in BOOLEAN /\ GAP \in Nat /\ GAP >= 6

VARIABLES
  pc,                    \* where the CPU is in the transfer
  todo,                  \* the transfers of the current call not yet started
  cur, nsent,            \* the last one started, and how many of its bytes the
                         \* CPU has handed to the SPI master
  workbuf,               \* bsp_workbuf
  tx, bit,               \* the SPI master: bytes it has, bits of the first one sent
  tsync, tcsel,          \* the two GPIO lines
  quiet,                 \* slow edges since the last serial edge, up to GAP
  vram,                  \* the memory being drawn: <<low, high>> address to word
  base                   \* history: ports and memory as they should be before cur

cpuVars == <<pc, todo, cur, nsent, workbuf>>
spiVars == <<tx, bit>>
vars == <<inspiVars, cpuctrlVars, cpuVars, spiVars, tsync, tcsel, quiet, vram, base>>

MasterDepth == 2         \* one byte in the shifter, one in the BSPI FIFO

(* Before the first transfer, as if a command without effect had been sent. *)
NoTransfer == Command(255)

(* The memory as the write port leaves it.                                 *)
Written == IF wr_to_mem = 1 THEN Put(vram, wraddr_to_mem, data_to_mem) ELSE vram

(* What the transfers up to cur should make of ports and memory.           *)
Asked == [ports |-> PortsAfter(cur, base.ports), vram |-> MemAfter(cur, base.vram)]

-----------------------------------------------------------------------------

Init ==
  /\ InSpiInit /\ CpuCtrlInit
  /\ pc = "boot" /\ todo = << >> /\ cur = NoTransfer /\ nsent = 0 /\ workbuf = 0
  /\ tx = << >> /\ bit = 0
  /\ tsync = 0 /\ tcsel \in 0 .. 1
  /\ quiet = GAP
  /\ vram = << >>
  /\ base = [ports |-> ports, vram |-> vram]

(* The BSP calls.  Whatever a call sends, it sends when it is reached.     *)
InitGfx ==
  /\ pc = "boot"
  /\ pc' = "idle" /\ todo' = InitTransfers /\ workbuf' = 0
  /\ UNCHANGED <<inspiVars, cpuctrlVars, cur, nsent, spiVars, tsync, tcsel, quiet, vram, base>>

FlipBuf ==
  /\ pc = "idle" /\ todo = << >>
  /\ todo' = FlipTransfers(workbuf) /\ workbuf' = 1 - workbuf
  /\ UNCHANGED <<inspiVars, cpuctrlVars, pc, cur, nsent, spiVars, tsync, tcsel, quiet, vram, base>>

SetPixelXY(x, y, col) ==
  /\ pc = "idle" /\ todo = << >>
  /\ todo' = PixelTransfers(x, y, col)
  /\ UNCHANGED <<inspiVars, cpuctrlVars, pc, cur, nsent, workbuf, spiVars, tsync, tcsel, quiet, vram, base>>

-----------------------------------------------------------------------------

(* fpga_command() and fpga_data(): raise sync, drop it, set the mode line. *)
(* With Polled the previous byte is over; once a byte is over, the CPU has *)
(* needed GAP slow edges to get here.                                      *)
SyncHigh ==
  /\ pc = "idle" /\ todo # << >>
  /\ Polled => tx = << >>
  /\ tx = << >> => quiet >= GAP
  /\ tsync' = 1 /\ InSpiReset /\ CpuCtrlReset
  /\ base' = Asked
  /\ pc' = "sync" /\ cur' = Head(todo) /\ todo' = Tail(todo) /\ nsent' = 0
  /\ UNCHANGED <<workbuf, spiVars, tcsel, quiet, vram>>

SyncLow ==
  /\ pc = "sync"
  /\ tsync' = 0 /\ pc' = "mode"
  /\ UNCHANGED <<inspiVars, cpuctrlVars, todo, cur, nsent, workbuf, spiVars, tcsel, quiet, vram, base>>

SetMode ==
  /\ pc = "mode"
  /\ tcsel' = cur.cpu_cmd /\ pc' = "send"
  /\ UNCHANGED <<inspiVars, cpuctrlVars, todo, cur, nsent, workbuf, spiVars, tsync, quiet, vram, base>>

(* One byte to the SPI master.  spi_polled_putchar waits until the byte is *)
(* on the wire, which nothing between two calls can tell from waiting      *)
(* before the next one; spi_send only waits for room.                      *)
Send ==
  /\ pc = "send"
  /\ IF Polled THEN tx = << >> ELSE Len(tx) < MasterDepth
  /\ tx' = Append(tx, cur.bytes[nsent + 1])
  /\ nsent' = nsent + 1
  /\ pc' = IF nsent + 1 = Len(cur.bytes) THEN "idle" ELSE "send"
  /\ UNCHANGED <<inspiVars, cpuctrlVars, todo, cur, workbuf, bit, tsync, tcsel, quiet, vram, base>>

-----------------------------------------------------------------------------

(* The SPI master puts a bit on the wire.  Bits are at least one slow edge *)
(* apart; a byte starts GAP slow edges after the one before.               *)
MasterBit ==
  /\ tx # << >>
  /\ quiet >= IF bit = 0 THEN GAP ELSE 1
  /\ quiet' = 0
  /\ bit' = IF bit + 1 = BITS THEN 0 ELSE bit + 1
  /\ tx' = IF bit + 1 = BITS THEN Tail(tx) ELSE tx
  /\ UNCHANGED <<cpuVars, tsync, tcsel, base>>

(* The receiver ignores the serial clock while sync is high.               *)
Receive ==
  IF tsync = 1 THEN UNCHANGED <<ctr, spi_state, tmpres>>
               ELSE SpiEdge(Head(tx), bit + 1)

Bit ==
  /\ MasterBit /\ Receive
  /\ UNCHANGED <<outstate, outdata, outrdy, cpuctrlVars, vram>>

(* The write port of the memory is not held back by reset.                *)
MemWrite == vram' = Written

(* A slow edge in the FPGA that reads `full` and `word` from the serial    *)
(* side.                                                                   *)
SlowClock(full, word) ==
  /\ IF tsync = 1
       THEN UNCHANGED <<outstate, outdata, outrdy, cpuctrlVars>>
       ELSE SlowEdge(full, word) /\ CpuCtrlEdge(outdata, outrdy, tcsel)
  /\ MemWrite

Tick ==
  /\ SlowClock(ctr = BITS, Held)
  /\ quiet' = IF quiet < GAP THEN quiet + 1 ELSE GAP
  /\ UNCHANGED <<ctr, spi_state, tmpres, cpuVars, spiVars, tsync, tcsel, base>>

(* The serial edge falls on a slow edge.                                   *)
BitOnEdge ==
  /\ MasterBit /\ Receive
  /\ \E full \in {ctr = BITS, (ctr = BITS)'}, word \in {Held, Held'} :
       SlowClock(full, word)

-----------------------------------------------------------------------------

Call == InitGfx \/ FlipBuf \/ \E s \in Strokes : SetPixelXY(s[1], s[2], s[3])

Next ==
  \/ Call
  \/ SyncHigh \/ SyncLow \/ SetMode \/ Send
  \/ Bit \/ BitOnEdge
  \/ Tick

Spec == Init /\ [][Next]_vars

(* The clocks never stop and the CPU finishes the call it is in.           *)
Fairness ==
  /\ WF_vars(SyncHigh) /\ WF_vars(SyncLow) /\ WF_vars(SetMode) /\ WF_vars(Send)
  /\ WF_vars(Bit \/ BitOnEdge) /\ WF_vars(Tick)

FairSpec == Spec /\ Fairness

-----------------------------------------------------------------------------

TypeOK ==
  /\ InSpiTypeOK /\ CpuCtrlTypeOK
  /\ pc \in {"boot", "idle", "sync", "mode", "send"}
  /\ todo \in Seq(Transfer)
  /\ cur \in Transfer \cup {NoTransfer} /\ nsent \in 0 .. Len(cur.bytes)
  /\ workbuf \in 0 .. 1
  /\ tx \in Seq(Byte) /\ Len(tx) <= MasterDepth
  /\ bit \in 0 .. BITS - 1
  /\ tsync \in 0 .. 1 /\ tcsel \in 0 .. 1
  /\ quiet \in 0 .. GAP
  /\ DOMAIN vram \subseteq Byte \X (0 .. 3)
  /\ base.ports \in PortFile

(* A word that CPUCTRL may act on is one the CPU sent: the three slow      *)
(* edges INSPI_BUF waits after the first sight of a full counter are       *)
(* enough for a read that caught the shift register mid-change.            *)
NoTornByte == outrdy = 1 => outdata # Junk

Link == INSTANCE DisplayLink WITH vram <- Written, asked <- Asked

(* By the time the driver may touch the lines again, the FPGA has done     *)
(* what every transfer so far asked for, so no sync destroys a byte that   *)
(* is still on its way through INSPI_BUF and CPUCTRL.                      *)
Delivered == pc = "idle" /\ tx = << >> /\ quiet >= GAP => Link!Settled

(* The link implements its contract: between two syncs the ports and the   *)
(* memory change at most once, to exactly what the transfer asked for.     *)
Implements == Link!Spec

(* What cpuctrl.vhd:5-8 says of its input, with cpu_cmd = 0 memory data and *)
(* with cpu_cmd = 1 commands: a byte is on the wire under the mode it was   *)
(* sent for, so neither line moves while the SPI master still has bits to   *)
(* send.                                                                    *)
SteadyLines == [][tx # << >> => UNCHANGED <<tsync, tcsel>>]_vars

(* Every transfer is carried out.                                          *)
AllDelivered == []<>Link!Settled

=============================================================================
