----------------------------- MODULE SharedSpi ------------------------------
(***************************************************************************)
(* Atmosfire under the shell: one thread uses the flash, another one draws *)
(* (a Lua script calls C functions without the mutex of Lua), and both     *)
(* drivers use the bus of SpiBus.  With Concurrent = FALSE they take       *)
(* turns, call by call; with TRUE either may interrupt the other between   *)
(* two statements.  The power may fail at any time.                        *)
(***************************************************************************)
EXTENDS M25pxx

CONSTANTS
  Concurrent,
  PIXEL          \* bytes that a display call sends (4, or 1 for a command)

ASSUME SharedAssumption == Concurrent \in BOOLEAN /\ PIXEL \in Nat \ {0}

VARIABLES
  powered,
  drawing        \* statements left of a display call

vars == <<flashVars, busVars, powered, drawing>>

Pixel == Instruction("pixel", 0)
Pixels == [k \in 1 .. PIXEL |-> Pixel]

(* fpga_data or fpga_command, then spi_send for each byte                  *)
(* (atmosfire_fpga.c, atmosfire_gfx.c).                                    *)
DisplayCall == <<"high", "low">> \o [k \in 1 .. PIXEL |-> "send"]

Init == BusInit /\ FlashInit /\ powered = TRUE /\ drawing = << >>

Turn(other) == powered /\ (Concurrent \/ other)

FlashCall == Turn(drawing = << >>) /\ Call /\ UNCHANGED <<powered, drawing>>
FlashStep == Turn(drawing = << >>) /\ Driver /\ UNCHANGED <<powered, drawing>>
ChipStep == powered /\ ChipDone /\ UNCHANGED <<powered, drawing>>

DrawCall ==
  /\ Turn(phase = "idle") /\ drawing = << >> /\ drawing' = DisplayCall
  /\ UNCHANGED <<flashVars, busVars, powered>>

DrawStep ==
  /\ powered /\ drawing # << >> /\ drawing' = Tail(drawing)
  /\ \/ Head(drawing) = "high" /\ SyncHigh
     \/ Head(drawing) = "low" /\ SyncLow
     \/ Head(drawing) = "send" /\ WordSend(Pixel)
  /\ UNCHANGED <<flashVars, powered>>

PowerLoss ==
  /\ powered /\ powered' = FALSE /\ PowerFails
  /\ sync' = FALSE /\ selected' = FALSE /\ shift' = << >> /\ heard' = << >>
  /\ drawing' = << >>

PowerOn == ~powered /\ powered' = TRUE /\ PowerReturns /\ UNCHANGED <<busVars, drawing>>

Next == FlashCall \/ FlashStep \/ ChipStep \/ DrawCall \/ DrawStep \/ PowerLoss \/ PowerOn

(* The driver goes on while there is power; nothing is asked of the chip.  *)
Spec == Init /\ [][Next]_vars /\ WF_vars(FlashStep)

-----------------------------------------------------------------------------
Returned == {"Success", "AddressInvalid", "OperationOngoing", "OperationTimeOut"}

Begun == call.at - call.sent                   \* first address of the call
Range(first, n) == first .. first + n - 1

(* The variables have their types; a call stays within the flash and a     *)
(* chunk of it within its page.                                            *)
TypeOK ==
  /\ sync \in BOOLEAN /\ selected \in BOOLEAN /\ powered \in BOOLEAN
  /\ mem \in [Address -> SUBSET Bits] /\ before \in [Address -> SUBSET Bits]
  /\ wel \in BOOLEAN /\ busy.op \in {"none", "pp", "sse"}
  /\ phase \in {"idle", "check", "wren", "op", "poll", "read"}
  /\ counter \in 0 .. Patience /\ outcome \in Returned
  /\ call.op = "pp" => /\ Range(Begun, Len(call.data)) \subseteq Address
                       /\ (call.at % PAGE) + call.n <= PAGE
                       /\ Left >= 0 /\ (Left > 0 => call.more)

(* The FPGA hears nothing that is meant for the flash (the comment on the  *)
(* sync signal, m25pxx_flash.c:97).                                        *)
FpgaIgnoresFlash == \A k \in DOMAIN heard : heard[k] = Pixel

(* With it, the flash receives nothing that is meant for the FPGA, and a   *)
(* display call reaches the FPGA whole, whatever the flash driver does     *)
(* with the two lines between the calls.                                   *)
BusKept ==
  /\ FpgaIgnoresFlash
  /\ \A k \in DOMAIN shift : shift[k] # Pixel
  /\ phase = "idle" /\ drawing = << >> => heard \in {<< >>, Pixels}

(* What the call would make of byte a.                                     *)
Wanted(a) ==
  CASE call.op = "pp" /\ a \in Range(Begun, Len(call.data)) -> before[a] \cup call.data[a - Begun + 1]
    [] call.op = "sse" /\ a \in Sector(call.at) -> {}
    [] OTHER -> before[a]

(* FlashProgram writes page after page: those before the current one are   *)
(* as they should be, those after it and everything outside the call as    *)
(* they were, and a byte of the current one is either; the chip being done *)
(* or the power lost (FlashProgram, FlashSubSectorErase).                  *)
WrittenInOrder ==
  call.op \in {"pp", "sse"} =>
    \A a \in Address :
       /\ After[a] \in {before[a], Wanted(a)}
       /\ call.op = "pp" /\ a < call.at => After[a] = Wanted(a)
       /\ call.op = "pp" /\ a >= call.at + call.n => After[a] = before[a]

(* A call that says so has written everything, and so has one that reports *)
(* an address behind the flash for the empty rest of its data              *)
(* (m25pxx_flash.c:1299); one that found the chip busy has written         *)
(* nothing.                                                                *)
AnswerTrue ==
  powered /\ phase = "idle" /\ call.op \in {"pp", "sse"} =>
    /\ outcome \in {"Success", "AddressInvalid"} =>
         busy = Done /\ \A a \in Address : mem[a] = Wanted(a)
    /\ outcome = "OperationOngoing" => After = before

(* The driver never sends an instruction that changes the flash to a chip  *)
(* that would not take it: it is free, and for the instruction itself      *)
(* enabled.  FlashRead, which does not ask, meets a busy chip only after a *)
(* call that did not wait for its end.                                     *)
ChipListens ==
  /\ phase \in {"wren", "op"} => busy = Done
  /\ phase = "op" => wel
  /\ phase = "read" /\ busy # Done => outcome \in {"OperationOngoing", "OperationTimeOut"}

(* Every call returns, even when the chip never finishes: the driver       *)
(* counts its polls (FlashTimeOut).                                        *)
CallEnds == phase # "idle" ~> phase = "idle"

=============================================================================
