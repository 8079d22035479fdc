------------------------------- MODULE M25pxx -------------------------------
(***************************************************************************)
(* The driver of the M25Pxx serial flash (devs/flash/st/m25pxx), one byte  *)
(* on the bus after the other, and the chip (external: its data sheet, as  *)
(* far as the driver's comments quote it).  A call is FlashProgram,        *)
(* FlashSubSectorErase or FlashRead; the callers are serialised by the     *)
(* file system's lock.                                                     *)
(*                                                                         *)
(* A byte of the flash is the set of its bits that are 0: erasing empties  *)
(* it, programming adds to it.  The chip works on its own once it has been *)
(* given an instruction; the driver polls it and gives up after a while.   *)
(* An instruction and its three address bytes are one symbol, and a status *)
(* that was read counts when the transaction ends.                         *)
(***************************************************************************)
EXTENDS SpiBus

CONSTANTS
  PAGE,          \* FLASH_WRITE_BUFFER_SIZE (256)
  SECTOR,        \* bytes of a subsector (0x1000)
  SECTORS,       \* FLASH_SECTOR_COUNT (0x200)
  COUNT_FOR_A_SECOND,
  Bits,          \* of a byte
  Data           \* what a caller programs: sequences of bytes

FLASH_SIZE == SECTOR * SECTORS
Address == 0 .. FLASH_SIZE - 1
Sector(s) == s * SECTOR .. s * SECTOR + SECTOR - 1

ASSUME FlashAssumption ==
  /\ PAGE \in Nat \ {0} /\ SECTOR \in Nat \ {0} /\ SECTORS \in Nat \ {0}
  /\ SECTOR % PAGE = 0
  /\ COUNT_FOR_A_SECOND \in Nat
  /\ Data \subseteq Seq(SUBSET Bits)

VARIABLES
  mem,           \* the flash: address to the bits that are 0
  wel,           \* its write enable latch
  busy,          \* the instruction it works on, or Done
  phase,         \* transaction of the driver: "check", "wren", "op", "poll", "read"
  out,           \* bytes of it still to be sent
  call,          \* the call under way and its locals
  counter,       \* udCounter of FlashTimeOut
  outcome,       \* what the last call but reads returned
  before         \* (history) the flash when the call began, the chip being done

chipVars == <<mem, wel, busy>>
driverVars == <<phase, out, call, counter, outcome, before>>
flashVars == <<mem, wel, busy, phase, out, call, counter, outcome, before>>

Done == [op |-> "none", at |-> 0, data |-> << >>]
NoCall == [op |-> "none", at |-> 0, data |-> << >>, sent |-> 0, n |-> 0, more |-> FALSE]
Instruction(op, at) == [op |-> op, at |-> at, byte |-> {}]
Dummy == Instruction("dummy", 0)
Datum(byte) == [op |-> "data", at |-> 0, byte |-> byte]

FlashInit ==
  /\ mem = [a \in Address |-> {}] /\ wel = FALSE /\ busy = Done
  /\ phase = "idle" /\ out = << >> /\ call = NoCall /\ counter = 0
  /\ outcome = "Success" /\ before = mem

-----------------------------------------------------------------------------
(* The chip.                                                               *)

(* Where a page program instruction puts byte k: it wraps in the page.     *)
PageAddr(at, k) == ((at \div PAGE) * PAGE) + ((at + k - 1) % PAGE)

Programmed(m, at, data) ==
  [a \in Address |-> m[a] \cup UNION {data[k] : k \in {k \in DOMAIN data : PageAddr(at, k) = a}}]
Erased(m, s) == [a \in Address |-> IF a \in Sector(s) THEN {} ELSE m[a]]

(* The chip select rises: an instruction that is complete is carried out,  *)
(* if the chip is free and, of those that change it, enabled.              *)
Execute ==
  LET op == IF shift = << >> THEN "none" ELSE Head(shift).op
      at == IF shift = << >> THEN 0 ELSE Head(shift).at
      data == [k \in 1 .. Len(shift) - 1 |-> shift[k + 1].byte]
      go == busy = Done /\ wel
  IN /\ wel' = IF op = "wren" /\ Len(shift) = 1 /\ busy = Done THEN TRUE ELSE wel
     /\ busy' = CASE op = "pp" /\ data # << >> /\ go -> [op |-> op, at |-> at, data |-> data]
                  [] op = "sse" /\ data = << >> /\ go -> [op |-> op, at |-> at, data |-> << >>]
                  [] OTHER -> busy
     /\ UNCHANGED mem

After == CASE busy.op = "pp" -> Programmed(mem, busy.at, busy.data)
           [] busy.op = "sse" -> Erased(mem, busy.at)
           [] OTHER -> mem

ChipDone ==
  /\ busy # Done /\ mem' = After
  /\ busy' = Done /\ wel' = FALSE
  /\ UNCHANGED <<driverVars, busVars>>

-----------------------------------------------------------------------------
(* The driver's transactions: the lines, the bytes, the lines again.       *)

Begin(p, bytes) == phase' = p /\ out' = bytes
Select ==
  /\ phase # "idle" /\ ~selected /\ enable_cs
  /\ UNCHANGED flashVars

Byte ==
  /\ phase # "idle" /\ selected /\ out # << >>
  /\ WordSend(Head(out)) /\ out' = Tail(out)
  /\ UNCHANGED <<chipVars, phase, call, counter, outcome, before>>

Status == <<Instruction("rdsr", 0), Dummy>>
Poll == Begin("poll", Status)

(* The call returns r.                                                     *)
Return(r) ==
  /\ phase' = "idle" /\ out' = << >> /\ counter' = 0
  /\ outcome' = r
  /\ UNCHANGED <<call, before>>

(* FlashPageProgram and FlashSubSectorErase, their addresses being right.  *)
Check(c) == Begin("check", Status) /\ call' = c /\ counter' = 0

Left == Len(call.data) - call.sent - call.n    \* bytes behind the current page
Chunk == [k \in 1 .. call.n |-> Datum(call.data[call.sent + k])]
Least(x, y) == IF x < y THEN x ELSE y

(* A slip the properties catch: the first page is taken for a whole one.   *)
FlashProgramUnaligned(addr, data) ==
  Check([op |-> "pp", at |-> addr, data |-> data, sent |-> 0,
         n |-> Least(Len(data), PAGE), more |-> Len(data) > PAGE])

(* FlashProgram: up to the end of the page first.                          *)
FlashProgram(addr, data) ==
  LET margin == PAGE - (addr % PAGE)
  IN Check([op |-> "pp", at |-> addr, data |-> data, sent |-> 0,
            n |-> Least(Len(data), margin), more |-> Len(data) > margin])

(* Then whole pages and the remainder, even when it is empty; an address   *)
(* behind the flash is refused, data or not.                               *)
NextPage ==
  LET at == call.at + call.n
      n == Least(Left, PAGE)
  IN IF ~call.more THEN Return("Success")
     ELSE IF at >= FLASH_SIZE THEN Return("AddressInvalid")
     ELSE /\ Check([call EXCEPT !.at = at, !.sent = @ + call.n, !.n = n, !.more = n = PAGE])
          /\ UNCHANGED <<outcome, before>>

FlashSubSectorErase(s) == Check([NoCall EXCEPT !.op = "sse", !.at = s])

(* FlashRead does not ask whether the chip is busy.                        *)
FlashRead(addr) ==
  /\ Begin("read", <<Instruction("read", addr), Dummy>>)
  /\ call' = [NoCall EXCEPT !.op = "read", !.at = addr]
  /\ UNCHANGED <<counter, outcome, before>>

Call ==
  /\ phase = "idle" /\ UNCHANGED <<chipVars, busVars>>
  /\ \/ /\ before' = After /\ UNCHANGED outcome
        /\ \/ \E a \in Address, d \in Data : a + Len(d) <= FLASH_SIZE /\ FlashProgram(a, d)
           \/ \E s \in 0 .. SECTORS - 1 : FlashSubSectorErase(s)
     \/ \E a \in Address : FlashRead(a)

(* WAIT_TILL_Instruction_EXECUTION_COMPLETE: seconds by operation.         *)
Patience == COUNT_FOR_A_SECOND * (IF call.op = "pp" THEN 1 ELSE 3)

(* A slip the properties catch: the driver waits for ever.                 *)
StillBusyPatient == Poll /\ UNCHANGED <<call, counter, outcome, before>>

StillBusy ==
  IF counter = Patience THEN Return("OperationTimeOut")
  ELSE Poll /\ counter' = counter + 1 /\ UNCHANGED <<call, outcome, before>>

(* A slip the properties catch: the chip is not asked before it is used.   *)
AfterCheckAnyway == Begin("wren", <<Instruction("wren", 0)>>)
                    /\ UNCHANGED <<call, counter, outcome, before>>

(* IsFlashBusy has answered, before the operation.                         *)
AfterCheck ==
  IF busy # Done THEN Return("OperationOngoing")
  ELSE Begin("wren", <<Instruction("wren", 0)>>) /\ UNCHANGED <<call, counter, outcome, before>>

Operation == <<Instruction(call.op, call.at)>> \o Chunk

(* The last byte of a transaction has left: the lines go back, the chip    *)
(* acts, and the driver goes on.                                           *)
Deselect ==
  /\ phase # "idle" /\ selected /\ out = << >>
  /\ disable_cs /\ Execute
  /\ CASE phase = "check" -> AfterCheck
       [] phase = "wren" -> Begin("op", Operation) /\ UNCHANGED <<call, counter, outcome, before>>
       [] phase = "op" -> Poll /\ UNCHANGED <<call, counter, outcome, before>>
       [] phase = "poll" -> IF busy # Done THEN StillBusy ELSE NextPage
       [] phase = "read" -> phase' = "idle" /\ UNCHANGED <<out, call, counter, outcome, before>>

Driver == Select \/ Byte \/ Deselect

-----------------------------------------------------------------------------
(* Power is lost: what the chip was working on may be done in part.  A     *)
(* call that had not begun finds what an earlier one has left.             *)
Refused == phase = "check" \/ (phase = "idle" /\ outcome = "OperationOngoing")

PowerFails ==
  /\ LET then == After
     IN \E done \in SUBSET {a \in Address : then[a] # mem[a]} :
          mem' = [a \in Address |-> IF a \in done THEN then[a] ELSE mem[a]]
  /\ wel' = FALSE /\ busy' = Done
  /\ phase' = "idle" /\ out' = << >> /\ counter' = 0 /\ UNCHANGED <<call, outcome>>
  /\ before' = IF busy # Done /\ Refused THEN mem' ELSE before

PowerReturns ==
  /\ call' = NoCall /\ outcome' = "Success" /\ before' = mem
  /\ UNCHANGED <<chipVars, phase, out, counter>>
=============================================================================
