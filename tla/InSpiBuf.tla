------------------------------ MODULE InSpiBuf ------------------------------
(***************************************************************************)
(* INSPI_BUF (fpga/src/inspi_buf.vhd): the receiver of the CPU's serial    *)
(* link.  One process runs on the serial clock and collects the bits of a  *)
(* byte; the other runs on the slow PLL clock, watches the bit counter     *)
(* across the clock domains and presents the byte to CPUCTRL.              *)
(*                                                                         *)
(* A byte is a number; tmpres is the byte whose first ctr bits have been   *)
(* shifted in, or Junk once the counter and the sender disagree on the     *)
(* position of a bit (after a sync in the middle of a byte).               *)
(***************************************************************************)
EXTENDS FpgaCommands

CONSTANT BITS            \* bits of a byte on the wire (8 in the code)

ASSUME BitsAssumption == BITS \in Nat /\ BITS >= 4

VARIABLES
  ctr,                   \* bits of the byte seen so far
  spi_state,             \* 0 idle, 1 inside a byte ("state" in the code)
  tmpres,                \* the byte being shifted in
  outstate,              \* slow edges that have seen a full counter
  outdata, outrdy        \* what CPUCTRL sees

inspiVars == <<ctr, spi_state, tmpres, outstate, outdata, outrdy>>

Junk == 256              \* a word that mixes the bits of several bytes
Word == Byte \cup {Junk}

InSpiTypeOK ==
  /\ ctr \in 0 .. BITS
  /\ spi_state \in 0 .. 1
  /\ tmpres \in Word
  /\ outstate \in 0 .. 3
  /\ outdata \in Word
  /\ outrdy \in 0 .. 1

InSpiInit ==
  /\ ctr = 0 /\ spi_state = 0 /\ tmpres = 0
  /\ outstate = 0 /\ outdata = 0 /\ outrdy = 0

(* rst='1' clears both processes at once, whatever the clocks do. *)
InSpiReset ==
  /\ ctr' = 0 /\ spi_state' = 0 /\ tmpres' = 0
  /\ outstate' = 0 /\ outdata' = 0 /\ outrdy' = 0

(* A slip the properties catch: the receiver never returns to idle.        *)
SpiEdgeNoIdle(b, i) ==
  LET n == IF spi_state = 0 THEN 1 ELSE ctr + 1
  IN /\ ctr' = n
     /\ spi_state' = 1
     /\ tmpres' = IF i = n THEN b ELSE Junk

(* A rising edge of the serial clock while bit i (from 1) of byte b is on  *)
(* the wire.                                                               *)
SpiEdge(b, i) ==
  LET n == IF spi_state = 0 THEN 1 ELSE ctr + 1
      inStep == i = n /\ (n = 1 \/ tmpres = b)
  IN /\ ctr' = n
     /\ spi_state' = IF n = BITS THEN 0 ELSE 1
     /\ tmpres' = IF inStep THEN b ELSE Junk

(* What the slow clock finds in tmpres: the byte only when it is whole.    *)
Held == IF ctr = BITS THEN tmpres ELSE Junk

(* Slips the properties catch: the byte is announced at the first sight of *)
(* a full counter, and a byte once announced is never withdrawn.           *)
SlowEdgeAtOnce(full, word) ==
  \/ full /\ outstate' = 3 /\ outdata' = word /\ outrdy' = 1
  \/ ~full /\ outstate' = 0 /\ outdata' = 0 /\ outrdy' = 0

SlowEdgeNoDrop(full, word) ==
  \/ /\ full /\ outstate < 3
     /\ outstate' = outstate + 1 /\ outdata' = word /\ UNCHANGED outrdy
  \/ full /\ outstate = 3 /\ outrdy' = 1 /\ UNCHANGED <<outstate, outdata>>
  \/ ~full /\ outstate' = 0 /\ outdata' = 0 /\ UNCHANGED outrdy

(* A rising edge of the slow clock that reads the counter as full or not,  *)
(* and `word` in tmpres.                                                   *)
SlowEdge(full, word) ==
  \/ /\ full /\ outstate < 3
     /\ outstate' = outstate + 1
     /\ outdata' = word
     /\ UNCHANGED outrdy
  \/ /\ full /\ outstate = 3
     /\ outrdy' = 1
     /\ UNCHANGED <<outstate, outdata>>
  \/ /\ ~full
     /\ outstate' = 0 /\ outdata' = 0 /\ outrdy' = 0

=============================================================================
