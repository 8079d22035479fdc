------------------------------ MODULE LedCtrl -------------------------------
(***************************************************************************)
(* LEDCTRL (fpga/src/ledctrl.vhd): scans the frame memory line by line and *)
(* modulates the brightness of a line by sending its pixels LEVELS times   *)
(* to the LED drivers, each time with the pixels that are brighter than    *)
(* the step count lit.                                                     *)
(*                                                                         *)
(* The words read from memory stay symbolic: databuf holds where a word    *)
(* came from (buffer and address), and what is sent for it at step k is    *)
(* the pattern [src, level |-> k], in which a pixel of value v is lit      *)
(* exactly when k < v.                                                     *)
(***************************************************************************)
EXTENDS Integers

CONSTANTS
  WORDS,       \* words per half line, one LED driver chain each (5)
  ROWS,        \* lines of each half of the panel (8)
  LEVELS,      \* steps of the brightness modulation (256)
  BLANK        \* slow edges between blanking and the new line (110)

ASSUME ScanAssumption ==
  /\ WORDS \in Nat /\ WORDS >= 1 /\ ROWS \in Nat /\ ROWS >= 1
  /\ LEVELS \in Nat /\ LEVELS >= 2 /\ BLANK \in Nat /\ BLANK >= 3

HALF == ROWS * WORDS          \* first address of the lower half (40)
FULL == 2 * ROWS * WORDS      \* end of the memory (80)
Chan == 0 .. 2 * WORDS - 1    \* driver chains: the upper half's, the lower's

VARIABLES
  lstate,                     \* "state" in the code
  rsubstate, ssubstate, readctr, addr0, addr1, pwm_ctr,
  databuf,                    \* the words of the current line, by chain
  spie_ctr, spie_flag,        \* blanking timer and its start flag
  rdaddr, vertsync,
  latchn, enablen, en_mux,    \* en_mux: the line driven, 0 for none
  spi_data, datardy

mainVars ==
  <<lstate, rsubstate, ssubstate, readctr, addr0, addr1, pwm_ctr, databuf,
    spie_flag, rdaddr, vertsync, latchn, en_mux, spi_data, datardy>>
ledctrlVars == <<mainVars, spie_ctr, enablen>>

(* Where a word comes from: <<buffer, address>>.                           *)
Source == (0 .. 1) \X (0 .. FULL - 1)
Nowhere == <<0, 0>>

(* At the last step no pixel is lit: values are below LEVELS.              *)
Dark == [src |-> Nowhere, level |-> LEVELS - 1]

(* reset is tied low, so these are the values the registers power up with. *)
LedCtrlInit ==
  /\ lstate = 0 /\ rsubstate = 0 /\ ssubstate = 0
  /\ readctr = 0 /\ addr0 = 0 /\ addr1 = HALF /\ pwm_ctr = 0
  /\ databuf = [c \in Chan |-> Nowhere]
  /\ spie_ctr = 0 /\ spie_flag = 0
  /\ rdaddr = 0 /\ vertsync = 0
  /\ latchn = 0 /\ enablen \in 0 .. 1 /\ en_mux = 0
  /\ spi_data = [c \in Chan |-> Dark] /\ datardy = 0

-----------------------------------------------------------------------------

(* A slip the properties catch: blanking leaves the LEDs on.               *)
BlankingLit ==
  \/ spie_flag = 1 /\ spie_ctr' = 0 /\ UNCHANGED enablen
  \/ spie_flag = 0 /\ spie_ctr = BLANK /\ enablen' = 0 /\ UNCHANGED spie_ctr
  \/ spie_flag = 0 /\ spie_ctr < BLANK /\ spie_ctr' = spie_ctr + 1 /\ UNCHANGED enablen

(* The blanking timer: while spie_flag is up it is held at 0 with the LEDs *)
(* off; then it counts to BLANK, and there the LEDs come on.               *)
Blanking ==
  \/ spie_flag = 1 /\ spie_ctr' = 0 /\ enablen' = 1
  \/ spie_flag = 0 /\ spie_ctr = BLANK /\ enablen' = 0 /\ UNCHANGED spie_ctr
  \/ spie_flag = 0 /\ spie_ctr < BLANK /\ spie_ctr' = spie_ctr + 1 /\ UNCHANGED enablen

(* State 0: start a frame.                                                 *)
StartFrame ==
  /\ lstate = 0 /\ lstate' = 1
  /\ rsubstate' = 0 /\ ssubstate' = 0 /\ readctr' = 0
  /\ addr0' = 0 /\ addr1' = HALF
  /\ vertsync' = 0
  /\ databuf' = [c \in Chan |-> Nowhere]
  /\ latchn' = 1 /\ en_mux' = 0
  /\ UNCHANGED <<pwm_ctr, spie_flag, rdaddr, spi_data, datardy>>

(* Slips the properties catch: no wait for the second register of the      *)
(* memory, and one word too many fetched.                                  *)
PutAddressNoWait ==
  /\ lstate = 1 /\ rsubstate = 0
  /\ rdaddr' = IF readctr < WORDS THEN addr0 ELSE addr1
  /\ rsubstate' = 2
  /\ UNCHANGED <<lstate, ssubstate, readctr, addr0, addr1, pwm_ctr, databuf,
                 spie_flag, vertsync, latchn, en_mux, spi_data, datardy>>

AdvanceOneMore ==
  /\ lstate = 1 /\ rsubstate = 3
  /\ IF readctr < WORDS + 1
       THEN addr0' = addr0 + 1 /\ UNCHANGED addr1
       ELSE addr1' = addr1 + 1 /\ UNCHANGED addr0
  /\ IF readctr > 2 * WORDS
       THEN lstate' = 2 /\ UNCHANGED rsubstate
       ELSE rsubstate' = 0 /\ UNCHANGED lstate
  /\ UNCHANGED <<ssubstate, readctr, pwm_ctr, databuf, spie_flag,
                 rdaddr, vertsync, latchn, en_mux, spi_data, datardy>>

(* State 1: fetch the words of a line.  Put out an address, wait, take the *)
(* word the memory shows (q), advance.                                     *)
PutAddress ==
  /\ lstate = 1 /\ rsubstate = 0
  /\ rdaddr' = IF readctr < WORDS THEN addr0 ELSE addr1
  /\ rsubstate' = 1
  /\ UNCHANGED <<lstate, ssubstate, readctr, addr0, addr1, pwm_ctr, databuf,
                 spie_flag, vertsync, latchn, en_mux, spi_data, datardy>>

AwaitWord ==
  /\ lstate = 1 /\ rsubstate = 1 /\ rsubstate' = 2
  /\ UNCHANGED <<lstate, ssubstate, readctr, addr0, addr1, pwm_ctr, databuf,
                 spie_flag, rdaddr, vertsync, latchn, en_mux, spi_data, datardy>>

TakeWord(q) ==
  /\ lstate = 1 /\ rsubstate = 2 /\ rsubstate' = 3
  /\ IF readctr < 2 * WORDS
       THEN databuf' = [databuf EXCEPT ![readctr] = q] /\ readctr' = readctr + 1
       ELSE UNCHANGED <<databuf, readctr>>
  /\ UNCHANGED <<lstate, ssubstate, addr0, addr1, pwm_ctr, spie_flag,
                 rdaddr, vertsync, latchn, en_mux, spi_data, datardy>>

Advance ==
  /\ lstate = 1 /\ rsubstate = 3
  /\ IF readctr < WORDS + 1
       THEN addr0' = addr0 + 1 /\ UNCHANGED addr1
       ELSE addr1' = addr1 + 1 /\ UNCHANGED addr0
  /\ IF readctr = 2 * WORDS
       THEN lstate' = 2 /\ UNCHANGED rsubstate
       ELSE rsubstate' = 0 /\ UNCHANGED lstate
  /\ UNCHANGED <<ssubstate, readctr, pwm_ctr, databuf, spie_flag,
                 rdaddr, vertsync, latchn, en_mux, spi_data, datardy>>

(* The line whose words end at address a of the lower half, 0 if none.     *)
LineEndingAt(a) ==
  IF \E r \in 1 .. ROWS : a = HALF + WORDS * r
    THEN CHOOSE r \in 1 .. ROWS : a = HALF + WORDS * r
    ELSE 0

(* A slip the properties catch: the flag is not lowered when the timer has *)
(* started over, as if SendLine's assignment were enough.                  *)
StartLineFlagUp ==
  /\ lstate = 2
  /\ rsubstate' = 0 /\ readctr' = 0 /\ pwm_ctr' = 0
  /\ en_mux' = LineEndingAt(addr1)
  /\ spie_flag' = IF spie_ctr = BLANK THEN 1 ELSE spie_flag
  /\ lstate' = IF spie_ctr = BLANK - 1 THEN 3 ELSE 2
  /\ UNCHANGED <<ssubstate, addr0, addr1, databuf, rdaddr, vertsync, latchn,
                 spi_data, datardy>>

(* State 2: drive the new line and wait for the blanking timer to come     *)
(* round, starting it first when it has run out.                           *)
StartLine ==
  /\ lstate = 2
  /\ rsubstate' = 0 /\ readctr' = 0 /\ pwm_ctr' = 0
  /\ en_mux' = LineEndingAt(addr1)
  /\ spie_flag' = CASE spie_ctr = BLANK -> 1
                    [] spie_ctr = 0 -> 0
                    [] OTHER -> spie_flag
  /\ lstate' = IF spie_ctr = BLANK - 1 THEN 3 ELSE 2
  /\ UNCHANGED <<ssubstate, addr0, addr1, databuf, rdaddr, vertsync, latchn,
                 spi_data, datardy>>

(* A slip the properties catch: the chains are latched while they shift.   *)
AwaitChainsNot(ready) ==
  /\ lstate = 3 /\ ssubstate = 0
  /\ datardy' = 0
  /\ IF pwm_ctr = LEVELS
       THEN lstate' = 4 /\ UNCHANGED <<ssubstate, latchn>>
       ELSE ssubstate' = 1 /\ latchn' = 1 /\ UNCHANGED lstate
  /\ UNCHANGED <<rsubstate, readctr, addr0, addr1, pwm_ctr, databuf, spie_flag,
                 rdaddr, vertsync, en_mux, spi_data>>

(* State 3: send the line at each step.  Wait until every driver chain has *)
(* been shifted out and let the LEDs have it; send the next pattern; count.*)
AwaitChains(ready) ==
  /\ lstate = 3 /\ ssubstate = 0
  /\ datardy' = 0
  /\ CASE pwm_ctr = LEVELS -> lstate' = 4 /\ UNCHANGED <<ssubstate, latchn>>
       [] pwm_ctr # LEVELS /\ ready -> ssubstate' = 1 /\ latchn' = 1 /\ UNCHANGED lstate
       [] OTHER -> UNCHANGED <<lstate, ssubstate, latchn>>
  /\ UNCHANGED <<rsubstate, readctr, addr0, addr1, pwm_ctr, databuf, spie_flag,
                 rdaddr, vertsync, en_mux, spi_data>>

SendLine ==
  /\ lstate = 3 /\ ssubstate = 1 /\ ssubstate' = 2
  /\ spi_data' = [c \in Chan |-> [src |-> databuf[c], level |-> pwm_ctr]]
  /\ latchn' = 0 /\ datardy' = 1 /\ spie_flag' = 0
  /\ UNCHANGED <<lstate, rsubstate, readctr, addr0, addr1, pwm_ctr, databuf,
                 rdaddr, vertsync, en_mux>>

CountStep ==
  /\ lstate = 3 /\ ssubstate = 2 /\ ssubstate' = 0
  /\ pwm_ctr' = pwm_ctr + 1
  /\ UNCHANGED <<lstate, rsubstate, readctr, addr0, addr1, databuf, spie_flag,
                 rdaddr, vertsync, latchn, en_mux, spi_data, datardy>>

(* A slip the properties catch: the end of the frame is not announced.     *)
EndLineSilent ==
  /\ lstate = 4
  /\ IF addr1 = FULL THEN lstate' = 0 /\ UNCHANGED ssubstate
                     ELSE lstate' = 1 /\ ssubstate' = 0
  /\ UNCHANGED <<rsubstate, readctr, addr0, addr1, pwm_ctr, databuf, spie_flag,
                 rdaddr, vertsync, latchn, en_mux, spi_data, datardy>>

(* State 4: the line is over; after the last one the frame is.             *)
EndLine ==
  /\ lstate = 4
  /\ IF addr1 = FULL
       THEN lstate' = 0 /\ vertsync' = 1 /\ UNCHANGED ssubstate
       ELSE lstate' = 1 /\ ssubstate' = 0 /\ UNCHANGED vertsync
  /\ UNCHANGED <<rsubstate, readctr, addr0, addr1, pwm_ctr, databuf, spie_flag,
                 rdaddr, latchn, en_mux, spi_data, datardy>>

(* One rising edge of the slow clock, with the word the memory shows and   *)
(* whether every chain is ready.                                           *)
LedCtrlEdge(q, ready) ==
  /\ Blanking
  /\ \/ StartFrame
     \/ PutAddress \/ AwaitWord \/ TakeWord(q) \/ Advance
     \/ StartLine
     \/ AwaitChains(ready) \/ SendLine \/ CountStep
     \/ EndLine

=============================================================================
