------------------------------ MODULE LedScan -------------------------------
(***************************************************************************)
(* The output side of the FPGA (cpuledctrl_top.vhd): LEDCTRL on the slow   *)
(* clock; the read ports of the two frame memories, the double-buffer      *)
(* register and the OUTSPI shifters on the fast clock, RATIO edges of      *)
(* which make a slow period; and, outside the FPGA, the LED driver chains. *)
(* A step is one rising edge of the fast clock, with the slow edge when    *)
(* they coincide; every process reads what was there before the edge.      *)
(***************************************************************************)
EXTENDS LedCtrl

CONSTANTS
  PIXELS,      \* pixels of a word, bits of a driver chain (16)
  RATIO,       \* fast edges per slow edge (2)
  Shows        \* buffers the CPU may ask to have shown

ASSUME ClockAssumption ==
  PIXELS \in Nat /\ PIXELS >= 1 /\ RATIO \in Nat /\ RATIO >= 1 /\ Shows \subseteq 0 .. 1

VARIABLES
  phase,                 \* fast edges since the last slow edge
  ccout_show,            \* show buffer asked for by the CPU (CPUCTRL's port)
  reg_show_buffer,       \* show buffer in use
  memaddr, memq,         \* address and output registers of the two memories
  outspi,                \* the OUTSPI of each chain
  chain,                 \* each chain's shift register: last word, bits of it in
  led                    \* what each chain's outputs hold

scanVars ==
  <<phase, ccout_show, reg_show_buffer, memaddr, memq, outspi, chain, led>>
vars == <<ledctrlVars, scanVars>>

(* A shift register in which two words meet.                               *)
Mixed == [src |-> Nowhere, level |-> -1]

Init ==
  /\ LedCtrlInit
  /\ phase = 0
  /\ ccout_show \in Shows /\ reg_show_buffer = 0
  /\ memaddr = <<0, 0>> /\ memq = <<0, 0>>
  /\ outspi = [c \in Chan |-> [state |-> 0, bitctr |-> 0, outclk |-> 0, tmpdata |-> Dark]]
  /\ chain = [c \in Chan |-> [word |-> Dark, bits |-> PIXELS]]
  /\ led = [c \in Chan |-> Dark]

-----------------------------------------------------------------------------

(* OUTSPI (outspi_top.vhd, outspi_bot.vhd): its state after a fast edge.   *)
(* The order in which it sends the bits of a word is the board's wiring.   *)
OutSpiNext(o, indata, inrdy) ==
  CASE o.state = 0 /\ inrdy = 0 -> [o EXCEPT !.bitctr = 0, !.outclk = 0]
    [] o.state = 0 /\ inrdy = 1 ->
         [state |-> 1, bitctr |-> 0, outclk |-> 0, tmpdata |-> indata]
    [] o.state # 0 /\ o.bitctr = PIXELS -> [o EXCEPT !.state = 0]
    [] o.state = 1 /\ o.bitctr # PIXELS -> [o EXCEPT !.state = 2, !.outclk = 0]
    [] o.state = 2 /\ o.bitctr # PIXELS ->
         [o EXCEPT !.state = 1, !.outclk = 1, !.bitctr = @ + 1]

Ready == \A c \in Chan : outspi[c].state = 0

(* The LED drivers (external): a rising outclk shifts a bit in, and the    *)
(* outputs follow the shift register while latchn is high.                 *)
ShiftChains ==
  chain' = [c \in Chan |->
              IF outspi[c].outclk = 0 /\ outspi'[c].outclk = 1
                THEN [word |-> outspi[c].tmpdata, bits |-> outspi[c].bitctr + 1]
                ELSE chain[c]]

Outputs ==
  led' = IF latchn' = 1
           THEN [c \in Chan |-> IF chain'[c].bits = PIXELS THEN chain'[c].word ELSE Mixed]
           ELSE led

(* Read ports: the memory not shown sees address 0; address and output are *)
(* registered.                                                             *)
ReadMemories ==
  /\ memaddr' = <<IF reg_show_buffer = 0 THEN rdaddr ELSE 0,
                  IF reg_show_buffer = 1 THEN rdaddr ELSE 0>>
  /\ memq' = memaddr

(* The word the memories show to LEDCTRL.                                  *)
lcin_q == <<reg_show_buffer, memq[reg_show_buffer + 1]>>

(* The buffer shown changes while vertsync is up.                          *)
LatchBuffer ==
  reg_show_buffer' = IF vertsync = 1 THEN ccout_show ELSE reg_show_buffer

FastEdge ==
  /\ phase' = (phase + 1) % RATIO
  /\ LatchBuffer /\ ReadMemories
  /\ outspi' = [c \in Chan |-> OutSpiNext(outspi[c], spi_data[c], datardy)]
  /\ ShiftChains /\ Outputs

(* The fast edge alone, and with the slow edge it coincides with.          *)
Between == phase # 0 /\ UNCHANGED <<ledctrlVars, ccout_show>> /\ FastEdge

Together ==
  /\ phase = 0
  /\ LedCtrlEdge(lcin_q, Ready)
  /\ FastEdge
  /\ ccout_show' \in Shows \cup {ccout_show}

Next == Between \/ Together

Spec == Init /\ [][Next]_vars

(* The PLL does not stop.                                                  *)
FairSpec == Spec /\ WF_vars(Next)

-----------------------------------------------------------------------------

(* Every counter stays in the range the source declares for it.            *)
TypeOK ==
  /\ lstate \in 0 .. 4 /\ rsubstate \in 0 .. 3 /\ ssubstate \in 0 .. 2
  /\ readctr \in 0 .. 2 * WORDS
  /\ addr0 \in 0 .. HALF /\ addr1 \in HALF .. FULL
  /\ pwm_ctr \in 0 .. LEVELS
  /\ spie_ctr \in 0 .. BLANK /\ spie_flag \in 0 .. 1
  /\ rdaddr \in 0 .. FULL - 1
  /\ vertsync \in 0 .. 1 /\ latchn \in 0 .. 1 /\ enablen \in 0 .. 1 /\ datardy \in 0 .. 1
  /\ en_mux \in 0 .. ROWS
  /\ databuf \in [Chan -> Source]
  /\ phase \in 0 .. RATIO - 1 /\ reg_show_buffer \in 0 .. 1 /\ ccout_show \in 0 .. 1
  /\ \A c \in Chan : outspi[c].state \in 0 .. 2 /\ outspi[c].bitctr \in 0 .. PIXELS

(* The line that has just been fetched.                                    *)
Line == LineEndingAt(addr1)

(* The address of the word chain c needs for line r.                       *)
WordOf(r, c) ==
  IF c < WORDS THEN (r - 1) * WORDS + c ELSE HALF + (r - 1) * WORDS + c - WORDS

(* A line is modulated from the right words of one buffer, the one latched *)
(* at the start of the frame: two waits in LEDCTRL cover the two registers *)
(* of the memory, and no flip falls inside a frame.                        *)
LineWhole ==
  lstate \in {2, 3} => Line # 0 /\ \A c \in Chan : databuf[c] = <<reg_show_buffer, WordOf(Line, c)>>

(* A LED of line r is on: the drivers are enabled and r is driven.         *)
Lit(r) == enablen = 0 /\ en_mux = r /\ r # 0

(* What a lit line shows is its own pixels at some step, or nothing; the   *)
(* only exception is the one slow period in which the next line is driven  *)
(* already and the drivers have not yet been disabled.                     *)
NoGhost ==
  \A r \in 1 .. ROWS : Lit(r) =>
    \/ lstate = 2 /\ spie_ctr = BLANK
    \/ \A c \in Chan :
         \/ led[c].level = LEVELS - 1
         \/ led[c].level \in 0 .. LEVELS - 2 /\ led[c].src[2] = WordOf(r, c)

(* The chains take every step of a line, in order, whole: nothing is sent  *)
(* twice, nothing is latched half shifted while a line is driven.          *)
Follows(old, new) ==
  \/ new.level = old.level + 1 /\ new.src = old.src
  \/ new.level = 0 /\ (old.level = LEVELS - 1 \/ old = Mixed)
  \/ new.level = LEVELS - 1 /\ old = Mixed

StepsInOrder ==
  [][\A c \in Chan : led'[c] # led[c] =>
       (led'[c] = Mixed /\ en_mux' = 0) \/ Follows(led[c], led'[c])]_vars

(* Every line of the panel is lit again and again, at full brightness.     *)
Refreshed ==
  \A r \in 1 .. ROWS : []<>(Lit(r) /\ led[0].src[2] = WordOf(r, 0) /\ led[0].level = LEVELS - 2)

(* A buffer asked for long enough is shown.                                *)
FlipHappens == \A b \in Shows : <>[](ccout_show = b) => <>[](reg_show_buffer = b)

=============================================================================
