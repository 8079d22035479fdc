---------------------------- MODULE DisplayLink -----------------------------
(***************************************************************************)
(* What the serial link between the CPU and the FPGA promises to the       *)
(* drivers: each transfer is carried out exactly once, whole, in the order *)
(* of the calls, and before the next transfer starts.  No other port       *)
(* change and no other memory write ever happens.                          *)
(***************************************************************************)
EXTENDS BspGfx

CONSTANT PowerUp         \* what the ports may hold before the first command

VARIABLES
  ports,                 \* the FPGA's output ports
  vram,                  \* the memory being drawn: <<low, high>> address to word
  asked                  \* what the transfers so far should have made of both

linkVars == <<ports, vram, asked>>

Settled == asked = [ports |-> ports, vram |-> vram]

Init ==
  /\ ports \in PowerUp
  /\ vram = << >>
  /\ asked = [ports |-> ports, vram |-> vram]

(* The driver starts a transfer; the one before it has been carried out.   *)
Ask(t) ==
  /\ Settled
  /\ asked' = [ports |-> PortsAfter(t, asked.ports), vram |-> MemAfter(t, asked.vram)]
  /\ UNCHANGED <<ports, vram>>

(* The FPGA carries the transfer out.                                      *)
Deliver ==
  /\ ports' = asked.ports
  /\ vram' = asked.vram
  /\ UNCHANGED asked

Next == (\E t \in Transfer : Ask(t)) \/ Deliver

Spec == Init /\ [][Next]_linkVars

(* Every transfer that was started is carried out.                         *)
FairSpec == Spec /\ WF_linkVars(Deliver)

=============================================================================
