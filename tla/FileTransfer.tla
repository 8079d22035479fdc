---------------------------- MODULE FileTransfer ----------------------------
(***************************************************************************)
(* What a transfer over XMODEM promises: the file grows by the pieces of   *)
(* the source, each once and in order, and the transfer ends once.  On a   *)
(* line that lost nothing, an end without an error means the whole file.   *)
(***************************************************************************)
EXTENDS Naturals, Sequences

CONSTANTS
  Source,             \* the pieces of the file, in order
  Outcomes            \* what the receiver may return, "end" being the good one

VARIABLES
  file,               \* the pieces written so far
  status,             \* "receiving", then what the receiver returned
  clean               \* the line has carried every byte as it was sent

transferVars == <<file, status, clean>>

Init == file = << >> /\ status = "receiving" /\ clean = TRUE

Write ==
  /\ status = "receiving" /\ Len(file) < Len(Source)
  /\ file' = Append(file, Source[Len(file) + 1])
  /\ UNCHANGED status

End(s) ==
  /\ status = "receiving" /\ status' = s
  /\ s = "end" /\ clean => file = Source
  /\ UNCHANGED file

Disturb == clean' = FALSE /\ UNCHANGED <<file, status>>

(* The last reply of a transfer may itself be disturbed.                   *)
Next ==
  \/ (Write \/ \E s \in Outcomes : End(s)) /\ clean' \in {clean, FALSE}
  \/ Disturb

Spec == Init /\ [][Next]_transferVars
=============================================================================
