----------------------------- MODULE FileStore ------------------------------
(***************************************************************************)
(* What MTFFS promises its callers (mtffs.h, the comments of mtffs.c): a   *)
(* set of named files, each a sequence of units that calls overwrite or    *)
(* extend; and, because the FAT lives in RAM, a list of files that comes   *)
(* back after a loss of power: the one of the last umount or unlink.       *)
(***************************************************************************)
EXTENDS Integers, Sequences

CONSTANTS
  Names,              \* file names
  Entries,            \* the files that can exist at the same time
  Writes              \* the data a call may write, sequences of units

VARIABLES
  powered,            \* FALSE after a loss of power
  mounted,
  files,              \* entry to <<name, content>>, or << >> for none
  saved,              \* the same as it would come back after a loss of power
  call                \* the write under way, or << >>

storeVars == <<powered, mounted, files, saved, call>>

NoFile == << >>
Idle == call = << >>
Taken(n) == \E e \in Entries : files[e] # NoFile /\ files[e][1] = n

Init ==
  /\ powered = TRUE /\ mounted = FALSE
  /\ files = [e \in Entries |-> NoFile] /\ saved = files
  /\ call = << >>

Mount == ~mounted /\ mounted' = TRUE /\ files' = saved /\ UNCHANGED saved

Umount ==
  /\ mounted /\ mounted' = FALSE
  /\ saved' = files /\ files' = [e \in Entries |-> NoFile]

Create(e, n) ==
  /\ mounted /\ files[e] = NoFile /\ ~Taken(n)
  /\ files' = [files EXCEPT ![e] = <<n, << >> >>]
  /\ UNCHANGED <<mounted, saved>>

Rename(e, n) ==
  /\ mounted /\ files[e] # NoFile /\ ~Taken(n)
  /\ files' = [files EXCEPT ![e][1] = n]
  /\ UNCHANGED <<mounted, saved>>

Unlink(e) ==
  /\ mounted /\ files[e] # NoFile
  /\ files' = [files EXCEPT ![e] = NoFile]
  /\ saved' = files'
  /\ UNCHANGED mounted

(* A file with data laid over it from unit p (counting from 0) on, as far  *)
(* as it reaches, and lengthened to hold all of it.                        *)
Over(f, p, data) ==
  IF f = NoFile THEN f
  ELSE <<f[1], [i \in 1 .. Len(f[2]) |->
                  IF i > p /\ i <= p + Len(data) THEN data[i - p] ELSE f[2][i]]>>

Longer(f, p, data) ==
  Over(<<f[1], f[2] \o SubSeq(data, Len(f[2]) - p + 1, Len(data))>>, p, data)

BeginWrite ==
  /\ mounted /\ Idle /\ call' # << >>
  /\ call' = [entry |-> call'.entry, start |-> call'.start, data |-> call'.data, done |-> 0]
  /\ call'.entry \in Entries /\ call'.data \in Writes
  /\ files[call'.entry] # NoFile /\ call'.start \in 0 .. Len(files[call'.entry][2])
  /\ UNCHANGED <<mounted, files, saved>>

(* Part of the data reaches the flash; inside the file it is seen at once. *)
Progress(n) ==
  LET part == SubSeq(call.data, 1, n)
  IN /\ n > call.done /\ n < Len(call.data)
     /\ call' = [call EXCEPT !.done = n]
     /\ files' = [files EXCEPT ![call.entry] = Over(@, call.start, part)]
     /\ saved' = [saved EXCEPT ![call.entry] = Over(@, call.start, part)]
     /\ UNCHANGED mounted

(* The last of it does, and the file takes its new length.                 *)
EndWrite ==
  /\ ~Idle /\ call' = << >>
  /\ files' = [files EXCEPT ![call.entry] = Longer(@, call.start, call.data)]
  /\ saved' = [saved EXCEPT ![call.entry] = Over(@, call.start, call.data)]
  /\ UNCHANGED mounted

(* There is no room for the rest.                                          *)
GiveUp == ~Idle /\ call' = << >> /\ UNCHANGED <<mounted, files, saved>>

PowerLoss ==
  /\ powered /\ powered' = FALSE
  /\ mounted' = FALSE /\ files' = [e \in Entries |-> NoFile] /\ call' = << >>
  /\ UNCHANGED saved

PowerOn == ~powered /\ powered' = TRUE /\ UNCHANGED <<mounted, files, saved, call>>

ListCall ==
  \/ Mount \/ Umount
  \/ \E e \in Entries : Unlink(e) \/ \E n \in Names : Create(e, n) \/ Rename(e, n)

WriteCall ==
  \/ BeginWrite \/ EndWrite \/ GiveUp
  \/ ~Idle /\ \E n \in 1 .. Len(call.data) : Progress(n)

StoreCall == WriteCall \/ (Idle /\ call' = << >> /\ ListCall)

Next == (powered /\ StoreCall /\ UNCHANGED powered) \/ PowerLoss \/ PowerOn

Spec == Init /\ [][Next]_storeVars

=============================================================================
