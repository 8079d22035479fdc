------------------------------- MODULE Xmodem -------------------------------
(***************************************************************************)
(* The XMODEM receiver of the shell, against the transmitter of the same   *)
(* file, over a serial line that may lose and garble bytes                 *)
(* (software/ecos/apps/mtshell/xmodem.c).                                  *)
(*                                                                         *)
(* A byte on the line is a pair <<kind, value>>.  Control codes, packet    *)
(* numbers and their complements have the kind "byte" and can be mistaken  *)
(* for each other; the 128 bytes of a packet are one symbol that names the *)
(* packet, and so is each byte of its check.                               *)
(***************************************************************************)
EXTENDS Integers, Sequences, SequencesExt

CONSTANTS
  BYTE,               \* packet numbers are bytes: 256
  TRIES,              \* attempts to get a header, or the first sign: 16
  MAXRETRANS,         \* 25
  EOTTRIES,           \* attempts of the transmitter to end: 10
  srcsz,              \* bytes the transmitter has
  fsize,              \* bytes announced to the shell's command
  Faults              \* how many bytes the line may lose or garble

ASSUME XmodemAssumption ==
  /\ BYTE \in Nat /\ BYTE > 1 /\ Faults \in Nat /\ srcsz \in Nat /\ fsize \in Nat
  /\ {TRIES, MAXRETRANS, EOTTRIES} \subseteq Nat \ {0}

VARIABLES
  rx,                 \* xmodemReceive: its locals, and `then`, what follows a flush;
                      \* file: what was written, as <<packet, bytes>>; status: what it returned
  tx,                 \* xmodemTransmit: its locals (len: bytes acknowledged); verdict
  toRx, toTx,         \* the bytes on the line
  faults              \* how many were lost or garbled

vars == <<rx, tx, toRx, toTx, faults>>

Byte(v) == <<"byte", v>>
SOH == Byte(1)
STX == Byte(2)
EOT == Byte(4)
ACK == Byte(6)
NAK == Byte(21)
CAN == Byte(24)
Cee == Byte(67)
Junk == <<"junk", 0>>
None == << >>

BUFSZ == 128        \* bytes of a packet
LastPacket == srcsz \div BUFSZ      \* packets are numbered from 0 in the model

(* What a symbol may be where a control code is expected: a byte of data   *)
(* or a garbled one can be anything.                                       *)
Readings(s) == IF s[1] = "byte" THEN {s} ELSE {SOH, STX, EOT, ACK, NAK, CAN, Cee, Junk}

Checksum(i, withCrc) == IF withCrc THEN <<<<"crc_high", i>>, <<"crc_low", i>>>>
                                   ELSE <<<<"sum", i>>>>

Packet(i, withCrc) ==
  LET no == (i + 1) % BYTE      \* counted from 1
  IN  <<SOH, Byte(no), Byte(BYTE - 1 - no), <<"data", i>>>> \o Checksum(i, withCrc)

(* The bytes after a header: number, complement, data and check; 1024      *)
(* bytes of data are more than 128.                                        *)
BodyLen(header, withCrc) ==
  2 + (IF header = STX THEN 2 ELSE 1) + (IF withCrc THEN 2 ELSE 1)

(* check(): a check matches only the data it was computed from.            *)
Checks(x, withCrc) ==
  \E i \in 0 .. LastPacket : SubSeq(x, 4, Len(x)) = <<<<"data", i>>>> \o Checksum(i, withCrc)

(* What becomes of bytes on the line: they arrive, or one is lost or       *)
(* garbled.                                                                *)
Arrivals(s) ==
  {[bytes |-> s, faults |-> 0]}
    \cup {[bytes |-> RemoveAt(s, k), faults |-> 1] : k \in DOMAIN s}
    \cup {[bytes |-> ReplaceAt(s, k, Junk), faults |-> 1] : k \in DOMAIN s}

Carry(line, line1, s) ==
  \E a \in Arrivals(s) :
    /\ line1 = line \o a.bytes
    /\ faults' = faults + a.faults /\ faults' <= Faults

(* The number of the packet read, if it is whole.  (The slip: its data are *)
(* not checked.)                                                           *)
WholeUnchecked(no) == rx.xbuff[2] = Byte(no) /\ rx.xbuff[3] = Byte(BYTE - 1 - no)
Whole(no) == WholeUnchecked(no) /\ Checks(rx.xbuff, rx.crc)

(* Reading and sending take no time against the timeouts of a second or    *)
(* two.  Writing a packet to flash may take longer than any of them, and   *)
(* the user starts the transmitter when he likes.                          *)
Reading == rx.pc \in {"wait", "can", "body", "flush"}
Listening == tx.pc \in {"sync", "reply", "ended", "canSync", "canReply"}
Silence ==
  /\ ~(Reading /\ toRx # << >>) /\ ~(Listening /\ toTx # << >>)
  /\ rx.pc # "try" /\ tx.pc \notin {"send", "eot", "giveUp"}
  /\ rx.pc = "check" => Whole(rx.packetno)

-----------------------------------------------------------------------------
(* xmodemReceive                                                           *)

Get == toRx # << >> /\ toRx' = Tail(toRx)
Answer(s) == Carry(toTx, toTx', s)

Again == [rx EXCEPT !.pc = "try", !.retry = @ + 1]
FlushThen(what) == [rx EXCEPT !.pc = "flush", !.then = what, !.xbuff = << >>]

(* The loop over retry: ask, and wait for a header.  (The slip: once too   *)
(* often.)                                                                 *)
MoreTriesBut(n) == rx.retry <= n
MoreTries(n) == rx.retry < n

Try ==
  /\ rx.pc = "try" /\ MoreTries(TRIES)
  /\ rx' = [rx EXCEPT !.pc = "wait"]
  /\ IF rx.trychar = None THEN UNCHANGED <<toTx, faults>> ELSE Answer(<<rx.trychar>>)
  /\ UNCHANGED <<toRx, tx>>

(* No packet with CRC came: ask for checksums.  None of these either: end. *)
NoTriesLeft ==
  /\ rx.pc = "try" /\ ~MoreTries(TRIES)
  /\ rx' = IF rx.trychar = Cee THEN [rx EXCEPT !.trychar = NAK, !.retry = 0]
                               ELSE FlushThen("sync")
  /\ UNCHANGED <<toRx, toTx, faults, tx>>

Header ==
  /\ rx.pc = "wait" /\ Get
  /\ \E c \in Readings(Head(toRx)) :
       \/ /\ c \in {SOH, STX}
          /\ rx' = [rx EXCEPT !.pc = "body", !.crc = @ \/ rx.trychar = Cee,
                              !.trychar = None, !.xbuff = <<c>>]
       \/ c = EOT /\ rx' = FlushThen("end")
       \/ c = CAN /\ rx' = [rx EXCEPT !.pc = "can"]
       \/ c \notin {SOH, STX, EOT, CAN} /\ rx' = Again
  /\ UNCHANGED <<toTx, faults, tx>>

(* A second CAN confirms the first.                                        *)
SecondCan ==
  /\ rx.pc = "can" /\ Get
  /\ \E c \in Readings(Head(toRx)) :
       rx' = IF c = CAN THEN FlushThen("cancelled") ELSE Again
  /\ UNCHANGED <<toTx, faults, tx>>

(* (The slip: after one CAN a byte is waited for without a timeout.)       *)
WaitsForever == {"wait"}
WaitsForHeader == {"wait", "can"}

NoHeader ==
  /\ rx.pc \in WaitsForHeader /\ toRx = << >> /\ Silence
  /\ rx' = Again
  /\ UNCHANGED <<toRx, toTx, faults, tx>>

BodyByte ==
  /\ rx.pc = "body" /\ Get
  /\ rx' = [rx EXCEPT !.xbuff = Append(@, Head(toRx)),
                      !.pc = IF Len(rx.xbuff) = BodyLen(rx.xbuff[1], rx.crc) THEN "check" ELSE @]
  /\ UNCHANGED <<toTx, faults, tx>>

(* A packet is cut short.                                                  *)
BodyTimeout ==
  /\ rx.pc = "body" /\ toRx = << >> /\ Silence
  /\ rx' = FlushThen("reject")
  /\ UNCHANGED <<toRx, toTx, faults, tx>>

(* The numbers taken; there is none before 0, since the subtraction is one *)
(* of integers.                                                            *)
NextNo(no) == (no + 1) % BYTE
Expected(no) == no = rx.packetno
Repeated(no) == no = rx.packetno - 1

Numbers == 0 .. BYTE - 1

(* A new packet restores the count of retransmissions: to one more than    *)
(* the limit, less one for itself.  (The slip: that one is forgotten.)     *)
RestoredLessOne == MAXRETRANS - 1
Restored == MAXRETRANS

(* A packet is acknowledged while retransmissions are left.                *)
Acknowledge(r) ==
  IF r.retrans <= 0 THEN rx' = [r EXCEPT !.pc = "flush", !.then = "retry"] /\ UNCHANGED <<toTx, faults>>
                    ELSE rx' = [r EXCEPT !.pc = "try", !.retry = 0] /\ Answer(<<ACK>>)

(* The packet expected: as much of it is written as the announced size     *)
(* has room for.                                                           *)
Accept ==
  /\ rx.pc = "check" /\ \E no \in Numbers : Whole(no) /\ Expected(no)
  /\ LET wlen == IF rx.wpos + BUFSZ > fsize THEN fsize - rx.wpos ELSE BUFSZ
     IN  Acknowledge(
           [rx EXCEPT !.file = IF wlen = 0 THEN @ ELSE Append(@, <<rx.xbuff[4][2], wlen>>),
                      !.wpos = @ + BUFSZ, !.packetno = NextNo(@),
                      !.retrans = Restored, !.xbuff = << >>])
  /\ UNCHANGED <<toRx, tx>>

Repeat ==
  /\ rx.pc = "check" /\ \E no \in Numbers : Whole(no) /\ Repeated(no)
  /\ Acknowledge([rx EXCEPT !.retrans = @ - 1, !.xbuff = << >>])
  /\ UNCHANGED <<toRx, tx>>

Reject ==
  /\ rx.pc = "check" /\ \A no \in Numbers : Whole(no) => ~Expected(no) /\ ~Repeated(no)
  /\ rx' = FlushThen("reject")
  /\ UNCHANGED <<toRx, toTx, faults, tx>>

(* flushinput(): whatever comes is dropped until nothing comes.            *)
Flush ==
  /\ rx.pc = "flush" /\ toRx # << >> /\ toRx' = << >>
  /\ UNCHANGED <<rx, toTx, faults, tx>>

Flushed ==
  /\ rx.pc = "flush" /\ toRx = << >> /\ Silence
  /\ IF rx.then = "reject"
       THEN rx' = [rx EXCEPT !.pc = "try", !.then = "try", !.retry = 0] /\ Answer(<<NAK>>)
       ELSE /\ rx' = [rx EXCEPT !.pc = "done", !.then = "try", !.status = rx.then]
            /\ Answer(IF rx.then \in {"end", "cancelled"} THEN <<ACK>> ELSE <<CAN, CAN, CAN>>)
  /\ UNCHANGED <<toRx, tx>>

Receive ==
  \/ Try \/ NoTriesLeft \/ Header \/ SecondCan \/ NoHeader \/ BodyByte \/ BodyTimeout
  \/ Accept \/ Repeat \/ Reject \/ Flush \/ Flushed

-----------------------------------------------------------------------------
(* xmodemTransmit                                                          *)

Hear == toTx # << >> /\ toTx' = Tail(toTx)
Tell(s) == Carry(toRx, toRx', s)

(* One attempt more, or the last has failed.                               *)
Retry ==
  LET loop == CASE tx.pc \in {"sync", "canSync"}   -> <<"sync", TRIES>>
                [] tx.pc \in {"reply", "canReply"} -> <<"send", MAXRETRANS>>
                [] tx.pc = "ended"                 -> <<"eot", EOTTRIES>>
  IN  [tx EXCEPT !.retry = @ + 1, !.pc = IF tx.retry + 1 < loop[2] THEN loop[1] ELSE "giveUp"]

Start ==
  /\ tx.pc = "idle" /\ tx' = [tx EXCEPT !.pc = "sync"]
  /\ UNCHANGED <<toRx, toTx, faults, rx>>

(* The first sign of the receiver settles the check used for good.         *)
FirstSign ==
  /\ tx.pc = "sync" /\ Hear
  /\ \E c \in Readings(Head(toTx)) :
       \/ c \in {Cee, NAK} /\ tx' = [tx EXCEPT !.pc = "send", !.retry = 0, !.crc = c = Cee]
       \/ c = CAN /\ tx' = [tx EXCEPT !.pc = "canSync"]
       \/ c \notin {Cee, NAK, CAN} /\ tx' = Retry
  /\ UNCHANGED <<toRx, faults, rx>>

(* A packet is sent while any byte is left, and one of padding when the    *)
(* file fills its packets.                                                 *)
SendPacket ==
  /\ tx.pc = "send" /\ tx.len <= srcsz
  /\ Tell(Packet(tx.len \div BUFSZ, tx.crc)) /\ tx' = [tx EXCEPT !.pc = "reply"]
  /\ UNCHANGED <<toTx, rx>>

NoMorePackets ==
  /\ tx.pc = "send" /\ tx.len > srcsz
  /\ tx' = [tx EXCEPT !.pc = "eot", !.retry = 0]
  /\ UNCHANGED <<toRx, toTx, faults, rx>>

PacketReply ==
  /\ tx.pc = "reply" /\ Hear
  /\ \E c \in Readings(Head(toTx)) :
       \/ c = ACK /\ tx' = [tx EXCEPT !.pc = "send", !.len = @ + BUFSZ, !.retry = 0]
       \/ c = CAN /\ tx' = [tx EXCEPT !.pc = "canReply"]
       \/ c \notin {ACK, CAN} /\ tx' = Retry
  /\ UNCHANGED <<toRx, faults, rx>>

SendEot ==
  /\ tx.pc = "eot" /\ Tell(<<EOT>>) /\ tx' = [tx EXCEPT !.pc = "ended"]
  /\ UNCHANGED <<toTx, rx>>

EotReply ==
  /\ tx.pc = "ended" /\ Hear
  /\ \E c \in Readings(Head(toTx)) :
       tx' = IF c = ACK THEN [tx EXCEPT !.pc = "done", !.verdict = "end"] ELSE Retry
  /\ UNCHANGED <<toRx, faults, rx>>

(* CAN twice stops the transmitter; once does not.                         *)
CanReply ==
  /\ tx.pc \in {"canSync", "canReply"} /\ Hear
  /\ \E c \in Readings(Head(toTx)) :
       IF c = CAN THEN tx' = [tx EXCEPT !.pc = "done", !.verdict = "cancelled"] /\ Tell(<<ACK>>)
                  ELSE tx' = Retry /\ UNCHANGED <<toRx, faults>>
  /\ UNCHANGED rx

NoReply ==
  /\ Listening /\ toTx = << >> /\ Silence
  /\ tx' = Retry
  /\ UNCHANGED <<toRx, toTx, faults, rx>>

(* Only an end that is not acknowledged is given up without a word.        *)
GiveUp ==
  /\ tx.pc = "giveUp" /\ tx' = [tx EXCEPT !.pc = "done", !.verdict = "failed"]
  /\ IF tx.len > srcsz THEN UNCHANGED <<toRx, faults>> ELSE Tell(<<CAN, CAN, CAN>>)
  /\ UNCHANGED <<toTx, rx>>

Transmit ==
  \/ FirstSign \/ SendPacket \/ NoMorePackets \/ PacketReply \/ SendEot \/ EotReply
  \/ CanReply \/ NoReply \/ GiveUp

-----------------------------------------------------------------------------

Init ==
  /\ rx = [pc |-> "try", then |-> "try", retry |-> 0, retrans |-> MAXRETRANS,
           trychar |-> Cee, crc |-> FALSE, xbuff |-> << >>, packetno |-> 1,
           wpos |-> 0, file |-> << >>, status |-> "receiving"]
  /\ tx = [pc |-> "idle", retry |-> 0, crc |-> FALSE, len |-> 0, verdict |-> "sending"]
  /\ toRx = << >> /\ toTx = << >> /\ faults = 0

Next == Receive \/ Start \/ Transmit

Spec == Init /\ [][Next]_vars

(* Both programs run on; the user need not start the transmitter.          *)
FairSpec == Spec /\ WF_vars(Receive) /\ WF_vars(Transmit)

-----------------------------------------------------------------------------

Outcomes == {"end", "cancelled", "sync", "retry"}

(* Every variable keeps to its range; the counters of attempts stop at     *)
(* their limits, and a packet fits xbuff (xmodem.c 91, 101, 139, 161).     *)
TypeOK ==
  /\ rx.pc \in {"try", "wait", "can", "body", "check", "flush", "done"}
  /\ rx.then \in Outcomes \cup {"try", "reject"} /\ rx.status \in Outcomes \cup {"receiving"}
  /\ rx.retry \in 0 .. TRIES /\ rx.retrans \in 0 .. MAXRETRANS
  /\ rx.trychar \in {Cee, NAK, None} /\ rx.crc \in BOOLEAN
  /\ Len(rx.xbuff) <= 1 + BodyLen(STX, TRUE)
  /\ rx.packetno \in Numbers /\ rx.wpos \in 0 .. (LastPacket + 1) * BUFSZ
  /\ tx \in [pc : {"idle", "sync", "send", "reply", "eot", "ended", "canSync", "canReply",
                   "giveUp", "done"},
             retry : 0 .. TRIES + MAXRETRANS + EOTTRIES, crc : BOOLEAN,
             len : 0 .. (LastPacket + 1) * BUFSZ,
             verdict : {"sending", "end", "cancelled", "failed"}]
  /\ faults \in 0 .. Faults

(* The announced bytes of the file, as the pieces they are written in.     *)
Source ==
  [i \in 1 .. (fsize + BUFSZ - 1) \div BUFSZ |->
     <<i - 1, IF i * BUFSZ > fsize THEN fsize - (i - 1) * BUFSZ ELSE BUFSZ>>]

Transfer ==
  INSTANCE FileTransfer WITH file <- rx.file, status <- rx.status, clean <- faults = 0

(* Whatever the line loses or garbles, however often packets are repeated  *)
(* and answers come late: the file written is at every moment a beginning  *)
(* of the file sent, and on a clean line no error means all of it          *)
(* (xmodem.c 100-174).                                                     *)
Implements == Transfer!Spec

(* On a clean line a transmitter that was told the end has been            *)
(* acknowledged is right, although every acknowledgement of a repeated     *)
(* packet is taken for one of the next (xmodem.c 161-169, 269-303).        *)
SenderRight ==
  tx.verdict = "end" /\ rx.status # "receiving" /\ faults = 0 => rx.status = "end"

(* Both sides come to an end, each by its own timeouts and attempts if the *)
(* other falls silent (xmodem.c 101-132, 161, 214-239, 269-304).           *)
Ends == <>(rx.pc = "done" /\ tx.pc \in {"idle", "done"})

(* The packet before the one expected, whole, is accepted once more, as    *)
(* the second test of the number is there for (xmodem.c 145).              *)
RepeatsAccepted ==
  [][rx.pc = "check" /\ Whole((rx.packetno + BYTE - 1) % BYTE) => rx'.then # "reject"]_vars

=============================================================================
