--------------------------- MODULE Xmodem_proofs ----------------------------
(***************************************************************************)
(* The transfer over XMODEM, for every number of attempts, retransmissions *)
(* and faults and every file whose packet numbers do not wrap: types; on a *)
(* line that has lost nothing, that a transmitter told of the end is       *)
(* right; and that receiver and line implement FileTransfer.               *)
(*                                                                         *)
(* Whatever the line does, data reach the receiver behind the number of    *)
(* their packet or behind none that fits: a fault strikes a byte or loses  *)
(* it, and neither gives the data another number (Numbered).  On a clean   *)
(* line more can be said (CleanInv): it carries whole packets, then some   *)
(* EOT or CAN; their numbers climb by at most one; no packet is on it so   *)
(* often that the receiver's retransmissions would run out; and while the  *)
(* receiver has accepted nothing, no ACK is on its way.                    *)
(***************************************************************************)
EXTENDS Xmodem, TLAPS, SequenceTheorems


Symbol == {"byte", "junk", "data", "sum", "crc_high", "crc_low"} \X Nat

LEMMA ConcatIs ==
  ASSUME NEW T, NEW s \in Seq(T), NEW t \in Seq(T), NEW m, NEW n, Len(s) = m, Len(t) = n
  PROVE  /\ s \o t \in Seq(T) /\ Len(s \o t) = m + n
         /\ \A i \in 1 .. m : (s \o t)[i] = s[i]
         /\ \A i \in 1 .. n : (s \o t)[m + i] = t[i]
         /\ \A i \in m + 1 .. m + n : (s \o t)[i] = t[i - m]
<1>1. m \in Nat /\ n \in Nat
  BY LenProperties
<1>2. PICK u : u = s \o t
  OBVIOUS
<1>3. /\ u \in Seq(T) /\ Len(u) = m + n
      /\ \A i \in 1 .. m + n : u[i] = IF i <= m THEN s[i] ELSE t[i - m]
  BY <1>2, ConcatProperties, Zenon
<1>4. ASSUME NEW i \in 1 .. n
      PROVE  u[m + i] = t[i]
  <2>1. m + i \in 1 .. m + n /\ ~(m + i <= m) /\ m + i - m = i
    BY <1>1
  <2> QED BY <1>3, <2>1
<1> QED BY <1>1, <1>2, <1>3, <1>4

LEMMA SymbolsConcat ==
  ASSUME NEW s, NEW t, NEW m, NEW n,
         s \in Seq(Symbol), t \in Seq(Symbol), Len(s) = m, Len(t) = n
  PROVE  /\ s \o t \in Seq(Symbol) /\ Len(s \o t) = m + n
         /\ \A i \in 1 .. m : (s \o t)[i] = s[i]
         /\ \A i \in 1 .. n : (s \o t)[m + i] = t[i]
         /\ \A i \in m + 1 .. m + n : (s \o t)[i] = t[i - m]
  BY ConcatIs

LEMMA ByteSymbol == \A v \in Nat : Byte(v) \in Symbol
  BY DEF Byte, Symbol

LEMMA SameByte == \A v, w : Byte(v) = Byte(w) <=> v = w
  BY DEF Byte

LEMMA SymbolNotNone == \A s : s \in Symbol => s # None
  BY DEF Symbol, None

LEMMA Controls == {SOH, STX, EOT, ACK, NAK, CAN, Cee, Junk} \subseteq Symbol
  BY DEF Symbol, Byte, SOH, STX, EOT, ACK, NAK, CAN, Cee, Junk

LEMMA NotByte ==
  /\ \A v : Junk # Byte(v)
  /\ \A i : <<"data", i>> # Junk /\ \A v : <<"data", i>> # Byte(v)
  BY DEF Byte, Junk

LEMMA PacketSymbols ==
  ASSUME NEW i \in Nat
  PROVE  /\ SOH \in Symbol /\ <<"data", i>> \in Symbol
         /\ <<"crc_high", i>> \in Symbol /\ <<"sum", i>> \in Symbol /\ <<"crc_low", i>> \in Symbol
  BY Controls DEF Symbol

LEMMA Sizes ==
  /\ BYTE \in Nat /\ BYTE > 1 /\ Faults \in Nat /\ srcsz \in Nat /\ fsize \in Nat
  /\ TRIES \in Nat /\ TRIES > 0 /\ MAXRETRANS \in Nat /\ MAXRETRANS > 0
  /\ EOTTRIES \in Nat /\ EOTTRIES > 0
  /\ BUFSZ = 128 /\ LastPacket \in Nat
  /\ LastPacket * 128 <= srcsz /\ srcsz < (LastPacket + 1) * 128
<1>1. /\ BYTE \in Nat /\ BYTE > 1 /\ Faults \in Nat /\ srcsz \in Nat /\ fsize \in Nat
      /\ TRIES \in Nat /\ TRIES > 0 /\ MAXRETRANS \in Nat /\ MAXRETRANS > 0
      /\ EOTTRIES \in Nat /\ EOTTRIES > 0
  BY XmodemAssumption
<1>2. BUFSZ = 128
  BY DEF BUFSZ
<1>3. PICK l : l = LastPacket /\ l = srcsz \div 128
  BY <1>2 DEF LastPacket
<1>4. l \in Nat /\ l * 128 <= srcsz /\ srcsz < (l + 1) * 128
  BY <1>1, <1>3
<1> QED BY <1>1, <1>2, <1>3, <1>4

(* The symbols of a packet.                                                *)
Width(c) == IF c THEN 6 ELSE 5
Field(i, c) ==
  [p \in 1 .. Width(c) |->
     IF p = 1 THEN SOH
     ELSE IF p = 2 THEN Byte((i + 1) % BYTE)
     ELSE IF p = 3 THEN Byte(BYTE - 1 - ((i + 1) % BYTE))
     ELSE IF p = 4 THEN <<"data", i>>
     ELSE IF p = 5 THEN (IF c THEN <<"crc_high", i>> ELSE <<"sum", i>>)
     ELSE <<"crc_low", i>>]

LEMMA NumberByte ==
  ASSUME NEW i \in Nat
  PROVE  (i + 1) % BYTE \in 0 .. BYTE - 1 /\ BYTE - 1 - ((i + 1) % BYTE) \in Nat
<1>1. PICK n : n = (i + 1) % BYTE
  OBVIOUS
<1>2. n \in 0 .. BYTE - 1
  BY <1>1, Sizes
<1>3. BYTE - 1 - n \in Nat
  BY <1>2, Sizes
<1> QED BY <1>1, <1>2, <1>3

LEMMA FieldSymbol ==
  ASSUME NEW i \in Nat, NEW c \in BOOLEAN, NEW p \in 1 .. Width(c)
  PROVE  Field(i, c)[p] \in Symbol
<1>1. PICK x, y \in Nat : x = (i + 1) % BYTE /\ y = BYTE - 1 - ((i + 1) % BYTE)
  BY NumberByte
<1>2. Byte(x) \in Symbol /\ Byte(y) \in Symbol
  BY ByteSymbol
<1> QED BY <1>1, <1>2, PacketSymbols DEF Field

LEMMA PacketIs ==
  ASSUME NEW i \in Nat, NEW c \in BOOLEAN
  PROVE  /\ Packet(i, c) \in Seq(Symbol) /\ Len(Packet(i, c)) = Width(c)
         /\ \A p \in 1 .. Width(c) : Packet(i, c)[p] = Field(i, c)[p]
<1>1. PICK x, y \in Symbol : /\ x = Byte((i + 1) % BYTE)
                             /\ y = Byte(BYTE - 1 - ((i + 1) % BYTE))
  BY NumberByte, ByteSymbol
<1>2. /\ SOH \in Symbol /\ <<"data", i>> \in Symbol
      /\ <<"crc_high", i>> \in Symbol /\ <<"sum", i>> \in Symbol /\ <<"crc_low", i>> \in Symbol
  BY PacketSymbols
<1>3. Packet(i, c) = <<SOH, x, y, <<"data", i>>>> \o Checksum(i, c)
  BY <1>1 DEF Packet
<1>4. PICK h : h = <<SOH, x, y, <<"data", i>>>>
  OBVIOUS
<1>5. /\ h \in Seq(Symbol) /\ Len(h) = 4
      /\ h[1] = SOH /\ h[2] = x /\ h[3] = y /\ h[4] = <<"data", i>>
  BY <1>2, <1>4
<1>6. PICK k : k = Checksum(i, c)
  OBVIOUS
<1>7. CASE c
  <2>1. k = <<<<"crc_high", i>>, <<"crc_low", i>>>>
    BY <1>6, <1>7 DEF Checksum
  <2>2. k \in Seq(Symbol) /\ Len(k) = 2 /\ k[1] = <<"crc_high", i>> /\ k[2] = <<"crc_low", i>>
    BY <1>2, <2>1
  <2>3. PICK u : u = h \o k
    OBVIOUS
  <2>4. /\ u \in Seq(Symbol) /\ Len(u) = 6 /\ \A p \in 1 .. 4 : u[p] = h[p]
        /\ \A p \in 1 .. 2 : u[4 + p] = k[p]
    <3>1. PICK m, l \in Nat : m = 4 /\ l = 2
      OBVIOUS
    <3>2. /\ h \o k \in Seq(Symbol) /\ Len(h \o k) = m + l
          /\ \A p \in 1 .. m : (h \o k)[p] = h[p]
          /\ \A p \in 1 .. l : (h \o k)[m + p] = k[p]
      <4>1. h \in Seq(Symbol) /\ k \in Seq(Symbol) /\ Len(h) = m /\ Len(k) = l
        BY <1>5, <2>2, <3>1
      <4> QED BY <4>1, SymbolsConcat
    <3> QED BY <2>3, <3>1, <3>2
  <2>5. u[1] = h[1] /\ u[2] = h[2] /\ u[3] = h[3] /\ u[4] = h[4] /\ u[5] = k[1] /\ u[6] = k[2]
    <3>1. u[4 + 1] = k[1] /\ u[4 + 2] = k[2]
      BY <2>4
    <3> QED BY <2>4, <3>1
  <2>6. Width(c) = 6
    BY <1>7 DEF Width
  <2>7. \A p \in 1 .. 6 : u[p] = Field(i, c)[p]
    <3> TAKE p \in 1 .. 6
    <3>1. Field(i, c)[p] = IF p = 1 THEN SOH ELSE IF p = 2 THEN x ELSE IF p = 3 THEN y
                           ELSE IF p = 4 THEN <<"data", i>>
                           ELSE IF p = 5 THEN (IF c THEN <<"crc_high", i>> ELSE <<"sum", i>>)
                           ELSE <<"crc_low", i>>
      BY <1>1, <2>6 DEF Field
    <3>2. p = 1 \/ p = 2 \/ p = 3 \/ p = 4 \/ p = 5 \/ p = 6
      OBVIOUS
    <3> QED BY <1>5, <1>7, <2>2, <2>5, <3>1, <3>2
  <2>8. Packet(i, c) = u
    BY <1>3, <1>4, <1>6, <2>3
  <2> QED BY <2>4, <2>6, <2>7, <2>8
<1>8. CASE ~c
  <2>1. k = <<<<"sum", i>>>>
    BY <1>6, <1>8 DEF Checksum
  <2>2. k \in Seq(Symbol) /\ Len(k) = 1 /\ k[1] = <<"sum", i>>
    BY <1>2, <2>1
  <2>3. PICK u : u = h \o k
    OBVIOUS
  <2>4. /\ u \in Seq(Symbol) /\ Len(u) = 5 /\ \A p \in 1 .. 4 : u[p] = h[p]
        /\ \A p \in 1 .. 1 : u[4 + p] = k[p]
    <3>1. PICK m, l \in Nat : m = 4 /\ l = 1
      OBVIOUS
    <3>2. /\ h \o k \in Seq(Symbol) /\ Len(h \o k) = m + l
          /\ \A p \in 1 .. m : (h \o k)[p] = h[p]
          /\ \A p \in 1 .. l : (h \o k)[m + p] = k[p]
      <4>1. h \in Seq(Symbol) /\ k \in Seq(Symbol) /\ Len(h) = m /\ Len(k) = l
        BY <1>5, <2>2, <3>1
      <4> QED BY <4>1, SymbolsConcat
    <3> QED BY <2>3, <3>1, <3>2
  <2>5. u[1] = h[1] /\ u[2] = h[2] /\ u[3] = h[3] /\ u[4] = h[4] /\ u[5] = k[1]
    <3>1. u[4 + 1] = k[1]
      BY <2>4
    <3> QED BY <2>4, <3>1
  <2>6. Width(c) = 5
    BY <1>8 DEF Width
  <2>7. \A p \in 1 .. 5 : u[p] = Field(i, c)[p]
    <3> TAKE p \in 1 .. 5
    <3>1. Field(i, c)[p] = IF p = 1 THEN SOH ELSE IF p = 2 THEN x ELSE IF p = 3 THEN y
                           ELSE IF p = 4 THEN <<"data", i>>
                           ELSE IF p = 5 THEN (IF c THEN <<"crc_high", i>> ELSE <<"sum", i>>)
                           ELSE <<"crc_low", i>>
      BY <1>1, <2>6 DEF Field
    <3>2. p = 1 \/ p = 2 \/ p = 3 \/ p = 4 \/ p = 5
      OBVIOUS
    <3> QED BY <1>5, <1>8, <2>2, <2>5, <3>1, <3>2
  <2>8. Packet(i, c) = u
    BY <1>3, <1>4, <1>6, <2>3
  <2> QED BY <2>4, <2>6, <2>7, <2>8
<1> QED BY <1>7, <1>8

(* What arrives of bytes sent: all of them, or one is lost or garbled.     *)
LEMMA ArrivalsAre ==
  ASSUME NEW s \in Seq(Symbol), NEW a \in Arrivals(s)
  PROVE  /\ a.bytes \in Seq(Symbol) /\ a.faults \in 0 .. 1
         /\ a.faults = 0 => a.bytes = s
         /\ \/ a.bytes = s
            \/ \E k \in 1 .. Len(s) :
                 \/ /\ Len(a.bytes) = Len(s)
                    /\ \A j \in 1 .. Len(s) : a.bytes[j] = IF j = k THEN Junk ELSE s[j]
                 \/ /\ Len(a.bytes) = Len(s) - 1
                    /\ \A j \in 1 .. Len(s) - 1 : a.bytes[j] = IF j < k THEN s[j] ELSE s[j + 1]
<1>1. PICK n \in Nat : n = Len(s)
  BY LenProperties
<1>2. DOMAIN s = 1 .. n
  BY <1>1, LenProperties
<1>3. CASE a = [bytes |-> s, faults |-> 0]
  BY <1>3
<1>4. ASSUME NEW k \in 1 .. n, a = [bytes |-> RemoveAt(s, k), faults |-> 1]
      PROVE  /\ a.bytes \in Seq(Symbol) /\ a.faults = 1 /\ Len(a.bytes) = n - 1
             /\ \A j \in 1 .. n - 1 : a.bytes[j] = IF j < k THEN s[j] ELSE s[j + 1]
  <2>1. PICK u, v : u = SubSeq(s, 1, k - 1) /\ v = SubSeq(s, k + 1, n)
    OBVIOUS
  <2>2. \A j \in 1 .. n : s[j] \in Symbol
    BY <1>1, ElementOfSeq
  <2>3. /\ u \in Seq(Symbol) /\ Len(u) = k - 1 /\ \A j \in 1 .. k - 1 : u[j] = s[j]
    <3>1. 1 \in Int /\ k - 1 \in Int /\ \A j \in 1 .. k - 1 : s[j] \in Symbol
      BY <2>2
    <3> QED BY <2>1, <3>1, SubSeqProperties
  <2>4. /\ v \in Seq(Symbol) /\ Len(v) = n - k /\ \A j \in 1 .. n - k : v[j] = s[k + j]
    <3>1. k + 1 \in Int /\ n \in Int /\ \A j \in k + 1 .. n : s[j] \in Symbol
      BY <2>2
    <3> QED BY <2>1, <3>1, SubSeqProperties
  <2>5. a.bytes = u \o v /\ a.faults = 1
    BY <1>1, <1>4, <2>1 DEF RemoveAt
  <2>6. PICK w : w = u \o v
    OBVIOUS
  <2>7. /\ w \in Seq(Symbol) /\ Len(w) = k - 1 + (n - k)
        /\ \A j \in 1 .. k - 1 : w[j] = u[j]
        /\ \A j \in k - 1 + 1 .. k - 1 + (n - k) : w[j] = v[j - (k - 1)]
    <3>1. /\ u \o v \in Seq(Symbol) /\ Len(u \o v) = k - 1 + (n - k)
          /\ \A j \in 1 .. k - 1 : (u \o v)[j] = u[j]
          /\ \A j \in k - 1 + 1 .. k - 1 + (n - k) : (u \o v)[j] = v[j - (k - 1)]
      <4>1. u \in Seq(Symbol) /\ v \in Seq(Symbol) /\ Len(u) = k - 1 /\ Len(v) = n - k
        BY <2>3, <2>4
      <4>2. PICK p, q : p = k - 1 /\ q = n - k
        OBVIOUS
      <4>3. /\ u \o v \in Seq(Symbol) /\ Len(u \o v) = p + q
            /\ \A j \in 1 .. p : (u \o v)[j] = u[j]
            /\ \A j \in p + 1 .. p + q : (u \o v)[j] = v[j - p]
        <5>1. Len(u) = p /\ Len(v) = q
          BY <4>1, <4>2
        <5> QED BY <4>1, <5>1, SymbolsConcat
      <4> QED BY <4>2, <4>3, Zenon
    <3> QED BY <2>6, <3>1
  <2>8. \A j \in 1 .. n - 1 : w[j] = IF j < k THEN s[j] ELSE s[j + 1]
    <3> TAKE j \in 1 .. n - 1
    <3>1. CASE j < k
      <4>1. j \in 1 .. k - 1
        BY <3>1
      <4>2. w[j] = u[j] /\ u[j] = s[j]
        BY <2>3, <2>7, <4>1
      <4> QED BY <3>1, <4>2
    <3>2. CASE ~(j < k)
      <4>1. PICK d \in 1 .. n - k : d = j - (k - 1) /\ k + d = j + 1
        BY <3>2
      <4>2. w[j] = v[d]
        <5>1. j \in k - 1 + 1 .. k - 1 + (n - k)
          BY <3>2
        <5> QED BY <2>7, <4>1, <5>1
      <4> QED BY <2>4, <3>2, <4>1, <4>2
    <3> QED BY <3>1, <3>2
  <2>9. Len(w) = n - 1
    BY <2>7
  <2> QED BY <2>5, <2>6, <2>7, <2>8, <2>9
<1>5. ASSUME NEW k \in 1 .. n, a = [bytes |-> ReplaceAt(s, k, Junk), faults |-> 1]
      PROVE  /\ a.bytes \in Seq(Symbol) /\ a.faults = 1 /\ Len(a.bytes) = n
             /\ \A j \in 1 .. n : a.bytes[j] = IF j = k THEN Junk ELSE s[j]
  <2>1. a.bytes = [s EXCEPT ![k] = Junk] /\ a.faults = 1
    BY <1>5 DEF ReplaceAt
  <2>2. Junk \in Symbol
    BY Controls
  <2>3. [s EXCEPT ![k] = Junk] \in Seq(Symbol) /\ Len([s EXCEPT ![k] = Junk]) = n
    BY <1>1, <2>2, ExceptSeq
  <2>4. \A j \in 1 .. n : [s EXCEPT ![k] = Junk][j] = IF j = k THEN Junk ELSE s[j]
    BY <1>2, Zenon
  <2>5. PICK e : e = a.bytes /\ e = [s EXCEPT ![k] = Junk]
    BY <2>1
  <2> QED BY <2>1, <2>3, <2>4, <2>5
<1>6. \/ a = [bytes |-> s, faults |-> 0]
      \/ \E k \in 1 .. n : a = [bytes |-> RemoveAt(s, k), faults |-> 1]
      \/ \E k \in 1 .. n : a = [bytes |-> ReplaceAt(s, k, Junk), faults |-> 1]
  BY <1>2 DEF Arrivals
<1>7. CASE \E k \in 1 .. n : a = [bytes |-> RemoveAt(s, k), faults |-> 1]
  <2>1. PICK k \in 1 .. n : a = [bytes |-> RemoveAt(s, k), faults |-> 1]
    BY <1>7
  <2>2. /\ a.bytes \in Seq(Symbol) /\ a.faults = 1 /\ Len(a.bytes) = n - 1
        /\ \A j \in 1 .. n - 1 : a.bytes[j] = IF j < k THEN s[j] ELSE s[j + 1]
    BY <1>4, <2>1
  <2>3. a.faults \in 0 .. 1 /\ ~(a.faults = 0)
    BY <2>2
  <2>4. \E i \in 1 .. n : /\ Len(a.bytes) = n - 1
                         /\ \A j \in 1 .. n - 1 : a.bytes[j] = IF j < i THEN s[j] ELSE s[j + 1]
    BY <2>2, Zenon
  <2> QED BY <1>1, <2>2, <2>3, <2>4, Zenon
<1>8. CASE \E k \in 1 .. n : a = [bytes |-> ReplaceAt(s, k, Junk), faults |-> 1]
  <2>1. PICK k \in 1 .. n : a = [bytes |-> ReplaceAt(s, k, Junk), faults |-> 1]
    BY <1>8
  <2>2. /\ a.bytes \in Seq(Symbol) /\ a.faults = 1 /\ Len(a.bytes) = n
        /\ \A j \in 1 .. n : a.bytes[j] = IF j = k THEN Junk ELSE s[j]
    BY <1>5, <2>1
  <2>3. a.faults \in 0 .. 1 /\ ~(a.faults = 0)
    BY <2>2
  <2>4. \E i \in 1 .. n : /\ Len(a.bytes) = n
                         /\ \A j \in 1 .. n : a.bytes[j] = IF j = i THEN Junk ELSE s[j]
    BY <2>2, Zenon
  <2>5. \E i \in 1 .. Len(s) :
           /\ Len(a.bytes) = Len(s)
           /\ \A j \in 1 .. Len(s) : a.bytes[j] = IF j = i THEN Junk ELSE s[j]
    BY <1>1, <2>4
  <2> QED BY <2>2, <2>3, <2>5, Zenon
<1> QED BY <1>3, <1>6, <1>7, <1>8

-----------------------------------------------------------------------------
(* Types, and how control and counters belong together.                    *)

RxRec ==
  [pc : {"try", "wait", "can", "body", "check", "flush", "done"},
   then : Outcomes \cup {"try", "reject"}, status : Outcomes \cup {"receiving"},
   retry : 0 .. TRIES, retrans : 0 .. MAXRETRANS,
   trychar : {Cee, NAK, None}, crc : BOOLEAN, xbuff : Seq(Symbol),
   packetno : Numbers, wpos : Nat, file : Seq(Nat \X Int)]

TxRec ==
  [pc : {"idle", "sync", "send", "reply", "eot", "ended", "canSync", "canReply",
         "giveUp", "done"},
   retry : 0 .. TRIES + MAXRETRANS + EOTTRIES, crc : BOOLEAN,
   len : 0 .. (LastPacket + 1) * BUFSZ,
   verdict : {"sending", "end", "cancelled", "failed"}]

RxTidy ==
  /\ rx.pc \in {"wait", "can"} => rx.retry < TRIES
  /\ rx.pc \notin {"flush", "done"} \/ (rx.pc = "flush" /\ rx.then = "reject") => rx.retrans > 0
  /\ IF rx.pc = "flush" THEN rx.then \in Outcomes \cup {"reject"} ELSE rx.then = "try"
  /\ IF rx.pc = "done" THEN rx.status \in Outcomes ELSE rx.status = "receiving"
  /\ IF rx.pc \in {"body", "check"}
       THEN /\ Len(rx.xbuff) > 0 /\ rx.xbuff[1] \in {SOH, STX}
            /\ rx.pc = "body" => Len(rx.xbuff) <= BodyLen(rx.xbuff[1], rx.crc)
            /\ rx.pc = "check" => Len(rx.xbuff) = 1 + BodyLen(rx.xbuff[1], rx.crc)
       ELSE rx.xbuff = << >>

TxTidy ==
  /\ tx.pc \in {"sync", "canSync"} => tx.retry < TRIES
  /\ tx.pc \in {"send", "reply", "canReply"} => tx.retry < MAXRETRANS
  /\ tx.pc \in {"eot", "ended"} => tx.retry < EOTTRIES
  /\ tx.pc = "idle" => tx.retry = 0
  /\ tx.pc # "done" => tx.verdict = "sending"
  /\ tx.verdict = "end" => tx.len > srcsz
  /\ tx.pc \in {"idle", "sync", "canSync"} => tx.len = 0
  /\ tx.pc \in {"reply", "canReply"} => tx.len <= srcsz
  /\ tx.pc \in {"eot", "ended"} => tx.len > srcsz
  /\ \E k \in 0 .. LastPacket + 1 : tx.len = k * 128

LinesOK == toRx \in Seq(Symbol) /\ toTx \in Seq(Symbol) /\ faults \in 0 .. Faults

TypeInv == rx \in RxRec /\ RxTidy /\ tx \in TxRec /\ TxTidy /\ LinesOK

LEMMA BodyLenIs ==
  \A c \in BOOLEAN :
    /\ BodyLen(STX, c) = IF c THEN 6 ELSE 5
    /\ BodyLen(SOH, c) = IF c THEN 5 ELSE 4
  BY DEF BodyLen, SOH, STX, Byte

LEMMA TypeInit == Init => TypeInv
<1> SUFFICES ASSUME Init PROVE TypeInv
  OBVIOUS
<1>1. rx \in RxRec
  <2>1. << >> \in Seq(Symbol) /\ << >> \in Seq(Nat \X Int)
    OBVIOUS
  <2> QED BY <2>1, Sizes DEF Init, RxRec, Outcomes, Numbers
<1>2. RxTidy
  BY Sizes DEF Init, RxTidy, Outcomes
<1>3. tx \in TxRec
  <2>1. 0 \in 0 .. TRIES + MAXRETRANS + EOTTRIES /\ 0 \in 0 .. (LastPacket + 1) * BUFSZ
    BY Sizes
  <2> QED BY <2>1 DEF Init, TxRec
<1>4. TxTidy
  <2>1. 0 \in 0 .. LastPacket + 1 /\ 0 = 0 * 128
    BY Sizes
  <2> QED BY <2>1, Sizes DEF Init, TxTidy
<1>5. << >> \in Seq(Symbol) /\ 0 \in 0 .. Faults
  BY Sizes
<1> QED BY <1>1, <1>2, <1>3, <1>4, <1>5 DEF Init, TypeInv, LinesOK

(* What a line carries.                                                    *)
LEMMA CarryIs ==
  ASSUME NEW line \in Seq(Symbol), NEW line1, NEW s \in Seq(Symbol), faults \in 0 .. Faults,
         Carry(line, line1, s)
  PROVE  /\ line1 \in Seq(Symbol) /\ faults' \in 0 .. Faults /\ faults <= faults'
         /\ \E a \in Arrivals(s) : line1 = line \o a.bytes /\ faults' = faults + a.faults
         /\ faults' = 0 => line1 = line \o s
<1>1. PICK a \in Arrivals(s) : line1 = line \o a.bytes /\ faults' = faults + a.faults
                               /\ faults' <= Faults
  BY DEF Carry
<1>2. a.bytes \in Seq(Symbol) /\ a.faults \in 0 .. 1 /\ (a.faults = 0 => a.bytes = s)
  BY ArrivalsAre
<1>3. line1 \in Seq(Symbol)
  BY <1>1, <1>2, ConcatProperties
<1>4. faults' \in 0 .. Faults /\ faults <= faults' /\ (faults' = 0 => a.faults = 0)
  BY <1>1, <1>2, Sizes
<1> QED BY <1>1, <1>2, <1>3, <1>4

LEMMA GetIs ==
  ASSUME NEW s \in Seq(Symbol), s # << >>
  PROVE  /\ Head(s) \in Symbol /\ Tail(s) \in Seq(Symbol) /\ Len(Tail(s)) = Len(s) - 1
         /\ Head(s) = s[1] /\ \A j \in 1 .. Len(s) - 1 : Tail(s)[j] = s[j + 1]
  BY HeadTailProperties

(* What the receiver and the transmitter say.                              *)
LEMMA Signs ==
  /\ \A s \in Symbol : <<s>> \in Seq(Symbol)
  /\ <<CAN, CAN, CAN>> \in Seq(Symbol) /\ <<ACK>> \in Seq(Symbol) /\ <<NAK>> \in Seq(Symbol)
  /\ <<EOT>> \in Seq(Symbol)
  BY Controls

LEMMA ReadingsAre ==
  \A s : /\ Readings(s) = {s} \/ Readings(s) = {SOH, STX, EOT, ACK, NAK, CAN, Cee, Junk}
         /\ \A v : s = Byte(v) => Readings(s) = {s}
  BY DEF Readings, Byte

LEMMA GetLines ==
  ASSUME LinesOK, Get, UNCHANGED <<toTx, faults>>
  PROVE  LinesOK' /\ Head(toRx) \in Symbol
  BY GetIs DEF LinesOK, Get

LEMMA AnswerLines ==
  ASSUME LinesOK, UNCHANGED toRx, NEW s \in Seq(Symbol), Answer(s)
  PROVE  LinesOK'
<1>1. Carry(toTx, toTx', s)
  BY DEF Answer
<1>2. toTx \in Seq(Symbol) /\ faults \in 0 .. Faults
  BY DEF LinesOK
<1>3. toTx' \in Seq(Symbol) /\ faults' \in 0 .. Faults
  BY <1>1, <1>2, CarryIs
<1> QED BY <1>3 DEF LinesOK

LEMMA TellLines ==
  ASSUME LinesOK, UNCHANGED toTx, NEW s \in Seq(Symbol), Tell(s)
  PROVE  LinesOK'
<1>1. Carry(toRx, toRx', s)
  BY DEF Tell
<1>2. toRx \in Seq(Symbol) /\ faults \in 0 .. Faults
  BY DEF LinesOK
<1>3. toRx' \in Seq(Symbol) /\ faults' \in 0 .. Faults
  BY <1>1, <1>2, CarryIs
<1> QED BY <1>3 DEF LinesOK

(* The records the receiver's steps make.                                  *)
LEMMA AgainOK ==
  ASSUME rx \in RxRec, RxTidy, rx.pc \in {"wait", "can"}, rx' = Again
  PROVE  rx' \in RxRec /\ RxTidy'
<1>1. rx.retry + 1 \in 0 .. TRIES
  BY Sizes DEF RxTidy, RxRec
<1> QED BY <1>1, Sizes DEF RxTidy, RxRec, Again

LEMMA FlushThenOK ==
  ASSUME rx \in RxRec, RxTidy, rx.pc \notin {"flush", "done"},
         NEW w \in Outcomes \cup {"reject"}, rx' = FlushThen(w)
  PROVE  rx' \in RxRec /\ RxTidy'
<1>1. rx' = [rx EXCEPT !.pc = "flush", !.then = w, !.xbuff = << >>] /\ << >> \in Seq(Symbol)
  BY DEF FlushThen
<1>2. w \in Outcomes \cup {"try", "reject"}
  OBVIOUS
<1>3. rx' \in RxRec
  BY <1>1, <1>2 DEF RxRec
<1>4. /\ rx'.pc = "flush" /\ rx'.then = w /\ rx'.xbuff = << >> /\ rx'.status = rx.status
      /\ rx'.retrans = rx.retrans
  BY <1>1 DEF RxRec
<1> QED BY <1>3, <1>4 DEF RxTidy

LEMMA SameRx == rx \in RxRec /\ RxTidy /\ UNCHANGED rx => rx' \in RxRec /\ RxTidy'
  BY DEF RxTidy
LEMMA SameTx == tx \in TxRec /\ TxTidy /\ UNCHANGED tx => tx' \in TxRec /\ TxTidy'
  BY DEF TxTidy
LEMMA SameLines == LinesOK /\ UNCHANGED <<toRx, toTx, faults>> => LinesOK'
  BY DEF LinesOK

LEMMA TypeReceive ==
  ASSUME TypeInv, Receive
  PROVE  rx' \in RxRec /\ RxTidy' /\ LinesOK'
<1> USE DEF TypeInv
<1>1. CASE Try
  <2>1. rx' = [rx EXCEPT !.pc = "wait"] /\ rx.pc = "try" /\ rx.retry < TRIES
    BY <1>1 DEF Try, MoreTries
  <2>2. rx' \in RxRec /\ RxTidy'
    BY <2>1 DEF RxRec, RxTidy
  <2>3. CASE rx.trychar = None
    BY <1>1, <2>2, <2>3, SameLines DEF Try
  <2>4. CASE rx.trychar # None
    <3>1. rx.trychar \in Symbol
      BY <2>4, Controls DEF RxRec
    <3>2. <<rx.trychar>> \in Seq(Symbol) /\ Answer(<<rx.trychar>>) /\ UNCHANGED toRx
      BY <1>1, <2>4, <3>1, Signs DEF Try
    <3> QED BY <2>2, <3>2, AnswerLines
  <2> QED BY <2>3, <2>4
<1>2. CASE NoTriesLeft
  <2>1. rx.pc = "try" /\ LinesOK'
    BY <1>2, SameLines DEF NoTriesLeft
  <2>2. CASE rx.trychar = Cee
    <3>1. rx' = [rx EXCEPT !.trychar = NAK, !.retry = 0] /\ 0 \in 0 .. TRIES
      BY <1>2, <2>2, Sizes DEF NoTriesLeft
    <3> QED BY <2>1, <3>1 DEF RxRec, RxTidy
  <2>3. CASE rx.trychar # Cee
    <3>1. rx' = FlushThen("sync") /\ "sync" \in Outcomes \cup {"reject"}
      BY <1>2, <2>3 DEF NoTriesLeft, Outcomes
    <3> QED BY <2>1, <3>1, FlushThenOK
  <2> QED BY <2>2, <2>3
<1>3. CASE Header
  <2>1. rx.pc = "wait" /\ LinesOK'
    BY <1>3, GetLines DEF Header
  <2>2. PICK c \in Readings(Head(toRx)) :
       \/ /\ c \in {SOH, STX}
          /\ rx' = [rx EXCEPT !.pc = "body", !.crc = @ \/ rx.trychar = Cee,
                              !.trychar = None, !.xbuff = <<c>>]
       \/ c = EOT /\ rx' = FlushThen("end")
       \/ c = CAN /\ rx' = [rx EXCEPT !.pc = "can"]
       \/ c \notin {SOH, STX, EOT, CAN} /\ rx' = Again
    BY <1>3 DEF Header
  <2>3. CASE /\ c \in {SOH, STX}
             /\ rx' = [rx EXCEPT !.pc = "body", !.crc = @ \/ rx.trychar = Cee,
                              !.trychar = None, !.xbuff = <<c>>]
    <3>1. <<c>> \in Seq(Symbol) /\ Len(<<c>>) = 1 /\ <<c>>[1] = c
      BY <2>3, Controls
    <3>2. PICK b \in BOOLEAN : b = (rx.crc \/ rx.trychar = Cee)
      OBVIOUS
    <3>3. rx' = [rx EXCEPT !.pc = "body", !.crc = b, !.trychar = None, !.xbuff = <<c>>]
      BY <2>3, <3>2
    <3>4. BodyLen(c, b) \in Nat /\ 1 <= BodyLen(c, b)
      BY <2>3, BodyLenIs
    <3>5. rx' \in RxRec /\ rx'.pc = "body" /\ rx'.xbuff = <<c>> /\ rx'.crc = b
          /\ rx'.then = rx.then /\ rx'.status = rx.status /\ rx'.retrans = rx.retrans
      BY <3>1, <3>3 DEF RxRec
    <3> QED BY <2>1, <2>3, <3>1, <3>4, <3>5 DEF RxTidy
  <2>4. CASE c = EOT /\ rx' = FlushThen("end")
    <3>1. "end" \in Outcomes \cup {"reject"}
      BY DEF Outcomes
    <3> QED BY <2>1, <2>4, <3>1, FlushThenOK
  <2>5. CASE c = CAN /\ rx' = [rx EXCEPT !.pc = "can"]
    BY <2>1, <2>5 DEF RxRec, RxTidy
  <2>6. CASE rx' = Again
    BY <2>1, <2>6, AgainOK
  <2> QED BY <2>2, <2>3, <2>4, <2>5, <2>6
<1>4. CASE SecondCan
  <2>1. rx.pc = "can" /\ LinesOK'
    BY <1>4, GetLines DEF SecondCan
  <2>2. rx' = FlushThen("cancelled") \/ rx' = Again
    BY <1>4 DEF SecondCan
  <2>3. "cancelled" \in Outcomes \cup {"reject"}
    BY DEF Outcomes
  <2> QED BY <2>1, <2>2, <2>3, FlushThenOK, AgainOK
<1>5. CASE NoHeader
  <2>1. rx.pc \in {"wait", "can"} /\ LinesOK' /\ rx' = Again
    BY <1>5, SameLines DEF NoHeader, WaitsForHeader
  <2> QED BY <2>1, AgainOK
<1>6. CASE BodyByte
  <2>1. rx.pc = "body" /\ LinesOK' /\ Head(toRx) \in Symbol
    BY <1>6, GetLines DEF BodyByte
  <2>2. PICK x \in Seq(Symbol) : x = Append(rx.xbuff, Head(toRx))
    BY <2>1, AppendProperties DEF RxRec
  <2>3. /\ Len(x) = Len(rx.xbuff) + 1 /\ Len(rx.xbuff) \in Nat
        /\ Len(rx.xbuff) > 0 /\ x[1] = rx.xbuff[1]
    BY <2>1, <2>2, AppendProperties DEF RxRec, RxTidy
  <2>4. rx.xbuff[1] \in {SOH, STX} /\ BodyLen(rx.xbuff[1], rx.crc) \in Nat
    BY <2>1, BodyLenIs DEF RxTidy, RxRec
  <2>5. Len(rx.xbuff) <= BodyLen(rx.xbuff[1], rx.crc)
    BY <2>1 DEF RxTidy
  <2>6. PICK p \in {"check", "body"} :
          p = IF Len(rx.xbuff) = BodyLen(rx.xbuff[1], rx.crc) THEN "check" ELSE "body"
    OBVIOUS
  <2>7. rx' = [rx EXCEPT !.xbuff = x, !.pc = p]
    BY <1>6, <2>1, <2>2, <2>6 DEF BodyByte
  <2>8. rx' \in RxRec /\ rx'.pc = p /\ rx'.xbuff = x /\ rx'.crc = rx.crc
        /\ rx'.then = rx.then /\ rx'.status = rx.status /\ rx'.retrans = rx.retrans
    BY <2>2, <2>7 DEF RxRec
  <2> QED BY <2>1, <2>3, <2>4, <2>5, <2>6, <2>8 DEF RxTidy
<1>7. CASE BodyTimeout
  <2>1. rx.pc = "body" /\ LinesOK' /\ rx' = FlushThen("reject")
    BY <1>7, SameLines DEF BodyTimeout
  <2> QED BY <2>1, FlushThenOK
<1>8. CASE Accept
  <2>1. rx.pc = "check" /\ UNCHANGED toRx /\ rx.retrans > 0
    BY <1>8 DEF Accept, RxTidy
  <2>2. PICK w \in Int : w = IF rx.wpos + BUFSZ > fsize THEN fsize - rx.wpos ELSE BUFSZ
    BY Sizes DEF RxRec
  <2>3. PICK f : f = IF w = 0 THEN rx.file ELSE Append(rx.file, <<rx.xbuff[4][2], w>>)
    OBVIOUS
  <2>4. f \in Seq(Nat \X Int)
    <3>1. Len(rx.xbuff) >= 4
      BY <2>1, BodyLenIs DEF RxTidy, RxRec
    <3>2. rx.xbuff[4] \in Symbol
      BY <3>1 DEF RxRec
    <3>3. <<rx.xbuff[4][2], w>> \in Nat \X Int
      BY <3>2 DEF Symbol
    <3> QED BY <2>3, <3>3, AppendProperties DEF RxRec
  <2>5. PICK r : r = [rx EXCEPT !.file = f, !.wpos = @ + BUFSZ, !.packetno = NextNo(@),
                                !.retrans = Restored, !.xbuff = << >>]
    OBVIOUS
  <2>6. Acknowledge(r)
    BY <1>8, <2>2, <2>3, <2>5 DEF Accept
  <2>7. NextNo(rx.packetno) \in Numbers
    BY Sizes DEF NextNo, Numbers, RxRec
  <2>8. rx.wpos + BUFSZ \in Nat /\ Restored \in 0 .. MAXRETRANS /\ Restored > 0
    BY Sizes DEF RxRec, Restored
  <2>9. r \in RxRec /\ r.retrans > 0 /\ r.then = rx.then /\ r.status = rx.status /\ r.xbuff = << >>
    <3>1. PICK y \in Nat, no \in Numbers, m \in 0 .. MAXRETRANS :
            y = rx.wpos + BUFSZ /\ no = NextNo(rx.packetno) /\ m = Restored /\ m > 0
      BY <2>7, <2>8
    <3>2. r = [rx EXCEPT !.file = f, !.wpos = y, !.packetno = no, !.retrans = m, !.xbuff = << >>]
      BY <2>5, <3>1
    <3>3. << >> \in Seq(Symbol)
      OBVIOUS
    <3> QED BY <2>4, <3>1, <3>2, <3>3 DEF RxRec
  <2>10. rx' = [r EXCEPT !.pc = "try", !.retry = 0] /\ Answer(<<ACK>>)
    <3>1. r.retrans \in Nat /\ ~(r.retrans <= 0)
      BY <2>9, Sizes DEF RxRec
    <3> QED BY <2>6, <3>1 DEF Acknowledge
  <2>11. LinesOK'
    BY <2>1, <2>10, AnswerLines, Signs
  <2>12. rx' \in RxRec
    <3>1. 0 \in 0 .. TRIES
      BY Sizes
    <3> QED BY <2>9, <2>10, <3>1 DEF RxRec
  <2>13. /\ rx'.pc = "try" /\ rx'.retrans > 0 /\ rx'.then = rx.then /\ rx'.status = rx.status
         /\ rx'.xbuff = << >>
    BY <2>9, <2>10 DEF RxRec
  <2> QED BY <2>1, <2>11, <2>12, <2>13 DEF RxTidy
<1>9. CASE Repeat
  <2>1. rx.pc = "check" /\ UNCHANGED toRx /\ rx.retrans > 0
    BY <1>9 DEF Repeat, RxTidy
  <2>2. PICK m \in 0 .. MAXRETRANS : m = rx.retrans - 1
    BY <2>1, Sizes DEF RxRec
  <2>3. PICK r : r = [rx EXCEPT !.retrans = m, !.xbuff = << >>]
    OBVIOUS
  <2>4. Acknowledge(r)
    BY <1>9, <2>2, <2>3 DEF Repeat
  <2>5. r \in RxRec /\ r.retrans = m /\ r.then = rx.then /\ r.status = rx.status /\ r.xbuff = << >>
    <3>1. << >> \in Seq(Symbol)
      OBVIOUS
    <3> QED BY <2>3, <3>1 DEF RxRec
  <2>6. CASE m <= 0
    <3>1. rx' = [r EXCEPT !.pc = "flush", !.then = "retry"] /\ UNCHANGED <<toTx, faults>>
      BY <2>4, <2>5, <2>6 DEF Acknowledge
    <3>2. rx' \in RxRec /\ rx'.pc = "flush" /\ rx'.then = "retry" /\ rx'.status = rx.status
          /\ rx'.xbuff = << >>
      BY <2>5, <3>1 DEF RxRec, Outcomes
    <3> QED BY <2>1, <3>1, <3>2, SameLines DEF RxTidy, Outcomes
  <2>7. CASE ~(m <= 0)
    <3>1. rx' = [r EXCEPT !.pc = "try", !.retry = 0] /\ Answer(<<ACK>>)
      BY <2>4, <2>5, <2>7 DEF Acknowledge
    <3>2. LinesOK'
      BY <2>1, <3>1, AnswerLines, Signs
    <3>3. rx' \in RxRec
      <4>1. 0 \in 0 .. TRIES
        BY Sizes
      <4> QED BY <2>5, <3>1, <4>1 DEF RxRec
    <3>4. /\ rx'.pc = "try" /\ rx'.retrans = m /\ rx'.then = rx.then /\ rx'.status = rx.status
          /\ rx'.xbuff = << >>
      BY <2>5, <3>1 DEF RxRec
    <3> QED BY <2>1, <2>7, <3>2, <3>3, <3>4 DEF RxTidy
  <2> QED BY <2>6, <2>7
<1>10. CASE Reject
  <2>1. rx.pc = "check" /\ LinesOK' /\ rx' = FlushThen("reject")
    BY <1>10, SameLines DEF Reject
  <2> QED BY <2>1, FlushThenOK
<1>11. CASE Flush
  <2>1. UNCHANGED rx /\ toRx' = << >> /\ UNCHANGED <<toTx, faults>>
    BY <1>11 DEF Flush
  <2> QED BY <2>1, SameRx DEF LinesOK
<1>12. CASE Flushed
  <2>1. rx.pc = "flush" /\ UNCHANGED toRx
    BY <1>12 DEF Flushed
  <2>2. CASE rx.then = "reject"
    <3>1. rx' = [rx EXCEPT !.pc = "try", !.then = "try", !.retry = 0] /\ Answer(<<NAK>>)
      BY <1>12, <2>2 DEF Flushed
    <3>2. LinesOK'
      BY <2>1, <3>1, AnswerLines, Signs
    <3>3. rx' \in RxRec
      <4>1. 0 \in 0 .. TRIES
        BY Sizes
      <4> QED BY <3>1, <4>1 DEF RxRec
    <3>4. /\ rx'.pc = "try" /\ rx'.then = "try" /\ rx'.status = rx.status /\ rx'.xbuff = rx.xbuff
          /\ rx'.retrans = rx.retrans
      BY <3>1 DEF RxRec
    <3> QED BY <2>1, <2>2, <3>2, <3>3, <3>4 DEF RxTidy
  <2>3. CASE rx.then # "reject"
    <3>1. /\ rx' = [rx EXCEPT !.pc = "done", !.then = "try", !.status = rx.then]
          /\ Answer(IF rx.then \in {"end", "cancelled"} THEN <<ACK>> ELSE <<CAN, CAN, CAN>>)
      BY <1>12, <2>3 DEF Flushed
    <3>2. LinesOK'
      BY <2>1, <3>1, AnswerLines, Signs
    <3>3. rx.then \in Outcomes
      BY <2>1, <2>3 DEF RxTidy
    <3> QED BY <2>1, <3>1, <3>2, <3>3 DEF RxRec, RxTidy
  <2> QED BY <2>2, <2>3
<1> QED BY <1>1, <1>2, <1>3, <1>4, <1>5, <1>6, <1>7, <1>8, <1>9, <1>10, <1>11, <1>12 DEF Receive

(* One attempt more of the transmitter: which, and when it is the last.    *)
LEMMA RetryIs ==
  ASSUME tx \in TxRec, TxTidy, Listening, tx' = Retry
  PROVE  /\ tx' \in TxRec /\ TxTidy'
         /\ tx'.len = tx.len /\ tx'.crc = tx.crc /\ tx'.verdict = tx.verdict
         /\ tx'.retry = tx.retry + 1
         /\ \/ tx.pc \in {"sync", "canSync"} /\ tx'.pc = "sync" /\ tx.retry + 1 < TRIES
            \/ tx.pc \in {"reply", "canReply"} /\ tx'.pc = "send" /\ tx.retry + 1 < MAXRETRANS
            \/ tx.pc = "ended" /\ tx'.pc = "eot" /\ tx.retry + 1 < EOTTRIES
            \/ tx'.pc = "giveUp"
<1>1. tx.pc \in {"sync", "reply", "ended", "canSync", "canReply"}
  BY DEF Listening
<1>2. /\ tx.retry \in Nat
      /\ tx.pc \in {"sync", "canSync"} => tx.retry < TRIES
      /\ tx.pc \in {"reply", "canReply"} => tx.retry < MAXRETRANS
      /\ tx.pc = "ended" => tx.retry < EOTTRIES
  BY Sizes DEF TxRec, TxTidy
<1>3. tx.retry + 1 \in 0 .. TRIES + MAXRETRANS + EOTTRIES
  BY <1>1, <1>2, Sizes
<1>4. PICK p : tx' = [tx EXCEPT !.retry = @ + 1, !.pc = p] /\
        \/ tx.pc \in {"sync", "canSync"} /\ p = "sync" /\ tx.retry + 1 < TRIES
        \/ tx.pc \in {"reply", "canReply"} /\ p = "send" /\ tx.retry + 1 < MAXRETRANS
        \/ tx.pc = "ended" /\ p = "eot" /\ tx.retry + 1 < EOTTRIES
        \/ p = "giveUp"
  <2>1. CASE tx.pc \in {"sync", "canSync"}
    BY <2>1 DEF Retry
  <2>2. CASE tx.pc \in {"reply", "canReply"}
    BY <2>2 DEF Retry
  <2>3. CASE tx.pc = "ended"
    BY <2>3 DEF Retry
  <2> QED BY <1>1, <2>1, <2>2, <2>3
<1>5. tx' \in TxRec
  BY <1>3, <1>4 DEF TxRec
<1>6. /\ tx'.len = tx.len /\ tx'.crc = tx.crc /\ tx'.verdict = tx.verdict
      /\ tx'.retry = tx.retry + 1 /\ tx'.pc = p
  BY <1>4 DEF TxRec
<1>7. TxTidy'
  <2>1. \E k \in 0 .. LastPacket + 1 : tx'.len = k * 128
    BY <1>6 DEF TxTidy
  <2> QED BY <1>1, <1>4, <1>6, <2>1 DEF TxTidy
<1> QED BY <1>4, <1>5, <1>6, <1>7

LEMMA Chunks ==
  ASSUME tx \in TxRec, TxTidy
  PROVE  /\ tx.len \in Nat
         /\ \E k \in 0 .. LastPacket + 1 :
              tx.len = k * 128 /\ tx.len \div BUFSZ = k /\ (tx.len <= srcsz <=> k <= LastPacket)
<1>1. PICK k \in 0 .. LastPacket + 1 : tx.len = k * 128
  BY DEF TxTidy
<1>2. k \in Nat /\ LastPacket \in Nat
  BY Sizes
<1>3. (k * 128) \div 128 = k
  BY <1>2
<1>4. k * 128 <= srcsz <=> k <= LastPacket
  BY <1>2, Sizes
<1> QED BY <1>1, <1>2, <1>3, <1>4, Sizes

LEMMA PacketSeq ==
  ASSUME tx \in TxRec, TxTidy
  PROVE  Packet(tx.len \div BUFSZ, tx.crc) \in Seq(Symbol)
<1>1. PICK k \in Nat : tx.len \div BUFSZ = k
  BY Chunks, Sizes
<1>2. tx.crc \in BOOLEAN
  BY DEF TxRec
<1> QED BY <1>1, <1>2, PacketIs

LEMMA TypeTransmit ==
  ASSUME TypeInv, Start \/ Transmit
  PROVE  tx' \in TxRec /\ TxTidy' /\ LinesOK'
<1> USE DEF TypeInv
<1>1. CASE Start
  <2>1. tx.pc = "idle" /\ tx' = [tx EXCEPT !.pc = "sync"] /\ LinesOK'
    BY <1>1, SameLines DEF Start
  <2> QED BY <2>1, Sizes DEF TxRec, TxTidy
<1>2. CASE FirstSign
  <2>1. tx.pc = "sync" /\ LinesOK'
    BY <1>2, GetIs DEF FirstSign, Hear, LinesOK
  <2>2. PICK c \in Readings(Head(toTx)) :
       \/ c \in {Cee, NAK} /\ tx' = [tx EXCEPT !.pc = "send", !.retry = 0, !.crc = c = Cee]
       \/ c = CAN /\ tx' = [tx EXCEPT !.pc = "canSync"]
       \/ c \notin {Cee, NAK, CAN} /\ tx' = Retry
    BY <1>2 DEF FirstSign
  <2>3. CASE tx' = [tx EXCEPT !.pc = "send", !.retry = 0, !.crc = c = Cee]
    <3>1. PICK b \in BOOLEAN : b = (c = Cee)
      OBVIOUS
    <3>2. tx' = [tx EXCEPT !.pc = "send", !.retry = 0, !.crc = b]
      BY <2>3, <3>1
    <3>3. 0 \in 0 .. TRIES + MAXRETRANS + EOTTRIES /\ 0 < MAXRETRANS
      BY Sizes
    <3> QED BY <2>1, <3>2, <3>3 DEF TxRec, TxTidy
  <2>4. CASE tx' = [tx EXCEPT !.pc = "canSync"]
    BY <2>1, <2>4 DEF TxRec, TxTidy
  <2>5. CASE tx' = Retry
    BY <2>1, <2>5, RetryIs DEF Listening
  <2> QED BY <2>1, <2>2, <2>3, <2>4, <2>5
<1>3. CASE SendPacket
  <2>1. tx.pc = "send" /\ tx.len <= srcsz /\ tx' = [tx EXCEPT !.pc = "reply"]
        /\ Tell(Packet(tx.len \div BUFSZ, tx.crc)) /\ UNCHANGED toTx
    BY <1>3 DEF SendPacket
  <2>2. LinesOK'
    BY <2>1, PacketSeq, TellLines
  <2> QED BY <2>1, <2>2 DEF TxRec, TxTidy
<1>4. CASE NoMorePackets
  <2>1. tx.pc = "send" /\ tx.len > srcsz /\ tx' = [tx EXCEPT !.pc = "eot", !.retry = 0] /\ LinesOK'
    BY <1>4, SameLines DEF NoMorePackets
  <2>2. 0 \in 0 .. TRIES + MAXRETRANS + EOTTRIES /\ 0 < EOTTRIES
    BY Sizes
  <2> QED BY <2>1, <2>2 DEF TxRec, TxTidy
<1>5. CASE PacketReply
  <2>1. tx.pc = "reply" /\ LinesOK'
    BY <1>5, GetIs DEF PacketReply, Hear, LinesOK
  <2>2. PICK c \in Readings(Head(toTx)) :
       \/ c = ACK /\ tx' = [tx EXCEPT !.pc = "send", !.len = @ + BUFSZ, !.retry = 0]
       \/ c = CAN /\ tx' = [tx EXCEPT !.pc = "canReply"]
       \/ c \notin {ACK, CAN} /\ tx' = Retry
    BY <1>5 DEF PacketReply
  <2>3. CASE tx' = [tx EXCEPT !.pc = "send", !.len = @ + BUFSZ, !.retry = 0]
    <3>1. PICK k \in 0 .. LastPacket + 1 : tx.len = k * 128 /\ (tx.len <= srcsz <=> k <= LastPacket)
      BY Chunks
    <3>2. k <= LastPacket
      BY <2>1, <3>1 DEF TxTidy
    <3>3. PICK l \in 0 .. (LastPacket + 1) * BUFSZ : l = tx.len + BUFSZ /\ l = (k + 1) * 128
      BY <3>1, <3>2, Sizes
    <3>4. k + 1 \in 0 .. LastPacket + 1
      BY <3>1, <3>2, Sizes
    <3>5. tx' = [tx EXCEPT !.pc = "send", !.len = l, !.retry = 0]
      BY <2>3, <3>3
    <3>6. 0 \in 0 .. TRIES + MAXRETRANS + EOTTRIES /\ 0 < MAXRETRANS
      BY Sizes
    <3>7. tx' \in TxRec /\ tx'.pc = "send" /\ tx'.len = l /\ tx'.retry = 0 /\ tx'.verdict = tx.verdict
      BY <3>5, <3>6 DEF TxRec
    <3>8. \E j \in 0 .. LastPacket + 1 : tx'.len = j * 128
      BY <3>3, <3>4, <3>7
    <3> QED BY <2>1, <3>6, <3>7, <3>8 DEF TxTidy
  <2>4. CASE tx' = [tx EXCEPT !.pc = "canReply"]
    BY <2>1, <2>4 DEF TxRec, TxTidy
  <2>5. CASE tx' = Retry
    BY <2>1, <2>5, RetryIs DEF Listening
  <2> QED BY <2>1, <2>2, <2>3, <2>4, <2>5
<1>6. CASE SendEot
  <2>1. tx.pc = "eot" /\ tx' = [tx EXCEPT !.pc = "ended"] /\ Tell(<<EOT>>) /\ UNCHANGED toTx
    BY <1>6 DEF SendEot
  <2>2. LinesOK'
    BY <2>1, Signs, TellLines
  <2> QED BY <2>1, <2>2 DEF TxRec, TxTidy
<1>7. CASE EotReply
  <2>1. tx.pc = "ended" /\ LinesOK'
    BY <1>7, GetIs DEF EotReply, Hear, LinesOK
  <2>2. tx' = [tx EXCEPT !.pc = "done", !.verdict = "end"] \/ tx' = Retry
    BY <1>7 DEF EotReply
  <2>3. CASE tx' = [tx EXCEPT !.pc = "done", !.verdict = "end"]
    BY <2>1, <2>3 DEF TxRec, TxTidy
  <2> QED BY <2>1, <2>2, <2>3, RetryIs DEF Listening
<1>8. CASE CanReply
  <2>1. tx.pc \in {"canSync", "canReply"} /\ toTx # << >> /\ toTx' = Tail(toTx)
    BY <1>8 DEF CanReply, Hear
  <2>2. toTx' \in Seq(Symbol)
    BY <2>1, GetIs DEF LinesOK
  <2>3. \/ tx' = [tx EXCEPT !.pc = "done", !.verdict = "cancelled"] /\ Tell(<<ACK>>)
        \/ tx' = Retry /\ UNCHANGED <<toRx, faults>>
    BY <1>8 DEF CanReply
  <2>4. CASE tx' = [tx EXCEPT !.pc = "done", !.verdict = "cancelled"] /\ Tell(<<ACK>>)
    <3>1. Carry(toRx, toRx', <<ACK>>) /\ toRx \in Seq(Symbol) /\ faults \in 0 .. Faults
      BY <2>4 DEF Tell, LinesOK
    <3>2. toRx' \in Seq(Symbol) /\ faults' \in 0 .. Faults
      BY <3>1, CarryIs, Signs
    <3> QED BY <2>1, <2>2, <2>4, <3>2 DEF TxRec, TxTidy, LinesOK
  <2>5. CASE tx' = Retry /\ UNCHANGED <<toRx, faults>>
    <3>1. LinesOK'
      BY <2>2, <2>5 DEF LinesOK
    <3> QED BY <2>1, <2>5, <3>1, RetryIs DEF Listening
  <2> QED BY <2>3, <2>4, <2>5
<1>9. CASE NoReply
  BY <1>9, RetryIs, SameLines DEF NoReply
<1>10. CASE GiveUp
  <2>1. tx.pc = "giveUp" /\ tx' = [tx EXCEPT !.pc = "done", !.verdict = "failed"] /\ UNCHANGED toTx
        /\ (UNCHANGED <<toRx, faults>> \/ Tell(<<CAN, CAN, CAN>>))
    BY <1>10 DEF GiveUp
  <2>2. LinesOK'
    BY <2>1, Signs, TellLines, SameLines
  <2> QED BY <2>1, <2>2 DEF TxRec, TxTidy
<1> QED BY <1>1, <1>2, <1>3, <1>4, <1>5, <1>6, <1>7, <1>8, <1>9, <1>10 DEF Transmit

LEMMA RxLeavesTx == Receive => UNCHANGED tx
  BY DEF Receive, Try, NoTriesLeft, Header, SecondCan, NoHeader, BodyByte, BodyTimeout,
         Accept, Repeat, Reject, Flush, Flushed

LEMMA TxLeavesRx == Start \/ Transmit => UNCHANGED rx
  BY DEF Start, Transmit, FirstSign, SendPacket, NoMorePackets, PacketReply, SendEot,
         EotReply, CanReply, NoReply, GiveUp

LEMMA TypeStep == TypeInv /\ [Next]_vars => TypeInv'
<1> SUFFICES ASSUME TypeInv, [Next]_vars PROVE TypeInv'
  OBVIOUS
<1>1. CASE Receive
  BY <1>1, TypeReceive, RxLeavesTx, SameTx DEF TypeInv
<1>2. CASE Start \/ Transmit
  BY <1>2, TypeTransmit, TxLeavesRx, SameRx DEF TypeInv
<1>3. CASE UNCHANGED vars
  BY <1>3, SameRx, SameTx, SameLines DEF vars, TypeInv
<1> QED BY <1>1, <1>2, <1>3 DEF Next

-----------------------------------------------------------------------------
(* The packet accepted is the packet its number says.                      *)

(* The packets' numbers neither wrap nor can be mistaken for the header    *)
(* when one of the two number bytes is lost.                               *)
Short == LastPacket + 3 < BYTE

(* What follows the header read, or the next one to be read.               *)
Rest == IF rx.pc \in {"body", "check"} THEN Tail(rx.xbuff) \o toRx ELSE toRx

Matches(x, y, z) ==
  \A i \in 0 .. LastPacket, n \in Numbers :
    z = <<"data", i>> /\ x = Byte(n) /\ y = Byte(BYTE - 1 - n) => n = i + 1

Numbered(S) == \A p \in 3 .. Len(S) : Matches(S[p - 2], S[p - 1], S[p])

NumberedTail(T) ==
  \A p \in 1 .. Len(T) :
    IF p < 3 THEN \A i \in 0 .. LastPacket : T[p] # <<"data", i>>
             ELSE Matches(T[p - 2], T[p - 1], T[p])

LEMMA NumberedConcat ==
  ASSUME NEW S \in Seq(Symbol), NEW T \in Seq(Symbol), Numbered(S), NumberedTail(T)
  PROVE  Numbered(S \o T)
<1>1. PICK m, n \in Nat : m = Len(S) /\ n = Len(T)
  OBVIOUS
<1>2. PICK U \in Seq(Symbol) : U = S \o T
  BY ConcatProperties
<1>3. /\ Len(U) = m + n /\ \A p \in 1 .. m : U[p] = S[p]
      /\ \A p \in m + 1 .. m + n : U[p] = T[p - m]
  BY <1>1, <1>2, ConcatIs
<1>4. ASSUME NEW p \in 3 .. m + n
      PROVE  Matches(U[p - 2], U[p - 1], U[p])
  <2>1. CASE p <= m
    <3>1. U[p] = S[p] /\ U[p - 1] = S[p - 1] /\ U[p - 2] = S[p - 2] /\ p \in 3 .. Len(S)
      BY <1>1, <1>3, <2>1
    <3> QED BY <3>1 DEF Numbered
  <2>2. CASE p > m
    <3>1. PICK q \in 1 .. n : q = p - m
      BY <2>2
    <3>2. U[p] = T[q] /\ q \in 1 .. Len(T)
      BY <1>1, <1>3, <2>2, <3>1
    <3>3. CASE q < 3
      <4>1. \A i \in 0 .. LastPacket : U[p] # <<"data", i>>
        BY <3>2, <3>3 DEF NumberedTail
      <4> QED BY <4>1 DEF Matches
    <3>4. CASE ~(q < 3)
      <4>1. p - 1 \in m + 1 .. m + n /\ p - 2 \in m + 1 .. m + n
            /\ p - 1 - m = q - 1 /\ p - 2 - m = q - 2
        BY <2>2, <3>1, <3>4
      <4>2. U[p - 1] = T[q - 1] /\ U[p - 2] = T[q - 2]
        BY <1>3, <4>1
      <4> QED BY <3>2, <3>4, <4>2 DEF NumberedTail
    <3> QED BY <3>3, <3>4
  <2> QED BY <2>1, <2>2
<1> QED BY <1>2, <1>3, <1>4 DEF Numbered

LEMMA NumberedRest ==
  ASSUME NEW S \in Seq(Symbol), NEW T \in Seq(Symbol), NEW m \in Nat, Len(S) = Len(T) + m,
         \A p \in 1 .. Len(T) : T[p] = S[p + m], Numbered(S)
  PROVE  Numbered(T)
<1>1. PICK n \in Nat : n = Len(T)
  OBVIOUS
<1>2. ASSUME NEW p \in 3 .. n
      PROVE  Matches(T[p - 2], T[p - 1], T[p])
  <2>1. T[p] = S[p + m] /\ T[p - 1] = S[p - 1 + m] /\ T[p - 2] = S[p - 2 + m]
    <3>1. p \in 1 .. Len(T) /\ p - 1 \in 1 .. Len(T) /\ p - 2 \in 1 .. Len(T)
      BY <1>1
    <3> QED BY <3>1
  <2>2. p + m \in 3 .. Len(S) /\ p - 1 + m = p + m - 1 /\ p - 2 + m = p + m - 2
    BY <1>1
  <2> QED BY <2>1, <2>2 DEF Numbered
<1> QED BY <1>1, <1>2 DEF Numbered

LEMMA NoData ==
  ASSUME NEW i
  PROVE  /\ <<"data", i>> \notin {SOH, STX, EOT, ACK, NAK, CAN, Cee, Junk}
         /\ \A v : <<"data", i>> # Byte(v)
         /\ \A v : /\ <<"data", i>> # <<"crc_high", v>> /\ <<"data", i>> # <<"crc_low", v>>
                   /\ <<"data", i>> # <<"sum", v>>
                   /\ <<"data", i>> = <<"data", v>> => i = v
  BY DEF SOH, STX, EOT, ACK, NAK, CAN, Cee, Junk, Byte

(* One fault in a packet does not give its data another number.            *)
LEMMA PacketArrives ==
  ASSUME Short, NEW i \in 0 .. LastPacket, NEW c \in BOOLEAN, NEW a \in Arrivals(Packet(i, c))
  PROVE  NumberedTail(a.bytes)
<1>1. PICK T : T = a.bytes
  OBVIOUS
<1>2. PICK w \in {5, 6} : w = Width(c)
  BY DEF Width
<1>3. i \in Nat /\ i + 3 < BYTE /\ BYTE \in Nat
  BY Sizes DEF Short
<1>4. (i + 1) % BYTE = i + 1
  BY <1>3
<1>5. PICK s \in Seq(Symbol) : /\ s = Packet(i, c) /\ Len(s) = w
                               /\ \A p \in 1 .. w : s[p] = Field(i, c)[p]
  BY <1>2, <1>3, PacketIs
<1>6. /\ s[1] = Byte(1) /\ s[2] = Byte(i + 1) /\ s[3] = Byte(BYTE - 1 - (i + 1))
      /\ s[4] = <<"data", i>>
      /\ \A p \in 5 .. w : \A j : s[p] # <<"data", j>>
  <2>1. \A p \in 1 .. w : s[p] = Field(i, c)[p]
    BY <1>5
  <2>2. /\ Field(i, c)[1] = Byte(1) /\ Field(i, c)[2] = Byte(i + 1)
        /\ Field(i, c)[3] = Byte(BYTE - 1 - (i + 1)) /\ Field(i, c)[4] = <<"data", i>>
        /\ \A p \in 5 .. w : \A j : Field(i, c)[p] # <<"data", j>>
    BY <1>2, <1>4, NoData DEF Field, SOH
  <2> QED BY <1>2, <2>1, <2>2
<1>7. \A j \in 0 .. LastPacket : <<"data", i>> = <<"data", j>> => i = j
  BY NoData
<1>8. /\ \A p \in 1 .. 3 : \A j : s[p] # <<"data", j>>
      /\ \A j : Junk # <<"data", j>> /\ \A v : Junk # Byte(v)
  <2>1. \A j : Junk # <<"data", j>> /\ \A v : <<"data", j>> # Byte(v) /\ Junk # Byte(v)
    BY NoData, NotByte
  <2>2. \A p \in 1 .. 3 : \E v : s[p] = Byte(v)
    <3> TAKE p \in 1 .. 3
    <3>1. p = 1 \/ p = 2 \/ p = 3
      OBVIOUS
    <3> QED BY <1>6, <3>1
  <2> QED BY <2>1, <2>2
<1>9. \A j \in 0 .. LastPacket, n \in Numbers : j \in Nat /\ n \in Nat
  BY Sizes DEF Numbers
<1>10. \A v, v1 : Byte(v) = Byte(v1) => v = v1
  BY SameByte
<1>11. CASE T = s
  <2>1. \A p \in 1 .. w : IF p < 3 THEN \A j \in 0 .. LastPacket : T[p] # <<"data", j>>
                                   ELSE Matches(T[p - 2], T[p - 1], T[p])
    <3> TAKE p \in 1 .. w
    <3>1. CASE p < 4
      BY <1>8, <1>11, <3>1 DEF Matches
    <3>2. CASE p = 4
      <4>1. T[4] = <<"data", i>> /\ T[2] = Byte(i + 1) /\ T[p - 2] = T[2] /\ T[p] = T[4]
        BY <1>6, <1>11, <3>2
      <4>2. Matches(T[p - 2], T[p - 1], T[p])
        BY <4>1, <1>7, <1>10 DEF Matches
      <4> QED BY <3>2, <4>2
    <3>3. CASE p > 4
      BY <1>6, <1>11, <3>3 DEF Matches
    <3> QED BY <3>1, <3>2, <3>3
  <2> QED BY <1>1, <1>5, <1>11, <2>1 DEF NumberedTail
<1>12. ASSUME NEW k \in 1 .. w, T \in Seq(Symbol), Len(T) = w,
              \A j \in 1 .. w : T[j] = IF j = k THEN Junk ELSE s[j]
       PROVE  NumberedTail(T)
  <2>1. \A p \in 1 .. w : IF p < 3 THEN \A j \in 0 .. LastPacket : T[p] # <<"data", j>>
                                   ELSE Matches(T[p - 2], T[p - 1], T[p])
    <3> TAKE p \in 1 .. w
    <3>1. CASE p < 4
      <4>1. (T[p] = Junk \/ T[p] = s[p]) /\ p \in 1 .. 3
        BY <1>12, <3>1
      <4> QED BY <1>8, <3>1, <4>1 DEF Matches
    <3>2. CASE p = 4
      <4>1. T[4] \in {<<"data", i>>, Junk} /\ T[2] \in {Byte(i + 1), Junk}
            /\ T[p - 2] = T[2] /\ T[p] = T[4]
        <5>1. 4 \in 1 .. w /\ 2 \in 1 .. w
          BY <1>2
        <5>2. (T[4] = Junk \/ T[4] = s[4]) /\ (T[2] = Junk \/ T[2] = s[2])
          BY <1>12, <5>1
        <5>3. T[p - 2] = T[2] /\ T[p] = T[4]
          BY <3>2
        <5>4. T[4] \in {<<"data", i>>, Junk} /\ T[2] \in {Byte(i + 1), Junk}
          BY <1>6, <5>2
        <5> QED BY <5>3, <5>4
      <4>2. Matches(T[p - 2], T[p - 1], T[p])
        BY <4>1, <1>7, <1>8, <1>10 DEF Matches
      <4> QED BY <3>2, <4>2
    <3>3. CASE p > 4
      <4>1. (T[p] = Junk \/ T[p] = s[p]) /\ p \in 5 .. w
        BY <1>12, <3>3
      <4> QED BY <1>6, <1>8, <3>3, <4>1 DEF Matches
    <3> QED BY <3>1, <3>2, <3>3
  <2> QED BY <1>12, <2>1 DEF NumberedTail
<1>13. ASSUME NEW k \in 1 .. w, T \in Seq(Symbol), Len(T) = w - 1,
              \A j \in 1 .. w - 1 : T[j] = IF j < k THEN s[j] ELSE s[j + 1]
       PROVE  NumberedTail(T)
  <2>1. \A p \in 1 .. w - 1 : IF p < 3 THEN \A j \in 0 .. LastPacket : T[p] # <<"data", j>>
                                       ELSE Matches(T[p - 2], T[p - 1], T[p])
    <3> TAKE p \in 1 .. w - 1
    <3>1. CASE p < 3
      <4>1. T[p] = s[p] \/ T[p] = s[p + 1]
        BY <1>13
      <4>2. p \in 1 .. 3 /\ p + 1 \in 1 .. 3
        BY <3>1
      <4> QED BY <1>8, <3>1, <4>1, <4>2
    <3>2. CASE p = 3 /\ k > 3
      <4>1. T[p] = s[3]
        BY <1>13, <3>2
      <4> QED BY <1>8, <3>2, <4>1 DEF Matches
    <3>3. CASE p = 3 /\ k <= 3
      <4>1. /\ T[3] = s[4] /\ T[1] = IF k = 1 THEN s[2] ELSE s[1]
            /\ T[2] = IF k = 3 THEN s[2] ELSE s[3]
        BY <1>2, <1>13, <3>3
      <4>2. /\ T[p] = <<"data", i>> /\ T[p - 2] = T[1] /\ T[p - 1] = T[2]
            /\ T[1] = IF k = 1 THEN Byte(i + 1) ELSE Byte(1)
            /\ T[2] = IF k = 3 THEN Byte(i + 1) ELSE Byte(BYTE - 1 - (i + 1))
        BY <1>6, <3>3, <4>1
      <4>3. ASSUME NEW n \in Numbers, T[1] = Byte(n), T[2] = Byte(BYTE - 1 - n)
            PROVE  n = i + 1
        <5>1. n = IF k = 1 THEN i + 1 ELSE 1
          BY <1>10, <4>2, <4>3
        <5>2. BYTE - 1 - n = IF k = 3 THEN i + 1 ELSE BYTE - 1 - (i + 1)
          BY <1>10, <4>2, <4>3
        <5> QED BY <1>3, <1>9, <5>1, <5>2
      <4>4. Matches(T[p - 2], T[p - 1], T[p])
        BY <1>7, <4>2, <4>3 DEF Matches
      <4> QED BY <3>3, <4>4
    <3>4. CASE p > 3 /\ k > p
      <4>1. T[p] = s[p] /\ T[p - 1] = s[p - 1] /\ T[p - 2] = s[p - 2]
        BY <1>13, <3>4
      <4>2. CASE p = 4
        <5>1. T[p] = <<"data", i>> /\ T[p - 2] = Byte(i + 1)
          BY <1>6, <4>1, <4>2
        <5>2. Matches(T[p - 2], T[p - 1], T[p])
          BY <1>7, <1>10, <5>1 DEF Matches
        <5> QED BY <4>2, <5>2
      <4>3. CASE p # 4
        <5>1. p \in 5 .. w
          BY <3>4, <4>3
        <5> QED BY <1>6, <3>4, <4>1, <5>1 DEF Matches
      <4> QED BY <4>2, <4>3
    <3>5. CASE p > 3 /\ k <= p
      <4>1. T[p] = s[p + 1] /\ p + 1 \in 5 .. w
        BY <1>13, <3>5
      <4> QED BY <1>6, <3>5, <4>1 DEF Matches
    <3> QED BY <3>1, <3>2, <3>3, <3>4, <3>5
  <2> QED BY <1>13, <2>1 DEF NumberedTail
<1>14. a \in Arrivals(s)
  BY <1>5
<1>15. T \in Seq(Symbol)
  BY <1>1, <1>14, ArrivalsAre
<1>16. \/ T = s
       \/ \E k \in 1 .. w :
            \/ Len(T) = w /\ \A j \in 1 .. w : T[j] = IF j = k THEN Junk ELSE s[j]
            \/ Len(T) = w - 1 /\ \A j \in 1 .. w - 1 : T[j] = IF j < k THEN s[j] ELSE s[j + 1]
  <2>1. \/ a.bytes = s
        \/ \E k \in 1 .. Len(s) :
             \/ /\ Len(a.bytes) = Len(s)
                /\ \A j \in 1 .. Len(s) : a.bytes[j] = IF j = k THEN Junk ELSE s[j]
             \/ /\ Len(a.bytes) = Len(s) - 1
                /\ \A j \in 1 .. Len(s) - 1 : a.bytes[j] = IF j < k THEN s[j] ELSE s[j + 1]
    BY <1>14, ArrivalsAre
  <2>2. Len(s) = w
    BY <1>5
  <2>3. \/ T = s
        \/ \E k \in 1 .. w :
             \/ /\ Len(T) = w
                /\ \A j \in 1 .. w : T[j] = IF j = k THEN Junk ELSE s[j]
             \/ /\ Len(T) = w - 1
                /\ \A j \in 1 .. w - 1 : T[j] = IF j < k THEN s[j] ELSE s[j + 1]
    BY <1>1, <2>1, <2>2, Zenon
  <2> QED BY <2>3, Zenon
<1> QED BY <1>1, <1>11, <1>12, <1>13, <1>15, <1>16

Placed == rx.packetno \in 1 .. LastPacket + 2 /\ rx.wpos = (rx.packetno - 1) * 128

OrderInv == Placed /\ Numbered(Rest)

LEMMA RestSeq ==
  ASSUME TypeInv
  PROVE  Rest \in Seq(Symbol) /\ (rx.pc \in {"body", "check"} => Tail(rx.xbuff) \in Seq(Symbol))
<1>1. rx.pc \in {"body", "check"} => rx.xbuff # << >> /\ rx.xbuff \in Seq(Symbol)
  BY DEF TypeInv, RxRec, RxTidy
<1>2. rx.pc \in {"body", "check"} => Tail(rx.xbuff) \in Seq(Symbol)
  BY <1>1, HeadTailProperties
<1>3. toRx \in Seq(Symbol)
  BY DEF TypeInv, LinesOK
<1> QED BY <1>2, <1>3, ConcatProperties DEF Rest

(* A whole packet of the number wanted holds the data of that number.      *)
LEMMA WholeIs ==
  ASSUME TypeInv, Numbered(Rest), rx.pc = "check", NEW no \in Numbers, Whole(no)
  PROVE  no - 1 \in 0 .. LastPacket /\ rx.xbuff[4] = <<"data", no - 1>>
<1>1. PICK n \in Nat : n = Len(rx.xbuff) /\ n >= 5
  <2>1. /\ rx.xbuff[1] \in {SOH, STX} /\ rx.crc \in BOOLEAN /\ rx.xbuff \in Seq(Symbol)
        /\ Len(rx.xbuff) = 1 + BodyLen(rx.xbuff[1], rx.crc)
    BY DEF TypeInv, RxTidy, RxRec
  <2>2. BodyLen(rx.xbuff[1], rx.crc) \in {4, 5, 6}
    BY <2>1, BodyLenIs
  <2> QED BY <2>1, <2>2
<1>2. PICK x \in Seq(Symbol) : x = rx.xbuff /\ Len(x) = n /\ x # << >>
  BY <1>1 DEF TypeInv, RxRec
<1>3. PICK i \in 0 .. LastPacket : SubSeq(x, 4, n) = <<<<"data", i>>>> \o Checksum(i, rx.crc)
  BY <1>1, <1>2 DEF Whole, Checks
<1>4. x[4] = <<"data", i>>
  <2>1. PICK y : y = SubSeq(x, 4, n)
    OBVIOUS
  <2>2. y[1] = x[4]
    BY <1>1, <1>2, <2>1
  <2>3. PICK z : z = Checksum(i, rx.crc) /\ z \in Seq(Symbol)
    <3>1. i \in Nat
      BY Sizes
    <3>2. <<"crc_high", i>> \in Symbol /\ <<"sum", i>> \in Symbol /\ <<"crc_low", i>> \in Symbol
      BY <3>1, PacketSymbols
    <3>3. <<<<"crc_high", i>>, <<"crc_low", i>>>> \in Seq(Symbol) /\ <<<<"sum", i>>>> \in Seq(Symbol)
      BY <3>2
    <3> QED BY <3>3 DEF Checksum
  <2>4. (<<<<"data", i>>>> \o z)[1] = <<"data", i>>
    <3>1. <<"data", i>> \in Symbol
      <4>1. i \in Nat
        BY Sizes
      <4> QED BY <4>1, PacketSymbols
    <3> QED BY <2>3, <3>1
  <2> QED BY <1>3, <2>1, <2>2, <2>3, <2>4
<1>5. x[2] = Byte(no) /\ x[3] = Byte(BYTE - 1 - no)
  BY <1>2 DEF Whole, WholeUnchecked
<1>6. PICK t \in Seq(Symbol) : t = Tail(x) /\ Len(t) = n - 1 /\ \A j \in 1 .. n - 1 : t[j] = x[j + 1]
  BY <1>2, GetIs
<1>7. Rest = t \o toRx /\ toRx \in Seq(Symbol)
  BY <1>2, <1>6 DEF Rest, TypeInv, LinesOK
<1>8. PICK m \in Nat : m = Len(toRx)
  BY <1>7
<1>9. Len(Rest) = n - 1 + m /\ \A j \in 1 .. n - 1 : Rest[j] = t[j]
  BY <1>6, <1>7, <1>8, ConcatIs
<1>10. Rest[1] = x[2] /\ Rest[2] = x[3] /\ Rest[3] = x[4]
  <2>1. t[1] = x[2] /\ t[2] = x[3] /\ t[3] = x[4]
    BY <1>1, <1>6
  <2>2. 1 \in 1 .. n - 1 /\ 2 \in 1 .. n - 1 /\ 3 \in 1 .. n - 1
    BY <1>1
  <2> QED BY <1>9, <2>1, <2>2
<1>11. 3 \in 3 .. Len(Rest)
  BY <1>1, <1>8, <1>9
<1>12. Matches(Rest[1], Rest[2], Rest[3])
  <2>1. Matches(Rest[3 - 2], Rest[3 - 1], Rest[3])
    BY <1>11 DEF Numbered
  <2> QED BY <2>1
<1>13. no = i + 1
  BY <1>4, <1>5, <1>10, <1>12 DEF Matches
<1> QED BY <1>2, <1>4, <1>13, Sizes

LEMMA AcceptIs ==
  ASSUME TypeInv, OrderInv, Short, Accept
  PROVE  /\ rx.packetno - 1 \in 0 .. LastPacket /\ rx.wpos = (rx.packetno - 1) * 128
         /\ \E w \in Int :
              /\ w = IF rx.wpos + 128 > fsize THEN fsize - rx.wpos ELSE 128
              /\ rx'.file = IF w = 0 THEN rx.file ELSE Append(rx.file, <<rx.packetno - 1, w>>)
         /\ rx'.packetno = rx.packetno + 1 /\ rx'.wpos = rx.packetno * 128
         /\ rx'.pc = "try" /\ rx'.retry = 0 /\ rx'.retrans = MAXRETRANS
         /\ rx'.status = rx.status /\ rx'.trychar = rx.trychar /\ rx'.crc = rx.crc
         /\ rx'.then = rx.then /\ rx'.xbuff = << >> /\ Answer(<<ACK>>) /\ UNCHANGED toRx
<1>1. rx.pc = "check" /\ UNCHANGED toRx /\ rx.packetno \in Numbers /\ Whole(rx.packetno)
  BY DEF Accept, Expected
<1>2. rx.packetno - 1 \in 0 .. LastPacket /\ rx.xbuff[4] = <<"data", rx.packetno - 1>>
  BY <1>1, WholeIs DEF OrderInv
<1>3. rx.packetno \in Nat /\ rx.wpos = (rx.packetno - 1) * 128
  BY Sizes DEF OrderInv, Placed
<1>4. PICK w \in Int : w = IF rx.wpos + 128 > fsize THEN fsize - rx.wpos ELSE 128
  BY <1>3, Sizes
<1>5. PICK f : f = IF w = 0 THEN rx.file ELSE Append(rx.file, <<rx.packetno - 1, w>>)
  OBVIOUS
<1>6. NextNo(rx.packetno) = rx.packetno + 1
  BY <1>2, <1>3, Sizes DEF NextNo, Short
<1>7. PICK r : r = [rx EXCEPT !.file = f, !.wpos = @ + BUFSZ, !.packetno = NextNo(@),
                              !.retrans = Restored, !.xbuff = << >>]
  OBVIOUS
<1>8. rx.xbuff[4][2] = rx.packetno - 1
  BY <1>2
<1>9. Acknowledge(r)
  BY <1>4, <1>5, <1>7, <1>8, Sizes DEF Accept
<1>10. rx \in RxRec
  BY DEF TypeInv
<1>11. /\ r.file = f /\ r.wpos = rx.wpos + BUFSZ /\ r.packetno = NextNo(rx.packetno)
       /\ r.retrans = MAXRETRANS /\ r.xbuff = << >> /\ r.status = rx.status
       /\ r.trychar = rx.trychar /\ r.crc = rx.crc /\ r.then = rx.then
       /\ DOMAIN r = DOMAIN rx
  BY <1>7, <1>10 DEF RxRec, Restored
<1>12. ~(r.retrans <= 0)
  BY <1>11, Sizes
<1>13. rx' = [r EXCEPT !.pc = "try", !.retry = 0] /\ Answer(<<ACK>>)
  BY <1>9, <1>12 DEF Acknowledge
<1>14. /\ rx'.file = f /\ rx'.wpos = rx.wpos + BUFSZ /\ rx'.packetno = NextNo(rx.packetno)
       /\ rx'.retrans = MAXRETRANS /\ rx'.xbuff = << >> /\ rx'.status = rx.status
       /\ rx'.trychar = rx.trychar /\ rx'.crc = rx.crc /\ rx'.then = rx.then
       /\ rx'.pc = "try" /\ rx'.retry = 0
  BY <1>10, <1>11, <1>13 DEF RxRec
<1>15. rx.wpos + BUFSZ = rx.packetno * 128
  BY <1>3, Sizes
<1> QED BY <1>1, <1>2, <1>3, <1>4, <1>5, <1>6, <1>13, <1>14, <1>15

(* What no other step changes.                                             *)
LEMMA KeepsPlace ==
  ASSUME TypeInv, Receive, ~Accept
  PROVE  rx'.packetno = rx.packetno /\ rx'.wpos = rx.wpos /\ rx'.file = rx.file
<1>1. rx \in RxRec
  BY DEF TypeInv
<1>2. CASE Try \/ NoTriesLeft \/ SecondCan \/ NoHeader
  BY <1>1, <1>2 DEF Try, NoTriesLeft, SecondCan, NoHeader, Again, FlushThen, RxRec
<1>3. CASE Header
  BY <1>1, <1>3 DEF Header, Again, FlushThen, RxRec
<1>4. CASE BodyByte \/ BodyTimeout \/ Reject \/ Flush
  BY <1>1, <1>4 DEF BodyByte, BodyTimeout, Reject, Flush, FlushThen, RxRec
<1>5. CASE Repeat
  BY <1>1, <1>5 DEF Repeat, Acknowledge, RxRec
<1>6. CASE Flushed
  BY <1>1, <1>6 DEF Flushed, RxRec
<1> QED BY <1>2, <1>3, <1>4, <1>5, <1>6 DEF Receive

LEMMA MoveOne ==
  ASSUME NEW x \in Seq(Symbol), x # << >>, NEW t \in Seq(Symbol), t # << >>
  PROVE  Tail(Append(x, Head(t))) \o Tail(t) = Tail(x) \o t
<1>1. PICK y \in Seq(Symbol) : y = Tail(x)
  BY HeadTailProperties
<1>2. PICK h \in Symbol : h = Head(t)
  BY HeadTailProperties
<1>3. Tail(Append(x, h)) = Append(y, h)
  BY <1>1, <1>2
<1>4. Append(y, Head(t)) \o Tail(t) = y \o t
  BY <1>1
<1> QED BY <1>1, <1>2, <1>3, <1>4

LEMMA BodyByteIs ==
  ASSUME TypeInv, BodyByte
  PROVE  /\ rx.pc = "body" /\ toRx # << >> /\ toRx' = Tail(toRx) /\ UNCHANGED <<toTx, faults>>
         /\ rx'.pc = IF Len(rx.xbuff) = BodyLen(rx.xbuff[1], rx.crc) THEN "check" ELSE "body"
         /\ rx'.xbuff = Append(rx.xbuff, Head(toRx))
         /\ rx'.then = rx.then /\ rx'.retry = rx.retry /\ rx'.retrans = rx.retrans
         /\ rx'.trychar = rx.trychar /\ rx'.crc = rx.crc /\ rx'.packetno = rx.packetno
         /\ rx'.status = rx.status /\ rx'.file = rx.file /\ rx'.wpos = rx.wpos
  BY DEF BodyByte, Get, TypeInv, RxRec

LEMMA SuffixNumbered ==
  ASSUME TypeInv, Numbered(Rest)
  PROVE  /\ Numbered(toRx) /\ Numbered(<< >>)
         /\ toRx # << >> => Numbered(Tail(toRx))
<1>1. toRx \in Seq(Symbol)
  BY DEF TypeInv, LinesOK
<1>2. Numbered(toRx)
  <2>1. CASE rx.pc \in {"body", "check"}
    <3>1. PICK t \in Seq(Symbol) : t = Tail(rx.xbuff) /\ Rest = t \o toRx
      BY <2>1, RestSeq DEF Rest
    <3>2. PICK m, n \in Nat : m = Len(t) /\ n = Len(toRx)
      BY <1>1
    <3>3. /\ Len(Rest) = n + m /\ \A j \in 1 .. n : toRx[j] = Rest[j + m]
      <4>1. Len(t \o toRx) = m + n /\ \A j \in 1 .. n : (t \o toRx)[m + j] = toRx[j]
        BY <1>1, <3>2, ConcatIs
      <4>2. \A j \in 1 .. n : m + j = j + m
        OBVIOUS
      <4> QED BY <3>1, <3>2, <4>1, <4>2
    <3> QED BY <1>1, <3>2, <3>3, RestSeq, NumberedRest
  <2>2. CASE rx.pc \notin {"body", "check"}
    BY <2>2 DEF Rest
  <2> QED BY <2>1, <2>2
<1>3. ASSUME toRx # << >>
      PROVE  Numbered(Tail(toRx))
  <2>1. PICK t \in Seq(Symbol) : /\ t = Tail(toRx) /\ Len(toRx) = Len(t) + 1
                                 /\ \A j \in 1 .. Len(t) : t[j] = toRx[j + 1]
    <3>1. PICK n \in Nat : n = Len(toRx)
      BY <1>1
    <3>2. /\ Tail(toRx) \in Seq(Symbol) /\ Len(Tail(toRx)) = n - 1
          /\ \A j \in 1 .. n - 1 : Tail(toRx)[j] = toRx[j + 1]
      BY <1>1, <1>3, <3>1, GetIs
    <3>3. Len(Tail(toRx)) \in Nat /\ Len(toRx) = Len(Tail(toRx)) + 1
      BY <3>1, <3>2
    <3> QED BY <3>1, <3>2, <3>3
  <2> QED BY <1>1, <1>2, <2>1, NumberedRest
<1>4. Numbered(<< >>)
  BY DEF Numbered
<1> QED BY <1>2, <1>3, <1>4

LEMMA NumberedReceive ==
  ASSUME TypeInv, Numbered(Rest), Receive
  PROVE  Numbered(Rest')
<1> USE SuffixNumbered
<1>0. rx \in RxRec
  BY DEF TypeInv
<1>1. CASE Try
  <2>1. rx.pc = "try" /\ rx'.pc = "wait" /\ UNCHANGED toRx
    BY <1>0, <1>1 DEF Try, RxRec
  <2> QED BY <2>1 DEF Rest
<1>2. CASE NoTriesLeft
  <2>1. rx.pc = "try" /\ rx'.pc \in {"try", "flush"} /\ UNCHANGED toRx
    BY <1>0, <1>2 DEF NoTriesLeft, FlushThen, RxRec
  <2> QED BY <2>1 DEF Rest
<1>3. CASE Header
  <2>1. toRx # << >> /\ toRx' = Tail(toRx) /\ toRx \in Seq(Symbol)
    BY <1>3 DEF Header, Get, TypeInv, LinesOK
  <2>2. rx'.pc \notin {"body", "check"} \/ \E c : rx'.xbuff = <<c>>
    BY <1>0, <1>3 DEF Header, FlushThen, Again, RxRec
  <2>3. \A c : Tail(<<c>>) \o Tail(toRx) = Tail(toRx)
    <3> TAKE c
    <3>1. Tail(<<c>>) = << >>
      OBVIOUS
    <3>2. << >> \o Tail(toRx) = Tail(toRx)
      BY <2>1, GetIs, ConcatEmptySeq
    <3> QED BY <3>1, <3>2
  <2>4. Rest' = Tail(toRx)
    BY <2>1, <2>2, <2>3 DEF Rest
  <2> QED BY <2>1, <2>4
<1>4. CASE SecondCan
  <2>1. toRx # << >> /\ toRx' = Tail(toRx) /\ rx'.pc \in {"try", "flush"}
    BY <1>0, <1>4 DEF SecondCan, Get, FlushThen, Again, RxRec
  <2> QED BY <2>1 DEF Rest
<1>5. CASE NoHeader
  <2>1. rx'.pc = "try" /\ UNCHANGED toRx
    BY <1>0, <1>5 DEF NoHeader, Again, RxRec
  <2> QED BY <2>1 DEF Rest
<1>6. CASE BodyByte
  <2>1. /\ rx.pc = "body" /\ rx'.pc \in {"body", "check"} /\ toRx # << >> /\ toRx' = Tail(toRx)
        /\ rx'.xbuff = Append(rx.xbuff, Head(toRx))
    BY <1>6, BodyByteIs
  <2>2. rx.xbuff \in Seq(Symbol) /\ rx.xbuff # << >> /\ toRx \in Seq(Symbol)
    BY <2>1 DEF TypeInv, RxRec, RxTidy, LinesOK
  <2>3. Rest' = Rest
    BY <2>1, <2>2, MoveOne DEF Rest
  <2> QED BY <2>3
<1>7. CASE BodyTimeout
  <2>1. rx'.pc = "flush" /\ UNCHANGED toRx
    BY <1>0, <1>7 DEF BodyTimeout, FlushThen, RxRec
  <2> QED BY <2>1 DEF Rest
<1>8. CASE Accept
  <2>1. rx'.pc \in {"try", "flush"} /\ UNCHANGED toRx
    BY <1>0, <1>8 DEF Accept, Acknowledge, RxRec
  <2> QED BY <2>1 DEF Rest
<1>9. CASE Repeat
  <2>1. rx'.pc \in {"try", "flush"} /\ UNCHANGED toRx
    BY <1>0, <1>9 DEF Repeat, Acknowledge, RxRec
  <2> QED BY <2>1 DEF Rest
<1>10. CASE Reject
  <2>1. rx'.pc = "flush" /\ UNCHANGED toRx
    BY <1>0, <1>10 DEF Reject, FlushThen, RxRec
  <2> QED BY <2>1 DEF Rest
<1>11. CASE Flush
  <2>1. rx.pc = "flush" /\ UNCHANGED rx /\ toRx' = << >>
    BY <1>11 DEF Flush
  <2> QED BY <2>1 DEF Rest
<1>12. CASE Flushed
  <2>1. rx'.pc \in {"try", "done"} /\ UNCHANGED toRx
    BY <1>0, <1>12 DEF Flushed, RxRec
  <2> QED BY <2>1 DEF Rest
<1> QED BY <1>1, <1>2, <1>3, <1>4, <1>5, <1>6, <1>7, <1>8, <1>9, <1>10, <1>11, <1>12 DEF Receive

(* Signs carry no data.                                                    *)
LEMMA SignArrives ==
  ASSUME NEW s \in {<<EOT>>, <<ACK>>, <<CAN, CAN, CAN>>}, NEW a \in Arrivals(s)
  PROVE  NumberedTail(a.bytes)
<1>1. PICK n \in 1 .. 3 : n = Len(s)
  OBVIOUS
<1>2. s \in Seq(Symbol) /\ \A p \in 1 .. n : s[p] \in {EOT, ACK, CAN}
  BY <1>1, Signs
<1>3. \A i : <<"data", i>> \notin {EOT, ACK, CAN, Junk}
  BY NoData
<1>4. PICK T \in Seq(Symbol) : T = a.bytes
  BY <1>2, ArrivalsAre
<1>5. \A p \in 1 .. Len(T) : T[p] \in {EOT, ACK, CAN, Junk}
  <2>1. \/ a.bytes = s
        \/ \E k \in 1 .. Len(s) :
             \/ /\ Len(a.bytes) = Len(s)
                /\ \A j \in 1 .. Len(s) : a.bytes[j] = IF j = k THEN Junk ELSE s[j]
             \/ /\ Len(a.bytes) = Len(s) - 1
                /\ \A j \in 1 .. Len(s) - 1 : a.bytes[j] = IF j < k THEN s[j] ELSE s[j + 1]
    BY <1>2, ArrivalsAre
  <2>2. CASE T = s
    BY <1>1, <1>2, <2>2
  <2>3. ASSUME NEW k \in 1 .. n, Len(T) = n, \A j \in 1 .. n : T[j] = IF j = k THEN Junk ELSE s[j]
        PROVE  \A p \in 1 .. Len(T) : T[p] \in {EOT, ACK, CAN, Junk}
    BY <1>2, <2>3
  <2>4. ASSUME NEW k \in 1 .. n, Len(T) = n - 1,
               \A j \in 1 .. n - 1 : T[j] = IF j < k THEN s[j] ELSE s[j + 1]
        PROVE  \A p \in 1 .. Len(T) : T[p] \in {EOT, ACK, CAN, Junk}
    <3> TAKE p \in 1 .. Len(T)
    <3>1. p \in 1 .. n /\ p + 1 \in 1 .. n /\ p \in 1 .. n - 1
      BY <2>4
    <3> QED BY <1>2, <2>4, <3>1
  <2>5. \/ T = s
        \/ \E k \in 1 .. n :
             \/ Len(T) = n /\ \A j \in 1 .. n : T[j] = IF j = k THEN Junk ELSE s[j]
             \/ Len(T) = n - 1 /\ \A j \in 1 .. n - 1 : T[j] = IF j < k THEN s[j] ELSE s[j + 1]
    BY <1>1, <1>4, <2>1
  <2>6. CASE T # s
    <3>1. PICK k \in 1 .. n :
             \/ Len(T) = n /\ \A j \in 1 .. n : T[j] = IF j = k THEN Junk ELSE s[j]
             \/ Len(T) = n - 1 /\ \A j \in 1 .. n - 1 : T[j] = IF j < k THEN s[j] ELSE s[j + 1]
      BY <2>5, <2>6
    <3>2. CASE Len(T) = n /\ \A j \in 1 .. n : T[j] = IF j = k THEN Junk ELSE s[j]
      BY <2>3, <3>2
    <3>3. CASE Len(T) = n - 1 /\ \A j \in 1 .. n - 1 : T[j] = IF j < k THEN s[j] ELSE s[j + 1]
      BY <2>4, <3>3
    <3> QED BY <3>1, <3>2, <3>3
  <2> QED BY <2>2, <2>6
<1>6. ASSUME NEW p \in 1 .. Len(T)
      PROVE  IF p < 3 THEN \A i \in 0 .. LastPacket : T[p] # <<"data", i>>
                      ELSE Matches(T[p - 2], T[p - 1], T[p])
  BY <1>3, <1>5 DEF Matches
<1> QED BY <1>4, <1>6 DEF NumberedTail

LEMMA TellNumbered ==
  ASSUME TypeInv, Numbered(Rest), UNCHANGED rx, NEW s \in Seq(Symbol), Tell(s),
         \A a \in Arrivals(s) : NumberedTail(a.bytes)
  PROVE  Numbered(Rest')
<1>1. toRx \in Seq(Symbol) /\ faults \in 0 .. Faults
  BY DEF TypeInv, LinesOK
<1>2. PICK a \in Arrivals(s) : toRx' = toRx \o a.bytes
  BY DEF Tell, Carry
<1>3. a.bytes \in Seq(Symbol)
  BY ArrivalsAre
<1>4. Rest' = Rest \o a.bytes
  <2>1. CASE rx.pc \in {"body", "check"}
    <3>1. PICK t \in Seq(Symbol) : t = Tail(rx.xbuff)
      BY <2>1, RestSeq
    <3>2. Rest = t \o toRx /\ Rest' = t \o (toRx \o a.bytes)
      BY <1>2, <2>1, <3>1 DEF Rest
    <3>3. PICK b \in Seq(Symbol) : b = a.bytes
      BY <1>3
    <3>4. (t \o toRx) \o b = t \o (toRx \o b)
      BY <1>1, ConcatAssociative
    <3> QED BY <3>2, <3>3, <3>4
  <2>2. CASE rx.pc \notin {"body", "check"}
    BY <1>2, <2>2 DEF Rest
  <2> QED BY <2>1, <2>2
<1>5. NumberedTail(a.bytes)
  OBVIOUS
<1> QED BY <1>3, <1>4, <1>5, RestSeq, NumberedConcat

LEMMA TransmitTells ==
  ASSUME TypeInv, Start \/ Transmit
  PROVE  \/ UNCHANGED <<toRx, faults>>
         \/ \E s \in {<<EOT>>, <<ACK>>, <<CAN, CAN, CAN>>} : Tell(s)
         \/ \E i \in 0 .. LastPacket, c \in BOOLEAN : Tell(Packet(i, c))
<1>1. CASE SendPacket
  <2>1. Tell(Packet(tx.len \div BUFSZ, tx.crc)) /\ tx.len <= srcsz
    BY <1>1 DEF SendPacket
  <2>2. PICK i \in 0 .. LastPacket : i = tx.len \div BUFSZ
    BY <2>1, Chunks, Sizes DEF TypeInv
  <2>3. tx.crc \in BOOLEAN
    BY DEF TypeInv, TxRec
  <2> QED BY <2>1, <2>2, <2>3
<1>2. CASE ~SendPacket
  BY <1>2 DEF Transmit, Start, FirstSign, NoMorePackets, PacketReply, SendEot, EotReply, CanReply,
              NoReply, GiveUp
<1> QED BY <1>1, <1>2

LEMMA NumberedTransmit ==
  ASSUME TypeInv, Numbered(Rest), Short, Start \/ Transmit
  PROVE  Numbered(Rest')
<1>1. UNCHANGED rx
  BY TxLeavesRx
<1>2. CASE UNCHANGED <<toRx, faults>>
  <2>1. Rest' = Rest
    BY <1>1, <1>2 DEF Rest
  <2> QED BY <2>1
<1>3. CASE \E s \in {<<EOT>>, <<ACK>>, <<CAN, CAN, CAN>>} : Tell(s)
  <2>1. PICK s \in {<<EOT>>, <<ACK>>, <<CAN, CAN, CAN>>} : Tell(s)
    BY <1>3
  <2>2. s \in Seq(Symbol) /\ \A a \in Arrivals(s) : NumberedTail(a.bytes)
    BY Signs, SignArrives
  <2> QED BY <1>1, <2>1, <2>2, TellNumbered
<1>4. CASE \E i \in 0 .. LastPacket, c \in BOOLEAN : Tell(Packet(i, c))
  <2>1. PICK i \in 0 .. LastPacket, c \in BOOLEAN : Tell(Packet(i, c))
    BY <1>4
  <2>2. Packet(i, c) \in Seq(Symbol)
    <3>1. i \in Nat
      BY Sizes
    <3> QED BY <3>1, PacketIs
  <2>3. \A a \in Arrivals(Packet(i, c)) : NumberedTail(a.bytes)
    BY PacketArrives
  <2> QED BY <1>1, <2>1, <2>2, <2>3, TellNumbered
<1> QED BY <1>2, <1>3, <1>4, TransmitTells

LEMMA OrderInit == Init => OrderInv
<1> SUFFICES ASSUME Init PROVE OrderInv
  OBVIOUS
<1>1. rx.packetno = 1 /\ rx.wpos = 0 /\ rx.pc = "try" /\ toRx = << >>
  BY DEF Init
<1>2. Rest = << >>
  BY <1>1 DEF Rest
<1> QED BY <1>1, <1>2, Sizes DEF OrderInv, Placed, Numbered

LEMMA OrderStep ==
  ASSUME Short
  PROVE  TypeInv /\ OrderInv /\ [Next]_vars => OrderInv'
<1> SUFFICES ASSUME TypeInv, OrderInv, [Next]_vars PROVE OrderInv'
  OBVIOUS
<1>1. CASE Receive
  <2>1. Numbered(Rest')
    BY <1>1, NumberedReceive DEF OrderInv
  <2>2. Placed'
    <3>1. CASE Accept
      <4>1. /\ rx.packetno - 1 \in 0 .. LastPacket /\ rx'.packetno = rx.packetno + 1
            /\ rx'.wpos = rx.packetno * 128
        BY <3>1, AcceptIs
      <4>2. rx.packetno \in Nat
        BY Sizes DEF OrderInv, Placed
      <4> QED BY <4>1, <4>2, Sizes DEF Placed
    <3>2. CASE ~Accept
      BY <1>1, <3>2, KeepsPlace DEF OrderInv, Placed
    <3> QED BY <3>1, <3>2
  <2> QED BY <2>1, <2>2 DEF OrderInv, Numbered, Matches
<1>2. CASE Start \/ Transmit
  <2>1. UNCHANGED rx /\ Numbered(Rest')
    BY <1>2, TxLeavesRx, NumberedTransmit DEF OrderInv
  <2> QED BY <2>1 DEF OrderInv, Placed, Numbered, Matches
<1>3. CASE UNCHANGED vars
  BY <1>3 DEF vars, OrderInv, Placed, Rest, Numbered, Matches
<1> QED BY <1>1, <1>2, <1>3 DEF Next

LEMMA Reachable == ASSUME Short PROVE Spec => [](TypeInv /\ OrderInv)
<1>1. Init => TypeInv /\ OrderInv
  BY TypeInit, OrderInit
<1>2. TypeInv /\ OrderInv /\ [Next]_vars => (TypeInv /\ OrderInv)'
  BY TypeStep, OrderStep
<1> QED BY <1>1, <1>2, PTL DEF Spec

LEMMA TypeOKHolds == TypeInv /\ OrderInv => TypeOK
<1> SUFFICES ASSUME TypeInv, OrderInv PROVE TypeOK
  OBVIOUS
<1>1. /\ rx.pc \in {"try", "wait", "can", "body", "check", "flush", "done"}
      /\ rx.then \in Outcomes \cup {"try", "reject"} /\ rx.status \in Outcomes \cup {"receiving"}
      /\ rx.retry \in 0 .. TRIES /\ rx.retrans \in 0 .. MAXRETRANS
      /\ rx.trychar \in {Cee, NAK, None} /\ rx.crc \in BOOLEAN
      /\ rx.packetno \in Numbers
  BY DEF TypeInv, RxRec
<1>2. Len(rx.xbuff) <= 1 + BodyLen(STX, TRUE)
  <2>2. ASSUME rx.pc \in {"body", "check"} PROVE Len(rx.xbuff) <= 7
    <3>1. /\ rx.xbuff[1] \in {SOH, STX} /\ rx.crc \in BOOLEAN /\ Len(rx.xbuff) \in Nat
          /\ rx.pc = "check" => Len(rx.xbuff) = 1 + BodyLen(rx.xbuff[1], rx.crc)
          /\ rx.pc = "body" => Len(rx.xbuff) <= BodyLen(rx.xbuff[1], rx.crc)
      BY <2>2 DEF TypeInv, RxTidy, RxRec
    <3>2. BodyLen(rx.xbuff[1], rx.crc) \in {4, 5, 6}
      BY <3>1, BodyLenIs
    <3>3. PICK b \in {4, 5, 6} : b = BodyLen(rx.xbuff[1], rx.crc)
      BY <3>2
    <3> QED BY <2>2, <3>1, <3>3
  <2>3. ASSUME rx.pc \notin {"body", "check"} PROVE Len(rx.xbuff) <= 7
    <3>1. rx.xbuff = << >>
      BY <2>3 DEF TypeInv, RxTidy
    <3>2. Len(rx.xbuff) = 0
      BY <3>1
    <3> QED BY <3>2
  <2>4. 1 + BodyLen(STX, TRUE) = 7
    BY DEF BodyLen
  <2> QED BY <2>2, <2>3, <2>4
<1>3. rx.wpos \in 0 .. (LastPacket + 1) * BUFSZ
  BY Sizes DEF OrderInv, Placed
<1>4. tx \in [pc : {"idle", "sync", "send", "reply", "eot", "ended", "canSync", "canReply",
                   "giveUp", "done"},
             retry : 0 .. TRIES + MAXRETRANS + EOTTRIES, crc : BOOLEAN,
             len : 0 .. (LastPacket + 1) * BUFSZ,
             verdict : {"sending", "end", "cancelled", "failed"}]
  BY DEF TypeInv, TxRec
<1>5. faults \in 0 .. Faults
  BY DEF TypeInv, LinesOK
<1> QED BY <1>1, <1>2, <1>3, <1>4, <1>5 DEF TypeOK

(* Every variable keeps to its range whatever the line does: the counters  *)
(* of attempts stop at their limits, no packet overruns xbuff, and the     *)
(* position in the file never passes the packets there are                 *)
(* (xmodem.c 91, 101, 139, 161).                                           *)
THEOREM TypeCorrect == ASSUME Short PROVE Spec => []TypeOK
<1>1. TypeInv /\ OrderInv => TypeOK
  BY TypeOKHolds
<1> QED BY <1>1, Reachable, PTL

-----------------------------------------------------------------------------
(* A line that has lost nothing carries whole packets, and at the end some *)
(* number of one other symbol.                                             *)

Layout(S, c, q, z, t) ==
  /\ Len(S) = Len(q) * Width(c) + t
  /\ \A j \in 1 .. Len(q) : \A p \in 1 .. Width(c) :
       S[(j - 1) * Width(c) + p] = Field(q[j], c)[p]
  /\ \A u \in 1 .. t : S[Len(q) * Width(c) + u] = z

Places == Seq(0 .. LastPacket)

LEMMA WidthIs == \A c \in BOOLEAN : Width(c) \in {5, 6}
  BY DEF Width

LEMMA InPlace ==
  ASSUME NEW w \in {5, 6}, NEW k \in Nat, NEW j \in 1 .. k, NEW p \in 1 .. w
  PROVE  /\ (j - 1) * w + p \in 1 .. k * w
         /\ (j - 1) * w + p + w = (j + 1 - 1) * w + p
         /\ k * w + w = (k + 1) * w /\ k * w \in Nat /\ (k - 1) * w \in Nat
         /\ (k + 1 - 1) * w = k * w
<1>1. CASE w = 5
  BY <1>1
<1>2. CASE w = 6
  BY <1>2
<1> QED BY <1>1, <1>2

LEMMA OneLess ==
  ASSUME NEW w \in {5, 6}, NEW k \in Nat, k >= 1
  PROVE  (k - 1) * w \in Nat /\ (k - 1) * w + w = k * w
<1>1. CASE w = 5
  BY <1>1
<1>2. CASE w = 6
  BY <1>2
<1> QED BY <1>1, <1>2

LEMMA LayoutEmpty ==
  ASSUME NEW c \in BOOLEAN, NEW z
  PROVE  Layout(<< >>, c, << >>, z, 0)
<1>1. PICK w \in {5, 6} : w = Width(c)
  BY WidthIs
<1>2. 0 * w + 0 = 0
  BY <1>1
<1> QED BY <1>1, <1>2 DEF Layout

LEMMA LayoutPacket ==
  ASSUME NEW S \in Seq(Symbol), NEW c \in BOOLEAN, NEW q \in Places, NEW z, NEW y,
         NEW i \in 0 .. LastPacket, Layout(S, c, q, z, 0)
  PROVE  Layout(S \o Packet(i, c), c, Append(q, i), y, 0)
<1>1. PICK w \in {5, 6} : w = Width(c)
  BY WidthIs
<1>2. PICK k \in Nat : k = Len(q)
  BY DEF Places
<1>3. PICK P \in Seq(Symbol) : /\ P = Packet(i, c) /\ Len(P) = w
                               /\ \A p \in 1 .. w : P[p] = Field(i, c)[p]
  <2>1. i \in Nat
    BY Sizes
  <2> QED BY <1>1, <2>1, PacketIs
<1>4. PICK m \in Nat : m = k * w /\ Len(S) = m
  BY <1>1, <1>2 DEF Layout
<1>5. PICK U : U = S \o P
  OBVIOUS
<1>6. /\ Len(U) = m + w
      /\ \A u \in 1 .. m : U[u] = S[u]
      /\ \A p \in 1 .. w : U[m + p] = P[p]
  <2>1. /\ Len(S \o P) = m + w
        /\ \A u \in 1 .. m : (S \o P)[u] = S[u]
        /\ \A p \in 1 .. w : (S \o P)[m + p] = P[p]
    BY <1>3, <1>4, ConcatIs
  <2> QED BY <1>5, <2>1
<1>7. PICK r \in Places : /\ r = Append(q, i) /\ Len(r) = k + 1 /\ r[k + 1] = i
                          /\ \A j \in 1 .. k : r[j] = q[j]
  <2>1. /\ Append(q, i) \in Places /\ Len(Append(q, i)) = Len(q) + 1
        /\ \A j \in 1 .. Len(q) : Append(q, i)[j] = q[j] /\ Append(q, i)[Len(q) + 1] = i
    BY AppendProperties DEF Places
  <2>2. Append(q, i)[Len(q) + 1] = i
    BY AppendProperties DEF Places
  <2> QED BY <1>2, <2>1, <2>2
<1>8. m + w = (k + 1) * w
  BY <1>1, <1>4
<1>9. ASSUME NEW j \in 1 .. k + 1, NEW p \in 1 .. w
      PROVE  U[(j - 1) * w + p] = Field(r[j], c)[p]
  <2>1. CASE j \in 1 .. k
    <3>1. (j - 1) * w + p \in 1 .. m
      BY <1>4, <2>1, InPlace
    <3>2. S[(j - 1) * w + p] = Field(q[j], c)[p]
      BY <1>1, <1>2, <2>1 DEF Layout
    <3> QED BY <1>6, <1>7, <2>1, <3>1, <3>2
  <2>2. CASE j = k + 1
    <3>1. (j - 1) * w + p = m + p
      BY <1>1, <1>4, <2>2
    <3>2. U[m + p] = Field(i, c)[p]
      <4>1. U[m + p] = P[p]
        BY <1>6
      <4> QED BY <1>3, <4>1
    <3> QED BY <1>7, <2>2, <3>1, <3>2
  <2> QED BY <2>1, <2>2
<1>10. Layout(U, c, r, y, 0)
  <2>1. Len(U) = Len(r) * w + 0
    BY <1>1, <1>4, <1>6, <1>7, <1>8
  <2> QED BY <1>1, <1>7, <1>9, <2>1 DEF Layout
<1> QED BY <1>3, <1>5, <1>7, <1>10

LEMMA LayoutSign ==
  ASSUME NEW S \in Seq(Symbol), NEW c \in BOOLEAN, NEW q \in Places, NEW z, NEW y \in Symbol,
         NEW t \in Nat, t > 0 => y = z, Layout(S, c, q, z, t)
  PROVE  Layout(S \o <<y>>, c, q, y, t + 1)
<1>1. PICK w \in {5, 6} : w = Width(c)
  BY WidthIs
<1>2. PICK k \in Nat : k = Len(q)
  BY DEF Places
<1>3. PICK m \in Nat : m = k * w /\ Len(S) = m + t
  BY <1>1, <1>2 DEF Layout
<1>4. PICK U : U = S \o <<y>>
  OBVIOUS
<1>5. Len(U) = m + t + 1 /\ U[m + t + 1] = y /\ \A u \in 1 .. m + t : U[u] = S[u]
  BY <1>3, <1>4
<1>6. \A j \in 1 .. k : \A p \in 1 .. w : U[(j - 1) * w + p] = Field(q[j], c)[p]
  <2> TAKE j \in 1 .. k
  <2> TAKE p \in 1 .. w
  <2>1. (j - 1) * w + p \in 1 .. m
    BY <1>3, InPlace
  <2>2. S[(j - 1) * w + p] = Field(q[j], c)[p]
    BY <1>1, <1>2 DEF Layout
  <2> QED BY <1>3, <1>5, <2>1, <2>2
<1>7. \A u \in 1 .. t + 1 : U[m + u] = y
  <2> TAKE u \in 1 .. t + 1
  <2>1. CASE u = t + 1
    BY <1>5, <2>1
  <2>2. CASE u \in 1 .. t
    <3>1. S[m + u] = z
      BY <1>1, <1>2, <1>3, <2>2 DEF Layout
    <3> QED BY <1>3, <1>5, <2>2, <3>1
  <2> QED BY <2>1, <2>2
<1>8. Layout(U, c, q, y, t + 1)
  <2>1. Len(U) = m + (t + 1)
    BY <1>3, <1>5
  <2> QED BY <1>1, <1>2, <1>3, <1>6, <1>7, <2>1 DEF Layout
<1> QED BY <1>4, <1>8

(* The first packet, and what is left without it.                          *)
LEMMA LayoutFirst ==
  ASSUME NEW S \in Seq(Symbol), NEW c \in BOOLEAN, NEW q \in Places, NEW z, NEW t \in Nat,
         Layout(S, c, q, z, t), q # << >>
  PROVE  Len(S) >= Width(c) /\ \A p \in 1 .. Width(c) : S[p] = Field(q[1], c)[p]
<1>1. PICK w \in {5, 6} : w = Width(c)
  BY WidthIs
<1>2. PICK k \in Nat : k = Len(q) /\ k >= 1
  BY DEF Places
<1>3. Len(S) = k * w + t /\ k * w >= w
  BY <1>1, <1>2 DEF Layout
<1>4. \A p \in 1 .. w : S[(1 - 1) * w + p] = Field(q[1], c)[p] /\ (1 - 1) * w + p = p
  BY <1>1, <1>2 DEF Layout
<1> QED BY <1>1, <1>3, <1>4

LEMMA LayoutRest ==
  ASSUME NEW x \in Seq(Symbol), NEW y \in Seq(Symbol), NEW c \in BOOLEAN, NEW q \in Places, NEW z,
         NEW t \in Nat, Layout(x \o y, c, q, z, t), q # << >>, Len(x) = Width(c)
  PROVE  Layout(y, c, Tail(q), z, t)
<1>1. PICK w \in {5, 6} : w = Width(c)
  BY WidthIs
<1>2. PICK k \in Nat : k = Len(q) /\ k >= 1
  BY DEF Places
<1>3. PICK S : S = x \o y
  OBVIOUS
<1>31. PICK n \in Nat : n = Len(y)
  OBVIOUS
<1>4. Len(S) = w + n /\ \A u \in 1 .. n : S[w + u] = y[u]
  <2>1. Len(x \o y) = w + n /\ \A u \in 1 .. n : (x \o y)[w + u] = y[u]
    BY <1>1, <1>31, ConcatIs
  <2> QED BY <1>3, <2>1
<1>5. PICK r \in Places : r = Tail(q) /\ Len(r) = k - 1 /\ \A j \in 1 .. k - 1 : r[j] = q[j + 1]
  <2>1. Tail(q) \in Places /\ Len(Tail(q)) = Len(q) - 1
        /\ \A j \in 1 .. Len(Tail(q)) : Tail(q)[j] = q[j + 1]
    BY HeadTailProperties DEF Places
  <2> QED BY <1>2, <2>1
<1>60. Layout(S, c, q, z, t)
  BY <1>3
<1>61. PICK l \in Nat : l = (k - 1) * w /\ l + w = k * w
  BY <1>2, OneLess
<1>6. n = l + t
  <2>1. Len(S) = k * w + t
    BY <1>1, <1>2, <1>60 DEF Layout
  <2> QED BY <1>31, <1>4, <1>61, <2>1
<1>7. \A j \in 1 .. k - 1 : \A p \in 1 .. w : y[(j - 1) * w + p] = Field(r[j], c)[p]
  <2> TAKE j \in 1 .. k - 1
  <2> TAKE p \in 1 .. w
  <2>1. PICK u \in 1 .. (k - 1) * w : u = (j - 1) * w + p /\ w + u = (j + 1 - 1) * w + p
    <3>1. k - 1 \in Nat
      BY <1>2
    <3>2. (j - 1) * w + p \in 1 .. (k - 1) * w /\ (j - 1) * w + p + w = (j + 1 - 1) * w + p
      BY <3>1, InPlace
    <3> QED BY <3>2
  <2>2. u \in 1 .. n
    BY <1>6, <1>61, <2>1
  <2>3. j + 1 \in 1 .. k
    BY <1>2
  <2>4. S[(j + 1 - 1) * w + p] = Field(q[j + 1], c)[p]
    <3>1. PICK g \in 1 .. k : g = j + 1
      BY <2>3
    <3>2. S[(g - 1) * w + p] = Field(q[g], c)[p]
      BY <1>1, <1>2, <1>60 DEF Layout
    <3> QED BY <3>1, <3>2
  <2>5. S[w + u] = y[u] /\ S[w + u] = Field(q[j + 1], c)[p] /\ r[j] = q[j + 1]
    BY <1>4, <1>5, <2>1, <2>2, <2>4
  <2> QED BY <2>1, <2>5
<1>8. \A u \in 1 .. t : y[(k - 1) * w + u] = z
  <2> TAKE u \in 1 .. t
  <2>1. S[k * w + u] = z
    BY <1>1, <1>2, <1>60 DEF Layout
  <2>2. PICK v \in 1 .. n : v = l + u /\ w + v = k * w + u
    <3>1. l + u \in 1 .. n
      BY <1>6
    <3>2. w + (l + u) = k * w + u
      <4>1. PICK g \in Nat : g = k * w /\ l + w = g
        BY <1>61
      <4> QED BY <4>1
    <3> QED BY <3>1, <3>2
  <2>3. S[w + v] = y[v]
    BY <1>4, <2>2
  <2> QED BY <1>61, <2>1, <2>2, <2>3
<1>9. Len(y) = Len(r) * w + t
  BY <1>31, <1>5, <1>6, <1>61
<1> QED BY <1>1, <1>5, <1>7, <1>8, <1>9 DEF Layout

LEMMA LayoutEnd ==
  ASSUME NEW S \in Seq(Symbol), NEW c \in BOOLEAN, NEW z, NEW t \in Nat,
         Layout(S, c, << >>, z, t), S # << >>
  PROVE  t > 0 /\ Head(S) = z /\ Layout(Tail(S), c, << >>, z, t - 1)
<1>1. PICK w \in {5, 6} : w = Width(c)
  BY WidthIs
<1>2. 0 * w = 0 /\ Len(<< >>) = 0
  BY <1>1
<1>3. Len(S) = t /\ \A u \in 1 .. t : S[u] = z
  BY <1>1, <1>2 DEF Layout
<1>4. t > 0 /\ Head(S) = S[1] /\ Len(Tail(S)) = t - 1 /\ \A j \in 1 .. t - 1 : Tail(S)[j] = S[j + 1]
  BY <1>3, GetIs
<1>5. \A u \in 1 .. t - 1 : Tail(S)[u] = z
  BY <1>3, <1>4
<1>6. Layout(Tail(S), c, << >>, z, t - 1)
  BY <1>1, <1>2, <1>4, <1>5 DEF Layout
<1> QED BY <1>3, <1>4, <1>6

LEMMA LayoutNothing ==
  ASSUME NEW c \in BOOLEAN, NEW q \in Places, NEW z, NEW t \in Nat, Layout(<< >>, c, q, z, t)
  PROVE  q = << >> /\ t = 0
<1>1. PICK w \in {5, 6} : w = Width(c)
  BY WidthIs
<1>2. PICK k \in Nat : k = Len(q)
  BY DEF Places
<1>3. 0 = k * w + t
  BY <1>1, <1>2 DEF Layout
<1>4. k = 0 /\ t = 0
  BY <1>1, <1>3
<1> QED BY <1>2, <1>4, EmptySeq DEF Places

-----------------------------------------------------------------------------
(* The packets on a clean line, q, between the receiver, who wants packet  *)
(* a and has r repetitions left, and the transmitter at packet n with m    *)
(* attempts behind it.  Each acknowledgement of a repetition lets the      *)
(* transmitter run ahead; q stays an ascent, and no packet is in it so     *)
(* often that the receiver would run out.                                  *)

Climbs(q) ==
  /\ \A i, j \in 1 .. Len(q) : i <= j => q[i] <= q[j]
  /\ \A j \in 1 .. Len(q) - 1 : q[j + 1] <= q[j] + 1

Few(q, a, r) ==
  /\ Len(q) > 0 => q[1] \in {a - 1, a}
  /\ \A j \in 1 .. Len(q) - MAXRETRANS : q[j + MAXRETRANS] # q[j]
  /\ Len(q) >= r => q[r] # a - 1

Ahead(q, a, n, r, m) ==
  /\ Len(q) > m => q[Len(q) - m] # n
  /\ n = a - 1 => Len(q) + MAXRETRANS - m <= r - 1

Follows(q, a, n) == IF Len(q) > 0 THEN n \in {q[Len(q)], q[Len(q)] + 1} ELSE n \in {a - 1, a}

LEMMA PlacesNat ==
  ASSUME NEW q \in Places
  PROVE  Len(q) \in Nat /\ \A j \in 1 .. Len(q) : q[j] \in Nat /\ q[j] <= LastPacket
<1>1. \A j \in 1 .. Len(q) : q[j] \in 0 .. LastPacket
  BY ElementOfSeq DEF Places
<1>2. Len(q) \in Nat
  BY DEF Places
<1> QED BY <1>1, <1>2, Sizes

LEMMA TailIs ==
  ASSUME NEW q \in Places, Len(q) > 0
  PROVE  /\ Tail(q) \in Places /\ Len(Tail(q)) = Len(q) - 1
         /\ \A j \in 1 .. Len(q) - 1 : Tail(q)[j] = q[j + 1]
<1>1. q # << >>
  OBVIOUS
<1> QED BY <1>1, HeadTailProperties DEF Places

LEMMA AppendIs ==
  ASSUME NEW q \in Places, NEW i \in 0 .. LastPacket
  PROVE  /\ Append(q, i) \in Places /\ Len(Append(q, i)) = Len(q) + 1
         /\ \A j \in 1 .. Len(q) : Append(q, i)[j] = q[j]
         /\ Append(q, i)[Len(q) + 1] = i
  BY AppendProperties DEF Places

(* Taking a packet, the one expected or the one before.                    *)
LEMMA TakeClimbs ==
  ASSUME NEW q \in Places, Len(q) > 0, Climbs(q)
  PROVE  Climbs(Tail(q))
<1>1. PICK k \in Nat : k = Len(q) /\ k > 0
  BY PlacesNat
<1>2. PICK s \in Places : /\ s = Tail(q) /\ Len(s) = k - 1
                          /\ \A j \in 1 .. k - 1 : s[j] = q[j + 1]
  BY <1>1, TailIs
<1>3. ASSUME NEW i \in 1 .. k - 1, NEW j \in 1 .. k - 1, i <= j
      PROVE  s[i] <= s[j]
  <2>1. i + 1 \in 1 .. k /\ j + 1 \in 1 .. k /\ i + 1 <= j + 1
    BY <1>3
  <2> QED BY <1>1, <1>2, <2>1 DEF Climbs
<1>4. ASSUME NEW j \in 1 .. k - 2
      PROVE  s[j + 1] <= s[j] + 1
  <2>1. j \in 1 .. k - 1 /\ j + 1 \in 1 .. k - 1
    OBVIOUS
  <2>2. q[j + 1 + 1] <= q[j + 1] + 1
    BY <1>1, <2>1 DEF Climbs
  <2> QED BY <1>2, <2>1, <2>2
<1>5. Len(s) - 1 = k - 2
  BY <1>2
<1> QED BY <1>2, <1>3, <1>4, <1>5 DEF Climbs

LEMMA Lowest ==
  ASSUME NEW q \in Places, Climbs(q), NEW i \in 1 .. Len(q)
  PROVE  q[1] <= q[i] /\ q[i] <= q[Len(q)] /\ q[i] \in Nat /\ q[1] \in Nat /\ q[Len(q)] \in Nat
<1>1. PICK k \in Nat : k = Len(q) /\ 1 \in 1 .. k /\ i \in 1 .. k /\ k \in 1 .. k
  BY PlacesNat
<1> QED BY <1>1, PlacesNat DEF Climbs

LEMMA TakeExpected ==
  ASSUME NEW q \in Places, NEW a \in Nat, NEW r \in Nat, Climbs(q), Few(q, a, r),
         Len(q) > 0, q[1] = a
  PROVE  /\ Few(Tail(q), a + 1, MAXRETRANS)
         /\ \A n, m \in Nat : n >= q[Len(q)] /\ Ahead(q, a, n, r, m)
                                 => Ahead(Tail(q), a + 1, n, MAXRETRANS, m)
<1>1. PICK k \in Nat : k = Len(q) /\ k > 0
  BY PlacesNat
<1>2. PICK s \in Places : /\ s = Tail(q) /\ Len(s) = k - 1
                          /\ \A j \in 1 .. k - 1 : s[j] = q[j + 1]
  BY <1>1, TailIs
<1>3. PICK R \in Nat : R = MAXRETRANS /\ R > 0
  BY Sizes
<1>4. \A j \in 1 .. k : q[j] \in Nat /\ a <= q[j] /\ q[j] <= q[k]
  BY <1>1, Lowest
<1>5. Few(s, a + 1, R)
  <2>1. k - 1 > 0 => s[1] \in {a + 1 - 1, a + 1}
    <3> SUFFICES ASSUME k - 1 > 0 PROVE s[1] \in {a, a + 1}
      OBVIOUS
    <3>1. 1 \in 1 .. k - 1 /\ 2 \in 1 .. k /\ 1 + 1 = 2
      BY <1>1
    <3>2. q[2] <= q[1] + 1 /\ s[1] = q[2]
      BY <1>1, <1>2, <3>1 DEF Climbs
    <3>3. q[2] \in Nat /\ a <= q[2]
      BY <1>4, <3>1
    <3> QED BY <3>2, <3>3
  <2>2. ASSUME NEW j \in 1 .. k - 1 - R
        PROVE  s[j + R] # s[j]
    <3>1. PICK l \in 1 .. k - R : l = j + 1 /\ l + R = j + R + 1 /\ j + R \in 1 .. k - 1 /\ j \in 1 .. k - 1
      BY <1>3
    <3>2. q[l + R] # q[l]
      BY <1>1, <1>3, <3>1 DEF Few
    <3> QED BY <1>2, <3>1, <3>2
  <2>3. k - 1 >= R => s[R] # a + 1 - 1
    <3> SUFFICES ASSUME k - 1 >= R PROVE s[R] # a
      OBVIOUS
    <3>1. 1 \in 1 .. k - R /\ R \in 1 .. k - 1 /\ 1 + R = R + 1
      BY <1>3
    <3>2. q[1 + R] # q[1]
      BY <1>1, <1>3, <3>1 DEF Few
    <3> QED BY <1>2, <3>1, <3>2
  <2> QED BY <1>2, <1>3, <2>1, <2>2, <2>3 DEF Few
<1>6. ASSUME NEW n \in Nat, NEW m \in Nat, n >= q[Len(q)], Ahead(q, a, n, r, m)
      PROVE  Ahead(s, a + 1, n, R, m)
  <2>1. k > m => q[k - m] # n
    BY <1>1, <1>6 DEF Ahead
  <2>2. k - 1 > m => s[k - 1 - m] # n
    <3> SUFFICES ASSUME k - 1 > m PROVE s[k - 1 - m] # n
      OBVIOUS
    <3>1. k - 1 - m \in 1 .. k - 1 /\ k - 1 - m + 1 = k - m
      OBVIOUS
    <3> QED BY <1>2, <2>1, <3>1
  <2>3. n = a => k <= m
    <3> SUFFICES ASSUME n = a, k > m PROVE FALSE
      OBVIOUS
    <3>1. k - m \in 1 .. k /\ k \in 1 .. k
      BY <1>1
    <3>2. a <= q[k - m] /\ q[k - m] <= q[k] /\ q[k - m] \in Nat /\ q[k] \in Nat
      BY <1>4, <3>1
    <3>3. q[k] <= n
      BY <1>1, <1>6
    <3> QED BY <2>1, <3>2, <3>3
  <2>4. n = a + 1 - 1 => k - 1 + R - m <= R - 1
    BY <1>3, <2>3
  <2> QED BY <1>2, <1>3, <2>2, <2>4 DEF Ahead
<1> QED BY <1>2, <1>3, <1>5, <1>6

LEMMA TakeRepeated ==
  ASSUME NEW q \in Places, NEW a \in Nat, NEW r \in Nat, r > 0, Climbs(q), Few(q, a, r),
         Len(q) > 0, q[1] = a - 1
  PROVE  /\ r > 1 /\ Few(Tail(q), a, r - 1)
         /\ \A n, m \in Nat : Ahead(q, a, n, r, m) => Ahead(Tail(q), a, n, r - 1, m)
<1>1. PICK k \in Nat : k = Len(q) /\ k > 0
  BY PlacesNat
<1>2. PICK s \in Places : /\ s = Tail(q) /\ Len(s) = k - 1
                          /\ \A j \in 1 .. k - 1 : s[j] = q[j + 1]
  BY <1>1, TailIs
<1>3. PICK R \in Nat : R = MAXRETRANS /\ R > 0
  BY Sizes
<1>4. \A j \in 1 .. k : q[j] \in Nat /\ a - 1 <= q[j]
  BY <1>1, Lowest
<1>5. r > 1
  BY <1>1 DEF Few
<1>6. Few(s, a, r - 1)
  <2>1. k - 1 > 0 => s[1] \in {a - 1, a}
    <3> SUFFICES ASSUME k - 1 > 0 PROVE s[1] \in {a - 1, a}
      OBVIOUS
    <3>1. 1 \in 1 .. k - 1 /\ 2 \in 1 .. k /\ 1 + 1 = 2
      BY <1>1
    <3>2. q[2] <= q[1] + 1 /\ s[1] = q[2]
      BY <1>1, <1>2, <3>1 DEF Climbs
    <3>3. q[2] \in Nat /\ a - 1 <= q[2]
      BY <1>4, <3>1
    <3> QED BY <3>2, <3>3
  <2>2. ASSUME NEW j \in 1 .. k - 1 - R
        PROVE  s[j + R] # s[j]
    <3>1. PICK l \in 1 .. k - R : l = j + 1 /\ l + R = j + R + 1 /\ j + R \in 1 .. k - 1 /\ j \in 1 .. k - 1
      BY <1>3
    <3>2. q[l + R] # q[l]
      BY <1>1, <1>3, <3>1 DEF Few
    <3> QED BY <1>2, <3>1, <3>2
  <2>3. k - 1 >= r - 1 => s[r - 1] # a - 1
    <3> SUFFICES ASSUME k - 1 >= r - 1 PROVE s[r - 1] # a - 1
      OBVIOUS
    <3>1. r - 1 \in 1 .. k - 1 /\ r - 1 + 1 = r /\ k >= r
      BY <1>5
    <3> QED BY <1>1, <1>2, <3>1 DEF Few
  <2> QED BY <1>2, <1>3, <2>1, <2>2, <2>3 DEF Few
<1>7. ASSUME NEW n \in Nat, NEW m \in Nat, Ahead(q, a, n, r, m)
      PROVE  Ahead(s, a, n, r - 1, m)
  <2>1. k - 1 > m => s[k - 1 - m] # n
    <3> SUFFICES ASSUME k - 1 > m PROVE s[k - 1 - m] # n
      OBVIOUS
    <3>1. k - 1 - m \in 1 .. k - 1 /\ k - 1 - m + 1 = k - m /\ k > m
      OBVIOUS
    <3>2. q[k - m] # n
      BY <1>1, <1>7, <3>1 DEF Ahead
    <3> QED BY <1>2, <3>1, <3>2
  <2>2. n = a - 1 => k - 1 + R - m <= r - 1 - 1
    BY <1>1, <1>3, <1>7 DEF Ahead
  <2> QED BY <1>2, <1>3, <2>1, <2>2 DEF Ahead
<1> QED BY <1>2, <1>5, <1>6, <1>7

(* Sending a packet: the one that follows, m attempts behind it.           *)
LEMMA SendOne ==
  ASSUME NEW q \in Places, NEW a \in Nat, NEW r \in Nat, r > 0, NEW n \in 0 .. LastPacket, NEW m \in Nat,
         m < MAXRETRANS, Climbs(q), Few(q, a, r), Follows(q, a, n), Ahead(q, a, n, r, m)
  PROVE  Climbs(Append(q, n)) /\ Few(Append(q, n), a, r) /\ Ahead(Append(q, n), a, n, r, m + 1)
<1>1. PICK k \in Nat : k = Len(q)
  BY PlacesNat
<1>2. PICK s \in Places : /\ s = Append(q, n) /\ Len(s) = k + 1 /\ s[k + 1] = n
                          /\ \A j \in 1 .. k : s[j] = q[j]
  BY <1>1, AppendIs
<1>3. PICK R \in Nat : R = MAXRETRANS /\ R > 0
  BY Sizes
<1>4. \A j \in 1 .. k : q[j] \in Nat /\ q[1] \in Nat /\ q[1] <= q[j] /\ q[j] <= q[k] /\ q[j] <= n
  <2> TAKE j \in 1 .. k
  <2>1. q[j] \in Nat /\ q[1] \in Nat /\ q[k] \in Nat /\ q[1] <= q[j] /\ q[j] <= q[k]
    BY <1>1, Lowest
  <2>2. n \in {q[k], q[k] + 1} /\ n \in Nat
    BY <1>1, Sizes DEF Follows
  <2> QED BY <2>1, <2>2
<1>5. n \in Nat
  BY Sizes
<1>6. Climbs(s)
  <2>1. ASSUME NEW i \in 1 .. k + 1, NEW j \in 1 .. k + 1, i <= j
        PROVE  s[i] <= s[j]
    <3>1. CASE j = k + 1 /\ i = k + 1
      BY <1>2, <1>5, <3>1
    <3>2. CASE j = k + 1 /\ i # k + 1
      <4>1. i \in 1 .. k
        BY <3>2
      <4> QED BY <1>2, <1>4, <3>2, <4>1
    <3>3. CASE j # k + 1
      <4>1. i \in 1 .. k /\ j \in 1 .. k
        BY <2>1, <3>3
      <4> QED BY <1>1, <1>2, <2>1, <4>1 DEF Climbs
    <3> QED BY <3>1, <3>2, <3>3
  <2>2. ASSUME NEW j \in 1 .. k
        PROVE  s[j + 1] <= s[j] + 1
    <3>1. CASE j = k
      <4>1. n \in {q[k], q[k] + 1} /\ q[k] \in Nat
        BY <1>1, <1>4, <3>1 DEF Follows
      <4> QED BY <1>2, <1>5, <3>1, <4>1
    <3>2. CASE j # k
      <4>1. j \in 1 .. k - 1 /\ j + 1 \in 1 .. k
        BY <3>2
      <4> QED BY <1>1, <1>2, <4>1 DEF Climbs
    <3> QED BY <3>1, <3>2
  <2>3. Len(s) - 1 = k
    BY <1>2
  <2> QED BY <1>2, <2>1, <2>2, <2>3 DEF Climbs
<1>7. Few(s, a, r)
  <2>1. s[1] \in {a - 1, a}
    <3>1. CASE k = 0
      BY <1>1, <1>2, <3>1 DEF Follows
    <3>2. CASE k > 0
      BY <1>1, <1>2, <3>2 DEF Few
    <3> QED BY <3>1, <3>2
  <2>2. ASSUME NEW j \in 1 .. k + 1 - R
        PROVE  s[j + R] # s[j]
    <3>1. CASE j = k + 1 - R
      <4>1. PICK l \in 1 .. k : l = k - m /\ j <= l /\ j \in 1 .. k /\ k > m
        BY <1>3, <3>1
      <4>2. q[l] # n /\ q[l] \in Nat /\ q[l] <= n
        BY <1>1, <1>4, <4>1 DEF Ahead
      <4>3. q[j] <= q[l] /\ q[j] \in Nat
        BY <1>1, <1>4, <4>1 DEF Climbs
      <4>4. s[j + R] = n /\ s[j] = q[j]
        BY <1>2, <3>1, <4>1
      <4> QED BY <1>5, <4>2, <4>3, <4>4
    <3>2. CASE j # k + 1 - R
      <4>1. j \in 1 .. k - R /\ j \in 1 .. k /\ j + R \in 1 .. k
        BY <1>3, <3>2
      <4>2. q[j + R] # q[j]
        BY <1>1, <1>3, <4>1 DEF Few
      <4> QED BY <1>2, <4>1, <4>2
    <3> QED BY <3>1, <3>2
  <2>3. k + 1 >= r => s[r] # a - 1
    <3> SUFFICES ASSUME k + 1 >= r PROVE s[r] # a - 1
      OBVIOUS
    <3>1. CASE k >= r
      <4>1. q[r] # a - 1 /\ r \in 1 .. k
        BY <1>1, <3>1 DEF Few
      <4> QED BY <1>2, <4>1
    <3>2. CASE r = k + 1
      <4>1. n = a - 1 => k + R - m <= r - 1
        BY <1>1, <1>3 DEF Ahead
      <4>2. n # a - 1
        BY <1>3, <3>2, <4>1
      <4> QED BY <1>2, <3>2, <4>2
    <3> QED BY <3>1, <3>2
  <2> QED BY <1>2, <1>3, <2>1, <2>2, <2>3 DEF Few
<1>8. Ahead(s, a, n, r, m + 1)
  <2>1. k + 1 > m + 1 => s[k + 1 - (m + 1)] # n
    <3> SUFFICES ASSUME k > m PROVE s[k + 1 - (m + 1)] # n
      OBVIOUS
    <3>1. k - m \in 1 .. k /\ k + 1 - (m + 1) = k - m
      OBVIOUS
    <3>2. q[k - m] # n
      BY <1>1 DEF Ahead
    <3> QED BY <1>2, <3>1, <3>2
  <2>2. n = a - 1 => k + 1 + R - (m + 1) <= r - 1
    BY <1>1, <1>3 DEF Ahead
  <2> QED BY <1>2, <1>3, <2>1, <2>2 DEF Ahead
<1> QED BY <1>2, <1>6, <1>7, <1>8

(* An acknowledgement: the packet after the last one sent has not been.    *)
LEMMA NextOne ==
  ASSUME NEW q \in Places, NEW a \in Nat, NEW r \in Nat, NEW n \in Nat, Climbs(q), Few(q, a, r),
         IF Len(q) > 0 THEN n = q[Len(q)] ELSE n = a - 1
  PROVE  Follows(q, a, n + 1) /\ Ahead(q, a, n + 1, r, 0)
<1>1. PICK k \in Nat : k = Len(q)
  BY PlacesNat
<1>2. CASE k > 0
  <2>1. q[1] <= q[k] /\ q[1] \in Nat /\ q[k] \in Nat /\ n = q[k] /\ k - 0 = k
    <3>1. k \in 1 .. k
      BY <1>2
    <3> QED BY <1>1, <1>2, <3>1, Lowest
  <2>2. q[1] \in {a - 1, a}
    BY <1>1, <1>2 DEF Few
  <2> QED BY <1>1, <1>2, <2>1, <2>2 DEF Follows, Ahead
<1>3. CASE k = 0
  <2>1. n = a - 1
    BY <1>1, <1>3
  <2> QED BY <1>1, <1>3, <2>1 DEF Follows, Ahead
<1> QED BY <1>1, <1>2, <1>3

-----------------------------------------------------------------------------
(* A clean line: what is on it, and what both sides make of it.            *)

Due == rx.packetno - 1
Turn == tx.len \div BUFSZ
Stream == IF rx.pc \in {"body", "check"} THEN rx.xbuff \o toRx ELSE toRx

Asked == {ACK, NAK, Cee}
Lacks(l, y) == \A j \in 1 .. Len(l) : l[j] # y
Only(l, y) == \A j \in 1 .. Len(l) : l[j] = y

(* The receiver has seen no header yet; it has settled on another check    *)
(* than the transmitter; the transmitter will not be told the end.         *)
Fresh == rx.trychar # None
Mismatch == ~Fresh /\ rx.crc # tx.crc
CannotEnd == tx.verdict # "end" /\ (tx.pc = "done" \/ Lacks(toTx, ACK))

Talks == toTx \in Seq(Asked) /\ tx.pc \notin {"canSync", "canReply"}

Settled ==
  /\ rx.pc \in {"body", "check"} => ~Fresh
  /\ Fresh \/ Mismatch => Due = 0 /\ Turn = 0 /\ Lacks(toTx, ACK)
  /\ Fresh => ~rx.crc
  /\ rx.trychar = Cee =>
       /\ Only(toTx, Cee)
       /\ tx.crc \/ (tx.pc \in {"idle", "sync", "giveUp", "done"} /\ Only(toRx, CAN))
  /\ ~Fresh => tx.pc \notin {"idle", "sync"} /\ (rx.crc => tx.crc)

Closing ==
  /\ rx.pc = "flush" =>
       /\ rx.then = "reject" => Mismatch
       /\ rx.then = "end" => Due = LastPacket + 1
       /\ rx.then = "cancelled" => tx.pc = "done" /\ tx.verdict # "end"
       /\ rx.then = "sync" => CannotEnd
       /\ rx.then # "retry"
  /\ rx.retry > 0 /\ rx.pc # "flush" => CannotEnd

Queue(q, z, t) ==
  /\ Climbs(q) /\ Few(q, Due, rx.retrans)
  /\ rx.pc \in {"body", "check"} => Len(q) > 0
  /\ rx.pc = "can" => Len(q) = 0 /\ tx.pc = "done" /\ tx.verdict # "end" /\ (t > 0 => z = CAN)
  /\ tx.pc \in {"idle", "sync"} => Len(q) = 0 /\ t = 0
  /\ t > 0 /\ z = CAN => tx.pc = "done" /\ tx.verdict # "end"
  /\ tx.pc \in {"send", "reply"} \/ (tx.pc = "giveUp" /\ tx.len <= srcsz) => t = 0
  /\ tx.pc = "send" => Follows(q, Due, Turn) /\ Ahead(q, Due, Turn, rx.retrans, tx.retry)
  /\ tx.pc = "reply" => /\ IF Len(q) > 0 THEN Turn = q[Len(q)] ELSE Turn = Due - 1 \/ Mismatch
                        /\ Ahead(q, Due, Turn, rx.retrans, tx.retry + 1)
  /\ (t > 0 /\ z = EOT) \/ tx.pc \in {"eot", "ended"} =>
       IF Len(q) > 0 THEN q[Len(q)] = LastPacket ELSE Due = LastPacket + 1
  /\ tx.pc = "ended" \/ tx.verdict = "end" => t > 0 /\ z = EOT

Carried ==
  rx.pc # "flush" => \E q \in Places, t \in Nat, z \in {EOT, CAN} :
                       Layout(Stream, tx.crc, q, z, t) /\ Queue(q, z, t)

CleanInv ==
  faults = 0 =>
    /\ toTx \in Seq(Asked \cup {CAN})
    /\ IF rx.pc = "done" THEN rx.status = "end" \/ CannotEnd
                         ELSE Talks /\ Settled /\ Closing /\ Carried

LEMMA Distinct ==
  /\ SOH # STX /\ SOH # EOT /\ SOH # ACK /\ SOH # NAK /\ SOH # CAN /\ SOH # Cee
  /\ STX # EOT /\ STX # CAN
  /\ EOT # ACK /\ EOT # NAK /\ EOT # CAN /\ EOT # Cee
  /\ ACK # NAK /\ ACK # CAN /\ ACK # Cee /\ NAK # CAN /\ NAK # Cee /\ CAN # Cee
  /\ None # Cee /\ None # NAK
  BY DEF SOH, STX, EOT, ACK, NAK, CAN, Cee, Byte, None

LEMMA Unmistaken ==
  \A s \in {SOH, STX, EOT, ACK, NAK, CAN, Cee} : Readings(s) = {s}
  BY DEF Readings, SOH, STX, EOT, ACK, NAK, CAN, Cee, Byte

LEMMA OnLine ==
  ASSUME NEW R, NEW l \in Seq(R), NEW x \in R
  PROVE  /\ l \o <<x>> \in Seq(R)
         /\ \A y : Lacks(l, y) /\ x # y => Lacks(l \o <<x>>, y)
         /\ \A y : Only(l, y) /\ x = y => Only(l \o <<x>>, y)
<1>1. l \o <<x>> \in Seq(R)
  OBVIOUS
<1>2. PICK n \in Nat : n = Len(l)
  OBVIOUS
<1>3. PICK u : u = l \o <<x>>
  OBVIOUS
<1>4. Len(u) = n + 1 /\ u[n + 1] = x /\ \A j \in 1 .. n : u[j] = l[j]
  BY <1>2, <1>3
<1>5. \A j \in 1 .. n + 1 : j = n + 1 \/ j \in 1 .. n
  BY <1>2
<1> QED BY <1>1, <1>2, <1>3, <1>4, <1>5 DEF Lacks, Only

LEMMA OffLine ==
  ASSUME NEW R, NEW l \in Seq(R), l # << >>
  PROVE  /\ Tail(l) \in Seq(R) /\ Head(l) \in R
         /\ \A y : Lacks(l, y) => Lacks(Tail(l), y) /\ Head(l) # y
         /\ \A y : Only(l, y) => Only(Tail(l), y) /\ Head(l) = y
<1>1. PICK n \in Nat : n = Len(l) /\ n > 0
  OBVIOUS
<1>2. PICK u \in Seq(R) : u = Tail(l) /\ Len(u) = n - 1 /\ \A j \in 1 .. n - 1 : u[j] = l[j + 1]
  <2>1. /\ Tail(l) \in Seq(R) /\ Len(Tail(l)) = Len(l) - 1
        /\ \A j \in 1 .. Len(Tail(l)) : Tail(l)[j] = l[j + 1]
    BY HeadTailProperties
  <2> QED BY <1>1, <2>1
<1>3. Head(l) \in R /\ Head(l) = l[1] /\ 1 \in 1 .. n
  BY <1>1
<1>4. \A j \in 1 .. n - 1 : j + 1 \in 1 .. n
  OBVIOUS
<1> QED BY <1>1, <1>2, <1>3, <1>4 DEF Lacks, Only

LEMMA Growing == TypeInv /\ [Next]_vars => faults <= faults'
<1> SUFFICES ASSUME TypeInv, [Next]_vars PROVE faults <= faults'
  OBVIOUS
<1>1. faults \in Nat /\ faults \in 0 .. Faults /\ toRx \in Seq(Symbol) /\ toTx \in Seq(Symbol)
  BY Sizes DEF TypeInv, LinesOK
<1>2. ASSUME NEW l \in Seq(Symbol), NEW l1, NEW s \in Seq(Symbol), Carry(l, l1, s)
      PROVE  faults <= faults'
  BY <1>1, <1>2, CarryIs
<1>3. CASE Receive
  <2>1. UNCHANGED faults \/ \E s \in {<<rx.trychar>>, <<ACK>>, <<NAK>>, <<CAN, CAN, CAN>>} :
          Answer(s) /\ s \in Seq(Symbol)
    <3>1. CASE Try
      <4>1. CASE rx.trychar = None
        BY <3>1, <4>1 DEF Try
      <4>2. CASE rx.trychar # None
        <5>1. rx.trychar \in Symbol
          BY <4>2, Controls DEF TypeInv, RxRec
        <5> QED BY <3>1, <4>2, <5>1, Signs DEF Try
      <4> QED BY <4>1, <4>2
    <3>2. CASE Accept
      BY <3>2, Signs DEF Accept, Acknowledge
    <3>3. CASE Repeat
      BY <3>3, Signs DEF Repeat, Acknowledge
    <3>4. CASE Flushed
      BY <3>4, Signs DEF Flushed
    <3>5. CASE UNCHANGED faults
      BY <3>5
    <3> QED BY <1>3, <3>1, <3>2, <3>3, <3>4, <3>5
            DEF Receive, NoTriesLeft, Header, SecondCan, NoHeader, BodyByte, BodyTimeout, Reject, Flush
  <2>2. ASSUME NEW s \in Seq(Symbol), Answer(s) PROVE faults <= faults'
    <3>1. Carry(toTx, toTx', s)
      BY <2>2 DEF Answer
    <3> QED BY <1>1, <1>2, <3>1
  <2>3. CASE UNCHANGED faults
    BY <1>1, <2>3
  <2> QED BY <2>1, <2>2, <2>3
<1>4. CASE Start \/ Transmit
  <2>1. UNCHANGED faults \/ \E s \in Seq(Symbol) : Tell(s)
    <3>1. CASE \E i \in 0 .. LastPacket, c \in BOOLEAN : Tell(Packet(i, c))
      <4>1. \A i \in 0 .. LastPacket : i \in Nat
        BY Sizes
      <4> QED BY <3>1, <4>1, PacketIs
    <3> QED BY <1>4, <3>1, TransmitTells, Signs
  <2>2. ASSUME NEW s \in Seq(Symbol), Tell(s) PROVE faults <= faults'
    <3>1. Carry(toRx, toRx', s)
      BY <2>2 DEF Tell
    <3> QED BY <1>1, <1>2, <3>1
  <2> QED BY <1>1, <2>1, <2>2
<1>5. CASE UNCHANGED vars
  BY <1>1, <1>5 DEF vars
<1> QED BY <1>3, <1>4, <1>5 DEF Next

LEMMA CleanAnswer ==
  ASSUME LinesOK, NEW s \in Seq(Symbol), Answer(s), faults' = 0
  PROVE  toTx' = toTx \o s
<1>1. Carry(toTx, toTx', s)
  BY DEF Answer
<1>2. toTx \in Seq(Symbol) /\ faults \in 0 .. Faults
  BY DEF LinesOK
<1> QED BY <1>1, <1>2, CarryIs

LEMMA CleanTell ==
  ASSUME LinesOK, NEW s \in Seq(Symbol), Tell(s), faults' = 0
  PROVE  toRx' = toRx \o s
<1>1. Carry(toRx, toRx', s)
  BY DEF Tell
<1>2. toRx \in Seq(Symbol) /\ faults \in 0 .. Faults
  BY DEF LinesOK
<1> QED BY <1>1, <1>2, CarryIs

LEMMA CleanNats ==
  ASSUME TypeInv, OrderInv
  PROVE  /\ Due \in Nat /\ Due <= LastPacket + 1 /\ rx.packetno = Due + 1
         /\ Turn \in Nat /\ Turn <= LastPacket + 1 /\ (tx.len <= srcsz <=> Turn <= LastPacket)
         /\ rx.retrans \in Nat /\ tx.retry \in Nat /\ rx.retry \in Nat
         /\ rx.crc \in BOOLEAN /\ tx.crc \in BOOLEAN
         /\ toRx \in Seq(Symbol) /\ toTx \in Seq(Symbol)
<1>1. PICK k \in 0 .. LastPacket + 1 : tx.len \div BUFSZ = k /\ (tx.len <= srcsz <=> k <= LastPacket)
  BY Chunks DEF TypeInv
<1>2. /\ Turn \in Nat /\ Turn <= LastPacket + 1 /\ (tx.len <= srcsz <=> Turn <= LastPacket)
  BY <1>1, Sizes DEF Turn
<1>3. Due \in Nat /\ Due <= LastPacket + 1 /\ rx.packetno = Due + 1
  BY Sizes DEF Due, OrderInv, Placed
<1>4. /\ rx.retrans \in Nat /\ rx.retry \in Nat /\ rx.crc \in BOOLEAN /\ tx.crc \in BOOLEAN
      /\ toRx \in Seq(Symbol) /\ toTx \in Seq(Symbol)
  BY Sizes DEF TypeInv, RxRec, TxRec, LinesOK
<1>5. tx.retry \in Nat
  BY Sizes DEF TypeInv, TxRec
<1> QED BY <1>2, <1>3, <1>4, <1>5

(* The packet in xbuff on a clean line.                                    *)
LEMMA InBuffer ==
  ASSUME TypeInv, Settled, NEW q \in Places, NEW t \in Nat, NEW z, Layout(Stream, tx.crc, q, z, t),
         Queue(q, z, t), rx.pc \in {"body", "check"}
  PROVE  /\ rx.xbuff \in Seq(Symbol) /\ Len(rx.xbuff) > 0 /\ rx.xbuff[1] = SOH
         /\ Len(rx.xbuff) + Len(toRx) >= Width(tx.crc)
         /\ \A p \in 1 .. Width(tx.crc) : p <= Len(rx.xbuff) => rx.xbuff[p] = Field(q[1], tx.crc)[p]
         /\ rx.pc = "check" => Len(rx.xbuff) = Width(rx.crc)
         /\ rx.pc = "body" => Len(rx.xbuff) < Width(rx.crc)
         /\ Width(rx.crc) <= Width(tx.crc)
<1>1. PICK x \in Seq(Symbol), m, n \in Nat : /\ x = rx.xbuff /\ m = Len(x) /\ n = Len(toRx) /\ m > 0
  BY DEF TypeInv, RxRec, RxTidy, LinesOK
<1>2. toRx \in Seq(Symbol)
  BY DEF TypeInv, LinesOK
<1>3. Stream = x \o toRx
  BY <1>1 DEF Stream
<1>4. Len(x \o toRx) = m + n /\ \A j \in 1 .. m : (x \o toRx)[j] = x[j]
  BY <1>1, <1>2, ConcatIs
<1>5. q # << >>
  BY EmptySeq DEF Queue
<1>6. Stream \in Seq(Symbol) /\ tx.crc \in BOOLEAN /\ rx.crc \in BOOLEAN
  BY <1>1, <1>2, <1>3, ConcatProperties DEF TypeInv, TxRec, RxRec
<1>7. Len(Stream) >= Width(tx.crc) /\ \A p \in 1 .. Width(tx.crc) : Stream[p] = Field(q[1], tx.crc)[p]
  BY <1>5, <1>6, LayoutFirst
<1>8. Width(tx.crc) \in {5, 6} /\ Width(rx.crc) \in {5, 6}
  BY <1>6, WidthIs
<1>9. \A p \in 1 .. Width(tx.crc) : p <= m => x[p] = Field(q[1], tx.crc)[p]
  <2> TAKE p \in 1 .. Width(tx.crc)
  <2> HAVE p <= m
  <2>1. p \in 1 .. m
    BY <1>8
  <2> QED BY <1>3, <1>4, <1>7, <2>1
<1>10. x[1] = SOH
  <2>1. 1 \in 1 .. Width(tx.crc)
    BY <1>8
  <2>2. Field(q[1], tx.crc)[1] = SOH
    BY <2>1 DEF Field
  <2> QED BY <1>1, <1>9, <2>1, <2>2
<1>11. BodyLen(SOH, rx.crc) + 1 = Width(rx.crc)
  <2>1. BodyLen(SOH, rx.crc) = IF rx.crc THEN 5 ELSE 4
    BY <1>6, BodyLenIs
  <2> QED BY <2>1 DEF Width
<1>12. PICK b \in {4, 5} : b = BodyLen(SOH, rx.crc)
  BY <1>6, BodyLenIs
<1>13. /\ rx.pc = "check" => m = 1 + b
       /\ rx.pc = "body" => m <= b
  BY <1>1, <1>10, <1>12 DEF TypeInv, RxTidy
<1>14. rx.crc => tx.crc
  BY DEF Settled
<1>15. Width(rx.crc) <= Width(tx.crc)
  BY <1>14 DEF Width
<1> QED BY <1>1, <1>3, <1>4, <1>7, <1>9, <1>10, <1>11, <1>12, <1>13, <1>15

CleanNow == TypeInv /\ OrderInv /\ Talks /\ Settled /\ Closing /\ Carried

LEMMA QueueKept ==
  ASSUME NEW q, NEW z, NEW t, Queue(q, z, t), UNCHANGED tx, Due' = Due, rx'.retrans = rx.retrans,
         Mismatch => Mismatch', rx'.pc \in {"body", "check"} => Len(q) > 0,
         rx'.pc = "can" => Len(q) = 0 /\ tx.pc = "done" /\ tx.verdict # "end" /\ (t > 0 => z = CAN)
  PROVE  Queue(q, z, t)'
<1>1. Turn' = Turn
  BY DEF Turn
<1>2. Few(q, Due, rx.retrans)' = Few(q, Due, rx.retrans) /\ Climbs(q)' = Climbs(q)
      /\ Follows(q, Due, Turn)' = Follows(q, Due, Turn)
      /\ Ahead(q, Due, Turn, rx.retrans, tx.retry)' = Ahead(q, Due, Turn, rx.retrans, tx.retry)
      /\ Ahead(q, Due, Turn, rx.retrans, tx.retry + 1)' = Ahead(q, Due, Turn, rx.retrans, tx.retry + 1)
  BY <1>1 DEF Few, Climbs, Follows, Ahead
<1> QED BY <1>1, <1>2 DEF Queue

LEMMA LayoutKept ==
  ASSUME NEW q, NEW z, NEW t, NEW S, Layout(S, tx.crc, q, z, t), Stream' = S, UNCHANGED tx
  PROVE  Layout(Stream, tx.crc, q, z, t)'
<1>1. Layout(Stream', tx'.crc, q, z, t)
  BY Zenon
<1> QED BY <1>1 DEF Layout

LEMMA CleanTry ==
  ASSUME CleanNow, Try, faults' = 0
  PROVE  rx'.pc # "done" /\ Talks' /\ Settled' /\ Closing' /\ Carried'
<1> USE DEF CleanNow
<1>1. /\ rx.pc = "try" /\ rx'.pc = "wait" /\ rx'.retry = rx.retry /\ rx'.retrans = rx.retrans
      /\ rx'.trychar = rx.trychar /\ rx'.crc = rx.crc /\ rx'.packetno = rx.packetno
      /\ UNCHANGED <<tx, toRx>>
  BY DEF Try, TypeInv, RxRec
<1>2. toTx' = toTx \/ (rx.trychar \in {Cee, NAK} /\ toTx' = toTx \o <<rx.trychar>>)
  <2>1. CASE rx.trychar = None
    BY <2>1 DEF Try
  <2>2. CASE rx.trychar # None
    <3>1. rx.trychar \in {Cee, NAK} /\ Answer(<<rx.trychar>>)
      BY <2>2 DEF Try, TypeInv, RxRec
    <3>2. <<rx.trychar>> \in Seq(Symbol) /\ LinesOK
      BY <3>1, Controls, Signs DEF TypeInv
    <3> QED BY <3>1, <3>2, CleanAnswer
  <2> QED BY <2>1, <2>2
<1>3. /\ toTx' \in Seq(Asked)
      /\ Lacks(toTx, ACK) => Lacks(toTx', ACK)
      /\ rx.trychar = Cee /\ Only(toTx, Cee) => Only(toTx', Cee)
  <2>1. CASE toTx' = toTx
    BY <2>1 DEF Talks
  <2>2. CASE rx.trychar \in {Cee, NAK} /\ toTx' = toTx \o <<rx.trychar>>
    <3>1. toTx \in Seq(Asked) /\ rx.trychar \in Asked /\ rx.trychar # ACK
      BY <2>2, Distinct DEF Talks, Asked
    <3> QED BY <2>2, <3>1, OnLine
  <2> QED BY <1>2, <2>1, <2>2
<1>4. Turn' = Turn /\ Due' = Due /\ Fresh' = Fresh /\ Mismatch' = Mismatch /\ (CannotEnd => CannotEnd')
  BY <1>1, <1>3 DEF Turn, Due, Fresh, Mismatch, CannotEnd
<1>5. Talks'
  BY <1>1, <1>3 DEF Talks
<1>6. Settled'
  BY <1>1, <1>3, <1>4 DEF Settled
<1>7. Closing'
  BY <1>1, <1>4 DEF Closing
<1>8. Carried'
  <2>1. PICK q \in Places, t \in Nat, z \in {EOT, CAN} :
           Layout(Stream, tx.crc, q, z, t) /\ Queue(q, z, t)
    BY <1>1 DEF Carried
  <2>2. Stream' = Stream
    BY <1>1 DEF Stream
  <2>3. Queue(q, z, t)'
    BY <1>1, <1>4, <2>1, QueueKept
  <2>4. Layout(Stream, tx.crc, q, z, t)'
    BY <1>1, <2>1, <2>2, LayoutKept
  <2> QED BY <2>3, <2>4 DEF Carried
<1> QED BY <1>1, <1>5, <1>6, <1>7, <1>8

LEMMA CleanNoTriesLeft ==
  ASSUME CleanNow, NoTriesLeft
  PROVE  rx'.pc # "done" /\ Talks' /\ Settled' /\ Closing' /\ Carried'
<1> USE DEF CleanNow
<1>1. /\ rx.pc = "try" /\ rx.retry > 0 /\ UNCHANGED <<tx, toRx, toTx>>
      /\ rx'.crc = rx.crc /\ rx'.packetno = rx.packetno /\ rx'.retrans = rx.retrans
      /\ \/ rx.trychar = Cee /\ rx'.trychar = NAK /\ rx'.retry = 0 /\ rx'.pc = "try"
         \/ rx'.trychar = rx.trychar /\ rx'.pc = "flush" /\ rx'.then = "sync"
  BY Sizes DEF NoTriesLeft, MoreTries, FlushThen, TypeInv, RxRec
<1>2. CannotEnd /\ CannotEnd'
  BY <1>1 DEF Closing, CannotEnd
<1>3. Turn' = Turn /\ Due' = Due /\ Fresh' = Fresh /\ Mismatch' = Mismatch
  BY <1>1, Distinct DEF Turn, Due, Fresh, Mismatch
<1>4. Talks'
  BY <1>1 DEF Talks
<1>5. Settled'
  BY <1>1, <1>3, Distinct DEF Settled
<1>6. Closing'
  BY <1>1, <1>2 DEF Closing
<1>7. Carried'
  <2>1. PICK q \in Places, t \in Nat, z \in {EOT, CAN} :
           Layout(Stream, tx.crc, q, z, t) /\ Queue(q, z, t)
    BY <1>1 DEF Carried
  <2>2. Stream' = Stream
    BY <1>1 DEF Stream
  <2>3. Queue(q, z, t)'
    BY <1>1, <1>3, <2>1, QueueKept
  <2>4. Layout(Stream, tx.crc, q, z, t)'
    BY <1>1, <2>1, <2>2, LayoutKept
  <2> QED BY <2>3, <2>4 DEF Carried
<1> QED BY <1>1, <1>4, <1>5, <1>6, <1>7

(* What comes next: a packet, or the other symbol.                         *)
LEMMA HeadIs ==
  ASSUME CleanNow, rx.pc \in {"wait", "can"}, toRx # << >>, NEW q \in Places, NEW t \in Nat,
         NEW z \in {EOT, CAN}, Layout(Stream, tx.crc, q, z, t)
  PROVE  /\ Len(q) > 0 => Head(toRx) = SOH
         /\ Len(q) = 0 => t > 0 /\ Head(toRx) = z /\ Layout(Tail(toRx), tx.crc, q, z, t - 1)
<1>1. toRx \in Seq(Symbol) /\ tx.crc \in BOOLEAN /\ Stream = toRx
  BY DEF CleanNow, TypeInv, LinesOK, TxRec, Stream
<1>2. ASSUME Len(q) > 0 PROVE Head(toRx) = SOH
  <2>1. q # << >>
    BY <1>2, EmptySeq
  <2>2. \A p \in 1 .. Width(tx.crc) : toRx[p] = Field(q[1], tx.crc)[p]
    BY <1>1, <2>1, LayoutFirst
  <2>3. 1 \in 1 .. Width(tx.crc)
    BY <1>1, WidthIs
  <2>4. Field(q[1], tx.crc)[1] = SOH
    BY <2>3 DEF Field
  <2> QED BY <1>1, <2>2, <2>3, <2>4
<1>3. ASSUME Len(q) = 0
      PROVE  t > 0 /\ Head(toRx) = z /\ Layout(Tail(toRx), tx.crc, q, z, t - 1)
  <2>1. q = << >>
    BY <1>3, EmptySeq DEF Places
  <2> QED BY <1>1, <2>1, LayoutEnd
<1> QED BY <1>2, <1>3

LEMMA CleanHeader ==
  ASSUME CleanNow, Header
  PROVE  rx'.pc # "done" /\ Talks' /\ Settled' /\ Closing' /\ Carried'
<1> USE DEF CleanNow
<1>1. /\ rx.pc = "wait" /\ toRx # << >> /\ toRx' = Tail(toRx) /\ UNCHANGED <<tx, toTx>>
      /\ toRx \in Seq(Symbol)
  BY DEF Header, Get, TypeInv, LinesOK
<1>2. PICK q \in Places, t \in Nat, z \in {EOT, CAN} :
           Layout(Stream, tx.crc, q, z, t) /\ Queue(q, z, t)
  BY <1>1 DEF Carried
<1>3. Stream = toRx
  BY <1>1 DEF Stream
<1>4. Turn' = Turn /\ (CannotEnd => CannotEnd') /\ Talks'
  BY <1>1 DEF Turn, CannotEnd, Talks
<1>5. Len(q) \in Nat
  BY PlacesNat
<1>6. CASE Len(q) > 0
  <2>1. Head(toRx) = SOH
    BY <1>1, <1>2, <1>6, HeadIs
  <2>2. Readings(Head(toRx)) = {SOH}
    BY <2>1, Unmistaken
  <2>3. rx' = [rx EXCEPT !.pc = "body", !.crc = @ \/ rx.trychar = Cee,
                              !.trychar = None, !.xbuff = <<SOH>>]
    BY <2>2, Distinct DEF Header
  <2>4. PICK b \in BOOLEAN : b = (rx.crc \/ rx.trychar = Cee)
    OBVIOUS
  <2>5. /\ rx'.pc = "body" /\ rx'.crc = b /\ rx'.trychar = None /\ rx'.xbuff = <<SOH>>
        /\ rx'.retry = rx.retry /\ rx'.retrans = rx.retrans /\ rx'.packetno = rx.packetno
    BY <2>3, <2>4 DEF TypeInv, RxRec
  <2>6. Stream' = Stream
    <3>1. <<Head(toRx)>> \o Tail(toRx) = toRx
      BY <1>1
    <3> QED BY <1>1, <1>3, <2>1, <2>5, <3>1 DEF Stream
  <2>7. Due' = Due /\ ~Fresh'
    BY <2>5 DEF Due, Fresh
  <2>8. tx.pc \notin {"idle", "sync"}
    BY <1>2, <1>6 DEF Queue
  <2>9. b => tx.crc
    <3>1. CASE rx.trychar = Cee
      <4>1. ~Only(toRx, CAN)
        BY <1>1, <2>1, OffLine, Distinct
      <4> QED BY <3>1, <4>1 DEF Settled
    <3>2. CASE rx.trychar # Cee
      BY <2>4, <3>2 DEF Settled, TypeInv, RxRec, Fresh
    <3> QED BY <3>1, <3>2
  <2>10. Mismatch => Mismatch'
    <3>1. Mismatch => rx.trychar = None /\ rx.crc # tx.crc
      BY DEF Mismatch, Fresh
    <3>2. Mismatch => b = rx.crc
      BY <2>4, <3>1, Distinct DEF TypeInv, RxRec
    <3> QED BY <1>1, <2>5, <2>7, <3>1, <3>2 DEF Mismatch
  <2>11. Mismatch' => Fresh \/ Mismatch
    <3>1. ~Fresh => b = rx.crc
      BY <2>4, Distinct DEF TypeInv, RxRec, Fresh
    <3> QED BY <1>1, <2>5, <3>1 DEF Mismatch
  <2>12. Settled'
    BY <1>1, <1>4, <2>5, <2>7, <2>8, <2>9, <2>11, Distinct DEF Settled
  <2>13. Closing'
    BY <1>1, <1>4, <2>5 DEF Closing
  <2>14. Queue(q, z, t)'
    BY <1>1, <1>2, <1>6, <2>5, <2>7, <2>10, QueueKept
  <2>15. Layout(Stream, tx.crc, q, z, t)'
    BY <1>1, <1>2, <2>6, LayoutKept
  <2> QED BY <1>4, <2>5, <2>12, <2>13, <2>14, <2>15 DEF Carried
<1>7. CASE Len(q) = 0
  <2>1. t > 0 /\ Head(toRx) = z /\ Layout(Tail(toRx), tx.crc, q, z, t - 1)
    BY <1>1, <1>2, <1>7, HeadIs
  <2>2. Readings(Head(toRx)) = {z}
    BY <2>1, Unmistaken
  <2>3. CASE z = EOT
    <3>1. rx' = FlushThen("end")
      BY <2>2, <2>3, Distinct DEF Header
    <3>2. /\ rx'.pc = "flush" /\ rx'.then = "end" /\ rx'.crc = rx.crc /\ rx'.trychar = rx.trychar
          /\ rx'.retry = rx.retry /\ rx'.retrans = rx.retrans /\ rx'.packetno = rx.packetno
      BY <3>1 DEF FlushThen, TypeInv, RxRec
    <3>3. Due' = Due /\ Fresh' = Fresh /\ Mismatch' = Mismatch
      BY <1>1, <3>2 DEF Due, Fresh, Mismatch
    <3>4. Due = LastPacket + 1
      BY <1>2, <1>7, <2>1, <2>3 DEF Queue
    <3>5. Only(toRx, CAN) => Only(toRx', CAN)
      BY <1>1, OffLine
    <3>6. Settled'
      BY <1>1, <1>4, <3>2, <3>3, <3>5 DEF Settled
    <3>7. Closing'
      BY <3>2, <3>3, <3>4 DEF Closing
    <3> QED BY <1>4, <3>2, <3>6, <3>7 DEF Carried
  <2>4. CASE z = CAN
    <3>1. rx' = [rx EXCEPT !.pc = "can"]
      BY <2>2, <2>4, Distinct DEF Header
    <3>2. /\ rx'.pc = "can" /\ rx'.crc = rx.crc /\ rx'.trychar = rx.trychar
          /\ rx'.retry = rx.retry /\ rx'.retrans = rx.retrans /\ rx'.packetno = rx.packetno
      BY <3>1 DEF TypeInv, RxRec
    <3>3. Due' = Due /\ Fresh' = Fresh /\ Mismatch' = Mismatch
      BY <1>1, <3>2 DEF Due, Fresh, Mismatch
    <3>4. tx.pc = "done" /\ tx.verdict # "end"
      BY <1>2, <2>1, <2>4 DEF Queue
    <3>5. Only(toRx, CAN) => Only(toRx', CAN)
      BY <1>1, OffLine
    <3>6. Settled'
      BY <1>1, <1>4, <3>2, <3>3, <3>5 DEF Settled
    <3>7. Closing'
      BY <1>1, <1>4, <3>2, <3>3 DEF Closing
    <3>8. PICK u \in Nat : u = t - 1
      BY <2>1
    <3>9. Stream' = Tail(toRx)
      BY <1>1, <3>2 DEF Stream
    <3>10. Layout(Stream, tx.crc, q, z, u)'
      BY <1>1, <2>1, <3>8, <3>9, LayoutKept
    <3>11. Queue(q, z, u)
      BY <1>2, <1>7, <2>1, <2>4, <3>4, <3>8, Distinct DEF Queue
    <3>12. Queue(q, z, u)'
      BY <1>1, <1>7, <2>4, <3>2, <3>3, <3>4, <3>11, QueueKept
    <3> QED BY <1>4, <3>2, <3>6, <3>7, <3>10, <3>12 DEF Carried
  <2> QED BY <2>3, <2>4
<1> QED BY <1>5, <1>6, <1>7

LEMMA CleanSecondCan ==
  ASSUME CleanNow, SecondCan
  PROVE  rx'.pc # "done" /\ Talks' /\ Settled' /\ Closing' /\ Carried'
<1> USE DEF CleanNow
<1>1. /\ rx.pc = "can" /\ toRx # << >> /\ toRx' = Tail(toRx) /\ UNCHANGED <<tx, toTx>>
      /\ toRx \in Seq(Symbol)
  BY DEF SecondCan, Get, TypeInv, LinesOK
<1>2. PICK q \in Places, t \in Nat, z \in {EOT, CAN} :
           Layout(Stream, tx.crc, q, z, t) /\ Queue(q, z, t)
  BY <1>1 DEF Carried
<1>3. Len(q) = 0 /\ tx.pc = "done" /\ tx.verdict # "end" /\ (t > 0 => z = CAN)
  BY <1>1, <1>2 DEF Queue
<1>4. Head(toRx) = CAN
  BY <1>1, <1>2, <1>3, HeadIs
<1>5. Readings(Head(toRx)) = {CAN}
  BY <1>4, Unmistaken
<1>6. rx' = FlushThen("cancelled")
  BY <1>5 DEF SecondCan
<1>7. /\ rx'.pc = "flush" /\ rx'.then = "cancelled" /\ rx'.crc = rx.crc /\ rx'.trychar = rx.trychar
      /\ rx'.retry = rx.retry /\ rx'.retrans = rx.retrans /\ rx'.packetno = rx.packetno
  BY <1>6 DEF FlushThen, TypeInv, RxRec
<1>8. Turn' = Turn /\ Due' = Due /\ Fresh' = Fresh /\ Mismatch' = Mismatch /\ Talks'
  BY <1>1, <1>7 DEF Turn, Due, Fresh, Mismatch, Talks
<1>9. Only(toRx, CAN) => Only(toRx', CAN)
  BY <1>1, OffLine
<1>10. Settled'
  BY <1>1, <1>7, <1>8, <1>9 DEF Settled
<1>11. Closing'
  BY <1>1, <1>3, <1>7 DEF Closing
<1> QED BY <1>7, <1>8, <1>10, <1>11 DEF Carried

(* When nothing comes any more, the transmitter has stopped, or it has no  *)
(* answer to wait for.                                                     *)
LEMMA SilentEnd ==
  ASSUME CleanNow, Silence, toRx = << >>, rx.pc \in {"wait", "can"}
  PROVE  CannotEnd
<1> USE DEF CleanNow
<1>1. PICK q \in Places, t \in Nat, z \in {EOT, CAN} :
           Layout(Stream, tx.crc, q, z, t) /\ Queue(q, z, t)
  BY DEF Carried
<1>2. q = << >> /\ t = 0
  <2>1. Stream = << >> /\ tx.crc \in BOOLEAN
    BY DEF Stream, TypeInv, TxRec
  <2> QED BY <1>1, <2>1, LayoutNothing
<1>3. tx.verdict # "end"
  BY <1>1, <1>2 DEF Queue
<1>4. CASE Listening
  <2>1. toTx = << >>
    BY <1>4 DEF Silence
  <2> QED BY <1>3, <2>1 DEF CannotEnd, Lacks
<1>5. CASE ~Listening
  <2>1. tx.pc \in {"idle", "done"}
    BY <1>5 DEF Silence, Listening, TypeInv, TxRec
  <2>2. CASE tx.pc = "idle"
    BY <1>3, <2>2 DEF Settled, CannotEnd
  <2> QED BY <1>3, <2>1, <2>2 DEF CannotEnd
<1> QED BY <1>4, <1>5

LEMMA CleanNoHeader ==
  ASSUME CleanNow, NoHeader
  PROVE  rx'.pc # "done" /\ Talks' /\ Settled' /\ Closing' /\ Carried'
<1> USE DEF CleanNow
<1>1. /\ rx.pc \in {"wait", "can"} /\ UNCHANGED <<tx, toRx, toTx>> /\ toRx = << >> /\ Silence
      /\ rx'.pc = "try" /\ rx'.crc = rx.crc /\ rx'.trychar = rx.trychar
      /\ rx'.retrans = rx.retrans /\ rx'.packetno = rx.packetno
  BY DEF NoHeader, WaitsForHeader, Again, TypeInv, RxRec
<1>2. CannotEnd
  BY <1>1, SilentEnd
<1>3. /\ Turn' = Turn /\ Due' = Due /\ Fresh' = Fresh /\ Mismatch' = Mismatch /\ Talks'
      /\ CannotEnd'
  BY <1>1, <1>2 DEF Turn, Due, Fresh, Mismatch, Talks, CannotEnd
<1>4. Settled'
  BY <1>1, <1>3 DEF Settled
<1>5. Closing'
  BY <1>1, <1>3 DEF Closing
<1>6. PICK q \in Places, t \in Nat, z \in {EOT, CAN} :
           Layout(Stream, tx.crc, q, z, t) /\ Queue(q, z, t)
  BY <1>1 DEF Carried
<1>7. Stream' = Stream
  BY <1>1 DEF Stream
<1>8. Queue(q, z, t)'
  BY <1>1, <1>3, <1>6, QueueKept
<1>9. Layout(Stream, tx.crc, q, z, t)'
  BY <1>1, <1>6, <1>7, LayoutKept
<1> QED BY <1>1, <1>3, <1>4, <1>5, <1>8, <1>9 DEF Carried

LEMMA CleanBodyByte ==
  ASSUME CleanNow, BodyByte
  PROVE  rx'.pc # "done" /\ Talks' /\ Settled' /\ Closing' /\ Carried'
<1> USE DEF CleanNow
<1>1. /\ rx.pc = "body" /\ toRx # << >> /\ toRx' = Tail(toRx) /\ UNCHANGED <<tx, toTx>>
      /\ rx'.pc \in {"body", "check"} /\ rx'.xbuff = Append(rx.xbuff, Head(toRx))
      /\ rx'.retry = rx.retry /\ rx'.retrans = rx.retrans
      /\ rx'.trychar = rx.trychar /\ rx'.crc = rx.crc /\ rx'.packetno = rx.packetno
  <2>1. UNCHANGED tx
    BY DEF BodyByte
  <2> QED BY <2>1, BodyByteIs
<1>2. Turn' = Turn /\ Due' = Due /\ Fresh' = Fresh /\ Mismatch' = Mismatch /\ Talks'
  BY <1>1 DEF Turn, Due, Fresh, Mismatch, Talks
<1>3. ~Fresh
  BY <1>1 DEF Settled
<1>4. Settled'
  <2>1. rx'.trychar # Cee
    BY <1>1, <1>3, Distinct DEF Fresh
  <2> QED BY <1>1, <1>2, <1>3, <2>1 DEF Settled
<1>5. Closing'
  BY <1>1 DEF Closing, CannotEnd
<1>6. PICK q \in Places, t \in Nat, z \in {EOT, CAN} :
           Layout(Stream, tx.crc, q, z, t) /\ Queue(q, z, t)
  BY <1>1 DEF Carried
<1>7. Stream' = Stream
  <2>1. rx.xbuff \in Seq(Symbol) /\ toRx \in Seq(Symbol)
    BY DEF TypeInv, RxRec, LinesOK
  <2>2. Append(rx.xbuff, Head(toRx)) \o Tail(toRx) = rx.xbuff \o toRx
    BY <1>1, <2>1
  <2> QED BY <1>1, <2>2 DEF Stream
<1>8. Len(q) > 0
  BY <1>1, <1>6 DEF Queue
<1>9. Queue(q, z, t)'
  BY <1>1, <1>2, <1>6, <1>8, QueueKept
<1>10. Layout(Stream, tx.crc, q, z, t)'
  BY <1>1, <1>6, <1>7, LayoutKept
<1> QED BY <1>1, <1>2, <1>4, <1>5, <1>9, <1>10 DEF Carried

(* No packet is cut short on a clean line.                                 *)
LEMMA CleanBodyTimeout ==
  ASSUME CleanNow, BodyTimeout
  PROVE  FALSE
<1> USE DEF CleanNow
<1>1. rx.pc = "body" /\ toRx = << >>
  BY DEF BodyTimeout
<1>2. PICK q \in Places, t \in Nat, z \in {EOT, CAN} :
           Layout(Stream, tx.crc, q, z, t) /\ Queue(q, z, t)
  BY <1>1 DEF Carried
<1>3. /\ Len(rx.xbuff) + Len(toRx) >= Width(tx.crc) /\ Len(rx.xbuff) < Width(rx.crc)
      /\ Width(rx.crc) <= Width(tx.crc) /\ rx.xbuff \in Seq(Symbol)
  BY <1>1, <1>2, InBuffer
<1>4. Len(toRx) = 0 /\ Len(rx.xbuff) \in Nat
  BY <1>1, <1>3
<1>5. Width(tx.crc) \in {5, 6} /\ Width(rx.crc) \in {5, 6}
  BY WidthIs DEF TypeInv, TxRec, RxRec
<1> QED BY <1>3, <1>4, <1>5

(* What a whole packet read says of the first one on the line.             *)
LEMMA CheckIs ==
  ASSUME CleanNow, Short, rx.pc = "check", NEW q \in Places, NEW t \in Nat, NEW z,
         Layout(Stream, tx.crc, q, z, t), Queue(q, z, t)
  PROVE  IF Mismatch THEN \A no \in Numbers : ~Whole(no)
         ELSE /\ rx.crc = tx.crc /\ Len(rx.xbuff) = Width(tx.crc)
              /\ q[1] + 1 \in Numbers /\ Whole(q[1] + 1)
              /\ \A no \in Numbers : Whole(no) => no = q[1] + 1
<1> USE DEF CleanNow
<1>1. /\ Len(rx.xbuff) = Width(rx.crc) /\ rx.xbuff \in Seq(Symbol)
      /\ \A p \in 1 .. Width(tx.crc) : p <= Len(rx.xbuff) => rx.xbuff[p] = Field(q[1], tx.crc)[p]
      /\ Width(rx.crc) <= Width(tx.crc)
  BY InBuffer
<1>2. /\ Width(tx.crc) \in {5, 6} /\ Width(rx.crc) \in {5, 6}
      /\ rx.crc \in BOOLEAN /\ tx.crc \in BOOLEAN /\ ~Fresh /\ (rx.crc => tx.crc)
  BY WidthIs DEF TypeInv, TxRec, RxRec, Settled
<1>3. PICK x \in Seq(Symbol), w \in {5, 6} : x = rx.xbuff /\ w = Width(rx.crc) /\ Len(x) = w
  BY <1>1, <1>2
<1>4. \A p \in 1 .. w : x[p] = Field(q[1], tx.crc)[p]
  BY <1>1, <1>2, <1>3
<1>5. PICK i \in 0 .. LastPacket : i = q[1]
  <2>1. Len(q) > 0
    BY DEF Queue
  <2> QED BY <2>1, PlacesNat, Sizes
<1>6. i \in Nat /\ (i + 1) % BYTE = i + 1 /\ i + 1 \in Numbers
  BY Sizes DEF Short, Numbers
<1>7. /\ x[2] = Byte(i + 1) /\ x[3] = Byte(BYTE - 1 - (i + 1)) /\ x[4] = <<"data", i>>
      /\ x[5] = IF tx.crc THEN <<"crc_high", i>> ELSE <<"sum", i>>
      /\ w = 6 => x[6] = <<"crc_low", i>>
  <2>1. /\ 2 \in 1 .. w /\ 3 \in 1 .. w /\ 4 \in 1 .. w /\ 5 \in 1 .. w /\ (w = 6 => 6 \in 1 .. w)
        /\ \A p \in 1 .. w : p \in 1 .. Width(tx.crc)
    BY <1>1, <1>2, <1>3
  <2>2. /\ Field(i, tx.crc)[2] = Byte(i + 1) /\ Field(i, tx.crc)[3] = Byte(BYTE - 1 - (i + 1))
        /\ Field(i, tx.crc)[4] = <<"data", i>>
        /\ Field(i, tx.crc)[5] = IF tx.crc THEN <<"crc_high", i>> ELSE <<"sum", i>>
        /\ w = 6 => Field(i, tx.crc)[6] = <<"crc_low", i>>
    BY <1>6, <2>1 DEF Field
  <2> QED BY <1>4, <1>5, <2>1, <2>2
<1>8. PICK y \in Seq(Symbol) : y = SubSeq(x, 4, w) /\ Len(y) = w - 3
                               /\ \A j \in 1 .. w - 3 : y[j] = x[3 + j]
  <2>1. 4 \in Int /\ w \in Int /\ \A j \in 4 .. w : x[j] \in Symbol
    BY <1>3, ElementOfSeq
  <2>2. /\ SubSeq(x, 4, w) \in Seq(Symbol) /\ Len(SubSeq(x, 4, w)) = w - 3
        /\ \A j \in 1 .. w - 3 : SubSeq(x, 4, w)[j] = x[3 + j]
    BY <1>3, <2>1
  <2> QED BY <2>2
<1>9. y[1] = x[4] /\ y[2] = x[5] /\ (w = 6 => y[3] = x[6])
  <2>1. 1 \in 1 .. w - 3 /\ 2 \in 1 .. w - 3 /\ (w = 6 => 3 \in 1 .. w - 3)
    OBVIOUS
  <2>2. y[1] = x[3 + 1] /\ y[2] = x[3 + 2] /\ (w = 6 => y[3] = x[3 + 3])
    BY <1>8, <2>1
  <2> QED BY <2>2
<1>10. \A j \in 0 .. LastPacket : j \in Nat
  BY Sizes
<1>11. CASE Mismatch
  <2>1. rx.crc = FALSE /\ tx.crc = TRUE /\ w = 5
    BY <1>2, <1>3, <1>11 DEF Mismatch, Width
  <2>2. ASSUME NEW j \in 0 .. LastPacket, y = <<<<"data", j>>>> \o Checksum(j, rx.crc)
        PROVE  FALSE
    <3>1. y = <<<<"data", j>>>> \o <<<<"sum", j>>>>
      BY <2>1, <2>2 DEF Checksum
    <3>2. y[2] = <<"sum", j>>
      BY <3>1
    <3> QED BY <1>7, <1>9, <2>1, <3>2
  <2>3. ~Checks(rx.xbuff, rx.crc)
    BY <1>3, <1>8, <2>2 DEF Checks
  <2> QED BY <1>11, <2>3 DEF Whole
<1>12. CASE ~Mismatch
  <2>1. rx.crc = tx.crc /\ w = IF rx.crc THEN 6 ELSE 5
    BY <1>2, <1>3, <1>12 DEF Mismatch, Width
  <2>2. y = <<<<"data", i>>>> \o Checksum(i, rx.crc)
    <3>1. /\ <<"data", i>> \in Symbol /\ <<"crc_high", i>> \in Symbol /\ <<"sum", i>> \in Symbol
          /\ <<"crc_low", i>> \in Symbol
      BY <1>6, PacketSymbols
    <3>2. CASE rx.crc
      <4>1. PICK v : v = <<<<"data", i>>>> \o <<<<"crc_high", i>>, <<"crc_low", i>>>>
        OBVIOUS
      <4>2. /\ v \in Seq(Symbol) /\ Len(v) = 3 /\ v[1] = <<"data", i>> /\ v[2] = <<"crc_high", i>>
            /\ v[3] = <<"crc_low", i>>
        BY <3>1, <4>1
      <4>3. /\ Len(y) = 3 /\ y[1] = v[1] /\ y[2] = v[2] /\ y[3] = v[3]
        BY <1>7, <1>8, <1>9, <2>1, <3>2, <4>2
      <4>4. \A j \in 1 .. Len(y) : y[j] = v[j]
        <5>1. \A j \in 1 .. Len(y) : j = 1 \/ j = 2 \/ j = 3
          BY <4>3
        <5> QED BY <4>3, <5>1
      <4>5. y = v
        BY <4>2, <4>3, <4>4, SeqEqual
      <4> QED BY <3>2, <4>1, <4>5 DEF Checksum
    <3>3. CASE ~rx.crc
      <4>1. PICK v : v = <<<<"data", i>>>> \o <<<<"sum", i>>>>
        OBVIOUS
      <4>2. v \in Seq(Symbol) /\ Len(v) = 2 /\ v[1] = <<"data", i>> /\ v[2] = <<"sum", i>>
        BY <3>1, <4>1
      <4>3. /\ Len(y) = 2 /\ y[1] = v[1] /\ y[2] = v[2]
        BY <1>7, <1>8, <1>9, <2>1, <3>3, <4>2
      <4>4. \A j \in 1 .. Len(y) : y[j] = v[j]
        <5>1. \A j \in 1 .. Len(y) : j = 1 \/ j = 2
          BY <4>3
        <5> QED BY <4>3, <5>1
      <4>5. y = v
        BY <4>2, <4>3, <4>4, SeqEqual
      <4> QED BY <3>3, <4>1, <4>5 DEF Checksum
    <3> QED BY <3>2, <3>3
  <2>3. Whole(i + 1)
    BY <1>3, <1>7, <1>8, <2>2 DEF Whole, WholeUnchecked, Checks
  <2>4. ASSUME NEW no \in Numbers, Whole(no)
        PROVE  no = i + 1
    <3>1. x[2] = Byte(no)
      BY <1>3, <2>4 DEF Whole, WholeUnchecked
    <3> QED BY <1>7, <3>1, SameByte
  <2> QED BY <1>1, <1>3, <1>5, <1>6, <1>12, <2>1, <2>3, <2>4
<1> QED BY <1>11, <1>12

(* The line without the packet taken.                                      *)
LEMMA Taken ==
  ASSUME CleanNow, rx.pc = "check", NEW q \in Places, NEW t \in Nat, NEW z,
         Layout(Stream, tx.crc, q, z, t), Len(q) > 0, Len(rx.xbuff) = Width(tx.crc),
         UNCHANGED <<tx, toRx>>, rx'.pc = "try"
  PROVE  Layout(Stream, tx.crc, Tail(q), z, t)'
<1>1. rx.xbuff \in Seq(Symbol) /\ toRx \in Seq(Symbol) /\ tx.crc \in BOOLEAN
  BY DEF CleanNow, TypeInv, RxRec, TxRec, LinesOK
<1>2. Stream = rx.xbuff \o toRx /\ Stream' = toRx
  BY DEF Stream
<1>3. q # << >>
  BY EmptySeq
<1>4. Layout(rx.xbuff \o toRx, tx.crc, q, z, t)
  BY <1>2
<1>5. Layout(toRx, tx.crc, Tail(q), z, t)
  BY <1>1, <1>3, <1>4, LayoutRest
<1> QED BY <1>2, <1>5, LayoutKept

LEMMA CleanAccept ==
  ASSUME CleanNow, Short, Accept, faults' = 0
  PROVE  rx'.pc # "done" /\ Talks' /\ Settled' /\ Closing' /\ Carried'
<1> USE DEF CleanNow
<1>1. /\ rx.pc = "check" /\ UNCHANGED <<tx, toRx>> /\ Whole(rx.packetno) /\ rx.packetno \in Numbers
      /\ rx'.packetno = rx.packetno + 1 /\ rx'.pc = "try" /\ rx'.retry = 0 /\ rx'.retrans = MAXRETRANS
      /\ rx'.trychar = rx.trychar /\ rx'.crc = rx.crc /\ Answer(<<ACK>>)
  <2>1. UNCHANGED tx /\ rx.pc = "check" /\ Whole(rx.packetno) /\ rx.packetno \in Numbers
    BY DEF Accept, Expected
  <2> QED BY <2>1, AcceptIs
<1>2. toTx' = toTx \o <<ACK>>
  BY <1>1, CleanAnswer, Signs DEF TypeInv
<1>3. PICK q \in Places, t \in Nat, z \in {EOT, CAN} :
           Layout(Stream, tx.crc, q, z, t) /\ Queue(q, z, t)
  BY <1>1 DEF Carried
<1>4. /\ ~Mismatch /\ Len(rx.xbuff) = Width(tx.crc) /\ rx.packetno = q[1] + 1
  BY <1>1, <1>3, CheckIs
<1>5. /\ Due \in Nat /\ rx.packetno = Due + 1 /\ Turn \in Nat /\ rx.retrans \in Nat /\ tx.retry \in Nat
  BY CleanNats
<1>6. Len(q) > 0 /\ q[1] = Due /\ 1 \in 1 .. Len(q)
  <2>1. Len(q) > 0 /\ Len(q) \in Nat
    BY <1>1, <1>3, PlacesNat DEF Queue
  <2>2. 1 \in 1 .. Len(q)
    BY <2>1
  <2>3. q[1] \in Nat
    BY <2>2, PlacesNat
  <2> QED BY <1>4, <1>5, <2>1, <2>2, <2>3
<1>7. Due' = Due + 1 /\ Turn' = Turn /\ ~Fresh /\ ~Fresh' /\ ~Mismatch'
  <2>1. ~Fresh
    BY <1>1 DEF Settled
  <2> QED BY <1>1, <1>4, <1>5, <2>1 DEF Due, Turn, Fresh, Mismatch
<1>8. Talks'
  <2>1. toTx \in Seq(Asked) /\ ACK \in Asked
    BY DEF Talks, Asked
  <2> QED BY <1>1, <1>2, <2>1, OnLine DEF Talks
<1>9. Settled'
  <2>1. rx'.trychar # Cee
    BY <1>1, <1>7, Distinct DEF Fresh
  <2> QED BY <1>1, <1>7, <2>1 DEF Settled
<1>10. Closing'
  BY <1>1 DEF Closing
<1>11. PICK s \in Places : /\ s = Tail(q) /\ Len(s) = Len(q) - 1
                           /\ \A j \in 1 .. Len(q) - 1 : s[j] = q[j + 1]
  BY <1>6, TailIs
<1>12. PICK k \in Nat : k = Len(q) /\ k > 0
  BY <1>6, PlacesNat
<1>13. Climbs(q) /\ Few(q, Due, rx.retrans)
  BY <1>3 DEF Queue
<1>14. Climbs(s) /\ Few(s, Due + 1, MAXRETRANS)
  BY <1>5, <1>6, <1>11, <1>13, TakeClimbs, TakeExpected
<1>15. \A n, m \in Nat : n >= q[k] /\ Ahead(q, Due, n, rx.retrans, m) => Ahead(s, Due + 1, n, MAXRETRANS, m)
  BY <1>5, <1>6, <1>11, <1>12, <1>13, TakeExpected
<1>16. k > 1 => s[k - 1] = q[k] /\ Len(s) = k - 1
  <2> SUFFICES ASSUME k > 1 PROVE s[k - 1] = q[k] /\ Len(s) = k - 1
    BY <1>11, <1>12
  <2>1. k - 1 \in 1 .. k - 1 /\ k - 1 + 1 = k
    OBVIOUS
  <2> QED BY <1>11, <1>12, <2>1
<1>17. q[k] \in Nat
  <2>1. k \in 1 .. Len(q)
    BY <1>12
  <2> QED BY <2>1, PlacesNat
<1>18. tx.pc = "send" => Follows(s, Due + 1, Turn) /\ Ahead(s, Due + 1, Turn, MAXRETRANS, tx.retry)
  <2> SUFFICES ASSUME tx.pc = "send"
               PROVE  Follows(s, Due + 1, Turn) /\ Ahead(s, Due + 1, Turn, MAXRETRANS, tx.retry)
    OBVIOUS
  <2>1. Follows(q, Due, Turn) /\ Ahead(q, Due, Turn, rx.retrans, tx.retry)
    BY <1>3 DEF Queue
  <2>2. Turn \in {q[k], q[k] + 1}
    BY <1>12, <2>1 DEF Follows
  <2>3. Follows(s, Due + 1, Turn)
    <3>1. CASE k > 1
      BY <1>12, <1>16, <2>2, <3>1 DEF Follows
    <3>2. CASE k = 1
      BY <1>5, <1>6, <1>11, <1>12, <2>2, <3>2 DEF Follows
    <3> QED BY <1>12, <3>1, <3>2
  <2> QED BY <1>5, <1>15, <1>17, <2>1, <2>2, <2>3
<1>19. tx.pc = "reply" => /\ IF Len(s) > 0 THEN Turn = s[Len(s)] ELSE Turn = Due + 1 - 1
                          /\ Ahead(s, Due + 1, Turn, MAXRETRANS, tx.retry + 1)
  <2> SUFFICES ASSUME tx.pc = "reply"
               PROVE  /\ IF Len(s) > 0 THEN Turn = s[Len(s)] ELSE Turn = Due + 1 - 1
                      /\ Ahead(s, Due + 1, Turn, MAXRETRANS, tx.retry + 1)
    OBVIOUS
  <2>1. Turn = q[k] /\ Ahead(q, Due, Turn, rx.retrans, tx.retry + 1)
    BY <1>3, <1>12 DEF Queue
  <2>2. tx.retry + 1 \in Nat
    BY <1>5
  <2>3. Ahead(s, Due + 1, Turn, MAXRETRANS, tx.retry + 1)
    BY <1>5, <1>15, <1>17, <2>1, <2>2
  <2>4. CASE k > 1
    BY <1>12, <1>16, <2>1, <2>3, <2>4
  <2>5. CASE k = 1
    BY <1>5, <1>6, <1>11, <1>12, <2>1, <2>3, <2>5
  <2> QED BY <1>12, <2>4, <2>5
<1>20. q[k] = LastPacket => IF Len(s) > 0 THEN s[Len(s)] = LastPacket ELSE Due + 1 = LastPacket + 1
  <2>1. CASE k > 1
    BY <1>12, <1>16, <2>1
  <2>2. CASE k = 1
    BY <1>5, <1>6, <1>11, <1>12, <2>2
  <2> QED BY <1>12, <2>1, <2>2
<1>21. Queue(s, z, t)'
  <2>1. Climbs(s)' /\ Few(s, Due, rx.retrans)'
    BY <1>1, <1>7, <1>14 DEF Climbs, Few
  <2>2. tx'.pc = "send" => Follows(s, Due, Turn)' /\ Ahead(s, Due, Turn, rx.retrans, tx.retry)'
    BY <1>1, <1>7, <1>18 DEF Follows, Ahead
  <2>3. tx'.pc = "reply" => /\ IF Len(s) > 0 THEN Turn' = s[Len(s)] ELSE Turn' = Due' - 1
                            /\ Ahead(s, Due, Turn, rx.retrans, tx.retry + 1)'
    <3> SUFFICES ASSUME tx'.pc = "reply"
                 PROVE  /\ IF Len(s) > 0 THEN Turn' = s[Len(s)] ELSE Turn' = Due' - 1
                        /\ Ahead(s, Due, Turn, rx.retrans, tx.retry + 1)'
      OBVIOUS
    <3>1. /\ IF Len(s) > 0 THEN Turn = s[Len(s)] ELSE Turn = Due + 1 - 1
          /\ Ahead(s, Due + 1, Turn, MAXRETRANS, tx.retry + 1)
      BY <1>1, <1>19
    <3>2. IF Len(s) > 0 THEN Turn' = s[Len(s)] ELSE Turn' = Due' - 1
      BY <1>5, <1>7, <3>1
    <3>3. Ahead(s, Due, Turn, rx.retrans, tx.retry + 1)'
      BY <1>1, <1>7, <3>1 DEF Ahead
    <3> QED BY <3>2, <3>3
  <2>4. /\ tx.pc \notin {"idle", "sync"}
        /\ t > 0 /\ z = CAN => tx.pc = "done" /\ tx.verdict # "end"
        /\ tx.pc \in {"send", "reply"} \/ (tx.pc = "giveUp" /\ tx.len <= srcsz) => t = 0
        /\ (t > 0 /\ z = EOT) \/ tx.pc \in {"eot", "ended"} => q[k] = LastPacket
        /\ tx.pc = "ended" \/ tx.verdict = "end" => t > 0 /\ z = EOT
    BY <1>3, <1>6, <1>12 DEF Queue
  <2>5. (t > 0 /\ z = EOT) \/ tx'.pc \in {"eot", "ended"} =>
           IF Len(s) > 0 THEN s[Len(s)] = LastPacket ELSE Due' = LastPacket + 1
    BY <1>1, <1>7, <1>20, <2>4
  <2> QED BY <1>1, <2>1, <2>2, <2>3, <2>4, <2>5 DEF Queue
<1>22. Layout(Stream, tx.crc, s, z, t)'
  BY <1>1, <1>3, <1>4, <1>6, <1>11, Taken
<1> QED BY <1>1, <1>8, <1>9, <1>10, <1>21, <1>22 DEF Carried

LEMMA CleanRepeat ==
  ASSUME CleanNow, Short, Repeat, faults' = 0
  PROVE  rx'.pc # "done" /\ Talks' /\ Settled' /\ Closing' /\ Carried'
<1> USE DEF CleanNow
<1>1. /\ rx.pc = "check" /\ UNCHANGED <<tx, toRx>>
      /\ \E no \in Numbers : Whole(no) /\ no = rx.packetno - 1
      /\ Acknowledge([rx EXCEPT !.retrans = @ - 1, !.xbuff = << >>])
  BY DEF Repeat, Repeated
<1>2. PICK q \in Places, t \in Nat, z \in {EOT, CAN} :
           Layout(Stream, tx.crc, q, z, t) /\ Queue(q, z, t)
  BY <1>1 DEF Carried
<1>3. /\ ~Mismatch /\ Len(rx.xbuff) = Width(tx.crc) /\ rx.packetno - 1 = q[1] + 1
  BY <1>1, <1>2, CheckIs
<1>4. /\ Due \in Nat /\ rx.packetno = Due + 1 /\ Turn \in Nat /\ rx.retrans \in Nat /\ tx.retry \in Nat
      /\ rx.retrans > 0
  BY <1>1, CleanNats DEF TypeInv, RxTidy
<1>5. Len(q) > 0 /\ q[1] = Due - 1
  <2>1. Len(q) > 0 /\ Len(q) \in Nat
    BY <1>1, <1>2, PlacesNat DEF Queue
  <2>2. 1 \in 1 .. Len(q)
    BY <2>1
  <2>3. q[1] \in Nat
    BY <2>2, PlacesNat
  <2> QED BY <1>3, <1>4, <2>1, <2>3
<1>6. PICK r \in Nat : r = rx.retrans - 1
  BY <1>4
<1>7. Climbs(q) /\ Few(q, Due, rx.retrans)
  BY <1>2 DEF Queue
<1>8. /\ rx.retrans > 1 /\ Few(Tail(q), Due, rx.retrans - 1)
      /\ \A n, m \in Nat : Ahead(q, Due, n, rx.retrans, m) => Ahead(Tail(q), Due, n, rx.retrans - 1, m)
  BY <1>4, <1>5, <1>7, TakeRepeated
<1>9. /\ rx'.packetno = rx.packetno /\ rx'.pc = "try" /\ rx'.retry = 0 /\ rx'.retrans = r
      /\ rx'.trychar = rx.trychar /\ rx'.crc = rx.crc /\ Answer(<<ACK>>)
  <2>1. PICK y : y = [rx EXCEPT !.retrans = r, !.xbuff = << >>]
    OBVIOUS
  <2>2. Acknowledge(y)
    BY <1>1, <1>6, <2>1
  <2>3. /\ y.retrans = r /\ y.packetno = rx.packetno /\ y.trychar = rx.trychar /\ y.crc = rx.crc
        /\ DOMAIN y = DOMAIN rx
    BY <2>1 DEF TypeInv, RxRec
  <2>4. ~(y.retrans <= 0)
    BY <1>4, <1>6, <1>8, <2>3
  <2>5. rx' = [y EXCEPT !.pc = "try", !.retry = 0] /\ Answer(<<ACK>>)
    BY <2>2, <2>4 DEF Acknowledge
  <2> QED BY <2>3, <2>5 DEF TypeInv, RxRec
<1>10. toTx' = toTx \o <<ACK>>
  BY <1>9, CleanAnswer, Signs DEF TypeInv
<1>11. Due' = Due /\ Turn' = Turn /\ ~Fresh /\ ~Fresh' /\ ~Mismatch'
  <2>1. ~Fresh
    BY <1>1 DEF Settled
  <2> QED BY <1>1, <1>3, <1>9, <2>1 DEF Due, Turn, Fresh, Mismatch
<1>12. Talks'
  <2>1. toTx \in Seq(Asked) /\ ACK \in Asked
    BY DEF Talks, Asked
  <2> QED BY <1>1, <1>10, <2>1, OnLine DEF Talks
<1>13. Settled'
  <2>1. rx'.trychar # Cee
    BY <1>9, <1>11, Distinct DEF Fresh
  <2> QED BY <1>1, <1>9, <1>11, <2>1 DEF Settled
<1>14. Closing'
  BY <1>9 DEF Closing
<1>15. PICK s \in Places : /\ s = Tail(q) /\ Len(s) = Len(q) - 1
                           /\ \A j \in 1 .. Len(q) - 1 : s[j] = q[j + 1]
  BY <1>5, TailIs
<1>16. PICK k \in Nat : k = Len(q) /\ k > 0
  BY <1>5, PlacesNat
<1>17. /\ Climbs(s) /\ Few(s, Due, r)
       /\ \A n, m \in Nat : Ahead(q, Due, n, rx.retrans, m) => Ahead(s, Due, n, r, m)
  BY <1>5, <1>6, <1>7, <1>8, <1>15, TakeClimbs
<1>18. k > 1 => s[k - 1] = q[k] /\ Len(s) = k - 1
  <2> SUFFICES ASSUME k > 1 PROVE s[k - 1] = q[k] /\ Len(s) = k - 1
    BY <1>15, <1>16
  <2>1. k - 1 \in 1 .. k - 1 /\ k - 1 + 1 = k
    OBVIOUS
  <2> QED BY <1>15, <1>16, <2>1
<1>19. tx.pc = "send" => Follows(s, Due, Turn) /\ Ahead(s, Due, Turn, r, tx.retry)
  <2> SUFFICES ASSUME tx.pc = "send" PROVE Follows(s, Due, Turn) /\ Ahead(s, Due, Turn, r, tx.retry)
    OBVIOUS
  <2>1. Follows(q, Due, Turn) /\ Ahead(q, Due, Turn, rx.retrans, tx.retry)
    BY <1>2 DEF Queue
  <2>2. Turn \in {q[k], q[k] + 1}
    BY <1>16, <2>1 DEF Follows
  <2>3. Follows(s, Due, Turn)
    <3>1. CASE k > 1
      BY <1>16, <1>18, <2>2, <3>1 DEF Follows
    <3>2. CASE k = 1
      BY <1>4, <1>5, <1>15, <1>16, <2>2, <3>2 DEF Follows
    <3> QED BY <1>16, <3>1, <3>2
  <2> QED BY <1>4, <1>17, <2>1, <2>3
<1>20. tx.pc = "reply" => /\ IF Len(s) > 0 THEN Turn = s[Len(s)] ELSE Turn = Due - 1
                          /\ Ahead(s, Due, Turn, r, tx.retry + 1)
  <2> SUFFICES ASSUME tx.pc = "reply"
               PROVE  /\ IF Len(s) > 0 THEN Turn = s[Len(s)] ELSE Turn = Due - 1
                      /\ Ahead(s, Due, Turn, r, tx.retry + 1)
    OBVIOUS
  <2>1. Turn = q[k] /\ Ahead(q, Due, Turn, rx.retrans, tx.retry + 1)
    BY <1>2, <1>16 DEF Queue
  <2>2. tx.retry + 1 \in Nat
    BY <1>4
  <2>3. Ahead(s, Due, Turn, r, tx.retry + 1)
    BY <1>4, <1>17, <2>1, <2>2
  <2>4. CASE k > 1
    BY <1>16, <1>18, <2>1, <2>3, <2>4
  <2>5. CASE k = 1
    BY <1>4, <1>5, <1>15, <1>16, <2>1, <2>3, <2>5
  <2> QED BY <1>16, <2>4, <2>5
<1>21. q[k] = LastPacket => IF Len(s) > 0 THEN s[Len(s)] = LastPacket ELSE Due = LastPacket + 1
  <2>1. CASE k > 1
    BY <1>16, <1>18, <2>1
  <2>2. CASE k = 1
    BY <1>4, <1>5, <1>15, <1>16, <2>2, Sizes
  <2> QED BY <1>16, <2>1, <2>2
<1>22. Queue(s, z, t)'
  <2>1. Climbs(s)' /\ Few(s, Due, rx.retrans)'
    BY <1>9, <1>11, <1>17 DEF Climbs, Few
  <2>2. tx'.pc = "send" => Follows(s, Due, Turn)' /\ Ahead(s, Due, Turn, rx.retrans, tx.retry)'
    BY <1>1, <1>9, <1>11, <1>19 DEF Follows, Ahead
  <2>3. tx'.pc = "reply" => /\ IF Len(s) > 0 THEN Turn' = s[Len(s)] ELSE Turn' = Due' - 1
                            /\ Ahead(s, Due, Turn, rx.retrans, tx.retry + 1)'
    BY <1>1, <1>9, <1>11, <1>20 DEF Ahead
  <2>4. /\ tx.pc \notin {"idle", "sync"}
        /\ t > 0 /\ z = CAN => tx.pc = "done" /\ tx.verdict # "end"
        /\ tx.pc \in {"send", "reply"} \/ (tx.pc = "giveUp" /\ tx.len <= srcsz) => t = 0
        /\ (t > 0 /\ z = EOT) \/ tx.pc \in {"eot", "ended"} => q[k] = LastPacket
        /\ tx.pc = "ended" \/ tx.verdict = "end" => t > 0 /\ z = EOT
    BY <1>2, <1>5, <1>16 DEF Queue
  <2>5. (t > 0 /\ z = EOT) \/ tx'.pc \in {"eot", "ended"} =>
           IF Len(s) > 0 THEN s[Len(s)] = LastPacket ELSE Due' = LastPacket + 1
    BY <1>1, <1>11, <1>21, <2>4
  <2> QED BY <1>1, <1>9, <2>1, <2>2, <2>3, <2>4, <2>5 DEF Queue
<1>23. Layout(Stream, tx.crc, s, z, t)'
  BY <1>1, <1>2, <1>3, <1>5, <1>9, <1>15, Taken
<1> QED BY <1>9, <1>12, <1>13, <1>14, <1>22, <1>23 DEF Carried

(* Only a check the transmitter does not send makes a packet rejected.     *)
LEMMA CleanReject ==
  ASSUME CleanNow, Short, Reject
  PROVE  rx'.pc # "done" /\ Talks' /\ Settled' /\ Closing' /\ Carried'
<1> USE DEF CleanNow
<1>1. /\ rx.pc = "check" /\ UNCHANGED <<tx, toRx, toTx>>
      /\ \A no \in Numbers : Whole(no) => no # rx.packetno /\ no # rx.packetno - 1
      /\ rx'.pc = "flush" /\ rx'.then = "reject" /\ rx'.crc = rx.crc /\ rx'.trychar = rx.trychar
      /\ rx'.retry = rx.retry /\ rx'.retrans = rx.retrans /\ rx'.packetno = rx.packetno
  BY DEF Reject, Expected, Repeated, FlushThen, TypeInv, RxRec
<1>2. PICK q \in Places, t \in Nat, z \in {EOT, CAN} :
           Layout(Stream, tx.crc, q, z, t) /\ Queue(q, z, t)
  BY <1>1 DEF Carried
<1>3. Mismatch
  <2> SUFFICES ASSUME ~Mismatch PROVE FALSE
    OBVIOUS
  <2>1. q[1] + 1 \in Numbers /\ Whole(q[1] + 1)
    BY <1>1, <1>2, CheckIs
  <2>2. Due \in Nat /\ rx.packetno = Due + 1
    BY CleanNats
  <2>3. q[1] \in {Due - 1, Due}
    BY <1>1, <1>2 DEF Queue, Few
  <2> QED BY <1>1, <2>1, <2>2, <2>3
<1>4. Turn' = Turn /\ Due' = Due /\ Fresh' = Fresh /\ Mismatch' = Mismatch /\ Talks'
  BY <1>1 DEF Turn, Due, Fresh, Mismatch, Talks
<1>5. Settled'
  BY <1>1, <1>4 DEF Settled
<1>6. Closing'
  BY <1>1, <1>3, <1>4 DEF Closing
<1> QED BY <1>1, <1>4, <1>5, <1>6 DEF Carried

LEMMA CleanFlush ==
  ASSUME CleanNow, Flush
  PROVE  rx'.pc # "done" /\ Talks' /\ Settled' /\ Closing' /\ Carried'
<1> USE DEF CleanNow
<1>1. rx.pc = "flush" /\ UNCHANGED <<rx, tx, toTx>> /\ toRx' = << >>
  BY DEF Flush
<1>2. /\ Turn' = Turn /\ Due' = Due /\ Fresh' = Fresh /\ Mismatch' = Mismatch /\ Talks' /\ CannotEnd' = CannotEnd
      /\ Only(toRx', CAN)
  BY <1>1 DEF Turn, Due, Fresh, Mismatch, Talks, CannotEnd, Only
<1>3. Settled'
  BY <1>1, <1>2 DEF Settled
<1>4. Closing'
  BY <1>1, <1>2 DEF Closing
<1> QED BY <1>1, <1>2, <1>3, <1>4 DEF Carried

LEMMA CleanFlushed ==
  ASSUME CleanNow, Flushed, faults' = 0
  PROVE  /\ toTx' \in Seq(Asked \cup {CAN})
         /\ IF rx'.pc = "done" THEN rx'.status = "end" \/ CannotEnd'
                               ELSE Talks' /\ Settled' /\ Closing' /\ Carried'
<1> USE DEF CleanNow
<1>1. rx.pc = "flush" /\ toRx = << >> /\ UNCHANGED <<tx, toRx>> /\ LinesOK
  BY DEF Flushed, TypeInv
<1>2. toTx \in Seq(Asked) /\ toTx \in Seq(Asked \cup {CAN})
  <2>1. Asked \subseteq Asked \cup {CAN}
    OBVIOUS
  <2> QED BY <2>1, SeqMonotonic DEF Talks
<1>3. CASE rx.then = "reject"
  <2>1. /\ rx'.pc = "try" /\ rx'.then = "try" /\ rx'.retry = 0 /\ rx'.crc = rx.crc
        /\ rx'.trychar = rx.trychar /\ rx'.retrans = rx.retrans /\ rx'.packetno = rx.packetno
        /\ Answer(<<NAK>>)
    BY <1>3 DEF Flushed, TypeInv, RxRec
  <2>2. toTx' = toTx \o <<NAK>>
    BY <1>1, <2>1, CleanAnswer, Signs
  <2>3. Mismatch
    BY <1>1, <1>3 DEF Closing
  <2>4. Due = 0 /\ Turn = 0 /\ Lacks(toTx, ACK) /\ ~Fresh /\ tx.pc \notin {"idle", "sync"}
    BY <2>3 DEF Settled, Mismatch
  <2>5. NAK \in Asked /\ NAK # ACK
    BY Distinct DEF Asked
  <2>6. toTx' \in Seq(Asked) /\ Lacks(toTx', ACK) /\ toTx' \in Seq(Asked \cup {CAN})
    BY <1>2, <2>2, <2>4, <2>5, OnLine
  <2>7. Turn' = Turn /\ Due' = Due /\ Fresh' = Fresh /\ Mismatch' = Mismatch /\ Talks'
    BY <1>1, <2>1, <2>6 DEF Turn, Due, Fresh, Mismatch, Talks
  <2>8. rx.trychar # Cee
    BY <2>4, Distinct DEF Fresh
  <2>9. Settled'
    BY <1>1, <2>1, <2>4, <2>6, <2>7, <2>8 DEF Settled
  <2>10. Closing'
    BY <2>1 DEF Closing
  <2>11. Stream' = << >>
    BY <1>1, <2>1 DEF Stream
  <2>12. Layout(Stream, tx.crc, << >>, EOT, 0)'
    <3>1. tx.crc \in BOOLEAN
      BY DEF TypeInv, TxRec
    <3>2. Layout(<< >>, tx.crc, << >>, EOT, 0)
      BY <3>1, LayoutEmpty
    <3> QED BY <1>1, <2>11, <3>2, LayoutKept
  <2>13. /\ tx.len <= srcsz /\ rx.retrans \in Nat /\ rx.retrans > 0 /\ LastPacket \in Nat
         /\ MAXRETRANS \in Nat /\ MAXRETRANS > 0 /\ tx.retry \in Nat
    BY <1>1, <1>3, <2>4, CleanNats, Sizes DEF TypeInv, RxTidy
  <2>14. tx.pc \notin {"eot", "ended"} /\ tx.verdict # "end"
    <3>1. tx.len \in Nat
      BY Chunks DEF TypeInv
    <3> QED BY <2>13, <3>1, Sizes DEF TypeInv, TxTidy
  <2>15. Queue(<< >>, EOT, 0)'
    <3>1. Climbs(<< >>)' /\ Few(<< >>, Due, rx.retrans)'
      BY <2>1, <2>13 DEF Climbs, Few
    <3>2. Follows(<< >>, Due, Turn)'
      BY <2>4, <2>7 DEF Follows
    <3>3. Ahead(<< >>, Due, Turn, rx.retrans, tx.retry)' /\ Ahead(<< >>, Due, Turn, rx.retrans, tx.retry + 1)'
      BY <1>1, <2>4, <2>7, <2>13 DEF Ahead
    <3> QED BY <1>1, <2>1, <2>3, <2>4, <2>7, <2>14, <3>1, <3>2, <3>3 DEF Queue
  <2>16. << >> \in Places
    BY DEF Places
  <2>17. Carried'
    BY <2>12, <2>15, <2>16 DEF Carried
  <2> QED BY <2>1, <2>6, <2>7, <2>9, <2>10, <2>17
<1>4. CASE rx.then # "reject"
  <2>1. /\ rx'.pc = "done" /\ rx'.status = rx.then
        /\ Answer(IF rx.then \in {"end", "cancelled"} THEN <<ACK>> ELSE <<CAN, CAN, CAN>>)
    BY <1>4 DEF Flushed, TypeInv, RxRec
  <2>2. ACK \in Asked \cup {CAN} /\ CAN \in Asked \cup {CAN} /\ CAN # ACK
    BY Distinct DEF Asked
  <2>3. CASE rx.then \in {"end", "cancelled"}
    <3>1. toTx' = toTx \o <<ACK>>
      BY <1>1, <2>1, <2>3, CleanAnswer, Signs
    <3>2. toTx' \in Seq(Asked \cup {CAN})
      BY <1>2, <2>2, <3>1, OnLine
    <3>3. rx'.status = "end" \/ CannotEnd'
      BY <1>1, <2>1, <2>3 DEF Closing, CannotEnd
    <3> QED BY <2>1, <3>2, <3>3
  <2>4. CASE rx.then \notin {"end", "cancelled"}
    <3>1. toTx' = toTx \o <<CAN, CAN, CAN>>
      BY <1>1, <2>1, <2>4, CleanAnswer, Signs
    <3>2. toTx' = ((toTx \o <<CAN>>) \o <<CAN>>) \o <<CAN>>
      <4>1. toTx \in Seq(Symbol) /\ CAN \in Symbol
        BY <1>1, Controls DEF LinesOK
      <4>2. toTx \o <<CAN, CAN, CAN>> = ((toTx \o <<CAN>>) \o <<CAN>>) \o <<CAN>>
        BY <4>1
      <4> QED BY <3>1, <4>2
    <3>3. toTx' \in Seq(Asked \cup {CAN}) /\ (Lacks(toTx, ACK) => Lacks(toTx', ACK))
      <4>1. PICK u : u = toTx \o <<CAN>>
        OBVIOUS
      <4>2. u \in Seq(Asked \cup {CAN}) /\ (Lacks(toTx, ACK) => Lacks(u, ACK))
        BY <1>2, <2>2, <4>1, OnLine
      <4>3. PICK v : v = u \o <<CAN>>
        OBVIOUS
      <4>4. v \in Seq(Asked \cup {CAN}) /\ (Lacks(u, ACK) => Lacks(v, ACK))
        BY <2>2, <4>2, <4>3, OnLine
      <4>5. v \o <<CAN>> \in Seq(Asked \cup {CAN}) /\ (Lacks(v, ACK) => Lacks(v \o <<CAN>>, ACK))
        BY <2>2, <4>4, OnLine
      <4> QED BY <3>2, <4>1, <4>2, <4>3, <4>4, <4>5
    <3>4. rx.then = "sync"
      BY <1>1, <1>4, <2>4 DEF Closing, TypeInv, RxTidy, Outcomes
    <3>5. CannotEnd'
      BY <1>1, <3>3, <3>4 DEF Closing, CannotEnd
    <3> QED BY <2>1, <3>3, <3>5
  <2> QED BY <2>3, <2>4
<1> QED BY <1>3, <1>4

-----------------------------------------------------------------------------
(* The transmitter on a clean line, while the receiver is at work.         *)

LEMMA Stays ==
  ASSUME UNCHANGED rx
  PROVE  /\ Due' = Due /\ Fresh' = Fresh
         /\ tx'.crc = tx.crc => Mismatch' = Mismatch
         /\ tx'.len = tx.len => Turn' = Turn
  BY DEF Due, Fresh, Mismatch, Turn

(* What a byte heard means, and what the line still carries.               *)
LEMMA Heard ==
  ASSUME NEW R \in SUBSET (Asked \cup {CAN}), toTx \in Seq(R), Hear
  PROVE  /\ Head(toTx) \in R /\ Readings(Head(toTx)) = {Head(toTx)} /\ toTx' \in Seq(R)
         /\ \A y : Lacks(toTx, y) => Lacks(toTx', y) /\ Head(toTx) # y
         /\ \A y : Only(toTx, y) => Only(toTx', y) /\ Head(toTx) = y
<1>1. toTx # << >> /\ toTx' = Tail(toTx)
  BY DEF Hear
<1>2. Head(toTx) \in {ACK, NAK, Cee, CAN}
  BY <1>1, OffLine DEF Asked
<1>3. Readings(Head(toTx)) = {Head(toTx)}
  BY <1>2, Unmistaken
<1> QED BY <1>1, <1>3, OffLine

LEMMA CleanStart ==
  ASSUME CleanNow, rx.pc # "done", Start
  PROVE  Talks' /\ Settled' /\ Closing' /\ Carried'
<1> USE DEF CleanNow
<1>1. /\ tx.pc = "idle" /\ UNCHANGED <<rx, toRx, toTx>>
      /\ tx'.pc = "sync" /\ tx'.retry = tx.retry /\ tx'.crc = tx.crc /\ tx'.len = tx.len
      /\ tx'.verdict = tx.verdict
  BY DEF Start, TypeInv, TxRec
<1>2. /\ Due' = Due /\ Fresh' = Fresh /\ Mismatch' = Mismatch /\ Turn' = Turn
      /\ CannotEnd => CannotEnd'
  BY <1>1, Stays DEF CannotEnd
<1>3. Talks'
  BY <1>1 DEF Talks
<1>4. Settled'
  BY <1>1, <1>2 DEF Settled
<1>5. Closing'
  BY <1>1, <1>2 DEF Closing
<1>6. Carried'
  <2> SUFFICES ASSUME rx.pc # "flush" PROVE Carried'
    BY <1>1 DEF Carried
  <2>1. PICK q \in Places, t \in Nat, z \in {EOT, CAN} :
           Layout(Stream, tx.crc, q, z, t) /\ Queue(q, z, t)
    BY DEF Carried
  <2>2. Stream' = Stream
    BY <1>1 DEF Stream
  <2>3. Layout(Stream, tx.crc, q, z, t)'
    BY <1>1, <2>1, <2>2 DEF Layout
  <2>4. Queue(q, z, t)'
    BY <1>1, <1>2, <2>1, Distinct DEF Queue, Climbs, Few
  <2> QED BY <2>3, <2>4 DEF Carried
<1> QED BY <1>3, <1>4, <1>5, <1>6

LEMMA CleanFirstSign ==
  ASSUME CleanNow, rx.pc # "done", FirstSign
  PROVE  Talks' /\ Settled' /\ Closing' /\ Carried'
<1> USE DEF CleanNow
<1>1. tx.pc = "sync" /\ UNCHANGED <<rx, toRx>> /\ Hear /\ toTx \in Seq(Asked)
  BY DEF FirstSign, Talks
<1>2. Fresh /\ Due = 0 /\ Turn = 0 /\ Lacks(toTx, ACK) /\ tx.len = 0
  BY <1>1 DEF Settled, TypeInv, TxTidy
<1>3. Asked \in SUBSET (Asked \cup {CAN})
  OBVIOUS
<1>4. /\ Head(toTx) \in Asked /\ Readings(Head(toTx)) = {Head(toTx)} /\ toTx' \in Seq(Asked)
      /\ \A y : Lacks(toTx, y) => Lacks(toTx', y) /\ Head(toTx) # y
      /\ \A y : Only(toTx, y) => Only(toTx', y) /\ Head(toTx) = y
  BY <1>1, <1>3, Heard
<1>5. Head(toTx) \in {Cee, NAK}
  BY <1>2, <1>4 DEF Asked
<1>6. PICK b \in BOOLEAN : b = (Head(toTx) = Cee)
  OBVIOUS
<1>7. tx' = [tx EXCEPT !.pc = "send", !.retry = 0, !.crc = b]
  <2>1. CAN \notin {Cee, NAK}
    BY Distinct
  <2> QED BY <1>4, <1>5, <1>6, <2>1 DEF FirstSign
<1>8. /\ tx'.pc = "send" /\ tx'.retry = 0 /\ tx'.crc = b /\ tx'.len = tx.len
      /\ tx'.verdict = tx.verdict /\ tx.verdict = "sending"
  BY <1>1, <1>7 DEF TypeInv, TxRec, TxTidy
<1>9. Due' = Due /\ Fresh' = Fresh /\ Turn' = Turn /\ ~Mismatch /\ ~Mismatch' /\ CannotEnd'
  BY <1>1, <1>2, <1>4, <1>8, Stays DEF Mismatch, CannotEnd
<1>10. Talks'
  BY <1>4, <1>8 DEF Talks
<1>11. rx.trychar = Cee => b
  BY <1>4, <1>6 DEF Settled
<1>12. Settled'
  BY <1>1, <1>2, <1>4, <1>8, <1>9, <1>11 DEF Settled
<1>13. Closing'
  BY <1>1, <1>8, <1>9 DEF Closing
<1>14. Carried'
  <2> SUFFICES ASSUME rx.pc # "flush" PROVE Carried'
    BY <1>1 DEF Carried
  <2>1. PICK q \in Places, t \in Nat, z \in {EOT, CAN} :
           Layout(Stream, tx.crc, q, z, t) /\ Queue(q, z, t)
    BY DEF Carried
  <2>2. Len(q) = 0 /\ t = 0 /\ rx.pc \notin {"body", "check", "can"}
    BY <1>1, <1>2, <2>1 DEF Queue, Settled
  <2>3. Stream = toRx /\ Stream' = toRx /\ toRx \in Seq(Symbol) /\ tx.crc \in BOOLEAN
    BY <1>1, <2>2 DEF Stream, TypeInv, LinesOK, TxRec
  <2>4. toRx = << >>
    <3>1. Len(toRx) = 0
      BY <2>1, <2>2, <2>3, WidthIs DEF Layout
    <3> QED BY <2>3, <3>1, EmptySeq
  <2>5. Layout(Stream, tx.crc, << >>, EOT, 0)'
    <3>1. Layout(<< >>, b, << >>, EOT, 0)
      BY LayoutEmpty
    <3> QED BY <1>8, <2>3, <2>4, <3>1 DEF Layout
  <2>6. rx.retrans \in Nat /\ rx.retrans > 0 /\ MAXRETRANS \in Nat /\ MAXRETRANS > 0
    BY CleanNats, Sizes DEF TypeInv, RxTidy
  <2>7. Queue(<< >>, EOT, 0)'
    <3>1. Climbs(<< >>)' /\ Few(<< >>, Due, rx.retrans)'
      BY <1>1, <2>6 DEF Climbs, Few
    <3>2. Follows(<< >>, Due, Turn)' /\ Ahead(<< >>, Due, Turn, rx.retrans, tx.retry)'
      BY <1>1, <1>2, <1>8, <1>9, <2>6 DEF Follows, Ahead
    <3> QED BY <1>1, <1>8, <2>2, <3>1, <3>2 DEF Queue
  <2>8. << >> \in Places
    BY DEF Places
  <2> QED BY <2>5, <2>7, <2>8 DEF Carried
<1> QED BY <1>10, <1>12, <1>13, <1>14

(* What is sent comes after what the receiver has begun to read.           *)
LEMMA StreamGrows ==
  ASSUME TypeInv, UNCHANGED rx, NEW s \in Seq(Symbol), toRx' = toRx \o s
  PROVE  Stream \in Seq(Symbol) /\ Stream' = Stream \o s
<1>1. rx.xbuff \in Seq(Symbol) /\ toRx \in Seq(Symbol)
  BY DEF TypeInv, RxRec, LinesOK
<1>2. CASE rx.pc \in {"body", "check"}
  <2>1. PICK x \in Seq(Symbol), y \in Seq(Symbol) : x = rx.xbuff /\ y = toRx
    BY <1>1
  <2>2. x \o (y \o s) = (x \o y) \o s /\ x \o y \in Seq(Symbol)
    OBVIOUS
  <2> QED BY <1>2, <2>1, <2>2 DEF Stream
<1>3. CASE rx.pc \notin {"body", "check"}
  BY <1>1, <1>3 DEF Stream
<1> QED BY <1>2, <1>3

LEMMA CleanSendPacket ==
  ASSUME CleanNow, rx.pc # "done", SendPacket, faults' = 0
  PROVE  Talks' /\ Settled' /\ Closing' /\ Carried'
<1> USE DEF CleanNow
<1>1. /\ tx.pc = "send" /\ tx.len <= srcsz /\ UNCHANGED <<rx, toTx>>
      /\ tx'.pc = "reply" /\ tx'.retry = tx.retry /\ tx'.crc = tx.crc /\ tx'.len = tx.len
      /\ tx'.verdict = tx.verdict /\ tx.verdict = "sending" /\ Tell(Packet(Turn, tx.crc))
  BY DEF SendPacket, TypeInv, TxRec, TxTidy, Turn
<1>2. Turn \in 0 .. LastPacket /\ Due \in Nat /\ rx.retrans \in Nat /\ tx.retry \in Nat /\ tx.crc \in BOOLEAN
  <2>1. Turn \in Nat /\ Turn <= LastPacket
    BY <1>1, CleanNats
  <2> QED BY <2>1, CleanNats, Sizes
<1>3. PICK s \in Seq(Symbol) : s = Packet(Turn, tx.crc)
  <2>1. Turn \in Nat
    BY <1>2, Sizes
  <2> QED BY <1>2, <2>1, PacketIs
<1>4. toRx' = toRx \o s
  BY <1>1, <1>3, CleanTell DEF TypeInv
<1>5. /\ Due' = Due /\ Fresh' = Fresh /\ Mismatch' = Mismatch /\ Turn' = Turn
      /\ CannotEnd => CannotEnd'
  BY <1>1, Stays DEF CannotEnd
<1>6. Talks'
  BY <1>1 DEF Talks
<1>7. Settled'
  BY <1>1, <1>5 DEF Settled
<1>8. Closing'
  BY <1>1, <1>5 DEF Closing
<1>9. Carried'
  <2> SUFFICES ASSUME rx.pc # "flush" PROVE Carried'
    BY <1>1 DEF Carried
  <2>1. PICK q \in Places, t \in Nat, z \in {EOT, CAN} :
           Layout(Stream, tx.crc, q, z, t) /\ Queue(q, z, t)
    BY DEF Carried
  <2>2. /\ t = 0 /\ rx.pc # "can" /\ Climbs(q) /\ Few(q, Due, rx.retrans)
        /\ Follows(q, Due, Turn) /\ Ahead(q, Due, Turn, rx.retrans, tx.retry)
    BY <1>1, <2>1 DEF Queue
  <2>3. rx.retrans > 0 /\ tx.retry < MAXRETRANS
    BY <1>1 DEF TypeInv, RxTidy, TxTidy
  <2>4. PICK p \in Places : p = Append(q, Turn) /\ Len(p) = Len(q) + 1 /\ p[Len(q) + 1] = Turn
    BY <1>2, AppendIs
  <2>5. Climbs(p) /\ Few(p, Due, rx.retrans) /\ Ahead(p, Due, Turn, rx.retrans, tx.retry + 1)
    BY <1>2, <2>2, <2>3, <2>4, SendOne
  <2>6. Stream \in Seq(Symbol) /\ Stream' = Stream \o s
    BY <1>1, <1>4, StreamGrows
  <2>7. Layout(Stream, tx.crc, p, EOT, 0)'
    <3>1. Layout(Stream, tx.crc, q, z, 0)
      BY <2>1, <2>2
    <3>2. Layout(Stream \o Packet(Turn, tx.crc), tx.crc, Append(q, Turn), EOT, 0)
      BY <1>2, <2>6, <3>1, LayoutPacket
    <3> QED BY <1>1, <1>3, <2>4, <2>6, <3>2 DEF Layout
  <2>8. Len(p) > 0 /\ p[Len(p)] = Turn
    BY <2>4, PlacesNat
  <2>9. Queue(p, EOT, 0)'
    <3>1. Climbs(p)' /\ Few(p, Due, rx.retrans)' /\ Ahead(p, Due, Turn, rx.retrans, tx.retry + 1)'
      BY <1>1, <1>5, <2>5 DEF Climbs, Few, Ahead
    <3> QED BY <1>1, <1>5, <2>2, <2>8, <3>1 DEF Queue
  <2> QED BY <2>7, <2>9 DEF Carried
<1> QED BY <1>6, <1>7, <1>8, <1>9

LEMMA CleanNoMorePackets ==
  ASSUME CleanNow, rx.pc # "done", NoMorePackets
  PROVE  Talks' /\ Settled' /\ Closing' /\ Carried'
<1> USE DEF CleanNow
<1>1. /\ tx.pc = "send" /\ ~(tx.len <= srcsz) /\ UNCHANGED <<rx, toRx, toTx>>
      /\ tx'.pc = "eot" /\ tx'.retry = 0 /\ tx'.crc = tx.crc /\ tx'.len = tx.len
      /\ tx'.verdict = tx.verdict /\ tx.verdict = "sending"
  <2>1. tx.len \in Nat /\ srcsz \in Nat
    BY Chunks, Sizes DEF TypeInv
  <2> QED BY <2>1 DEF NoMorePackets, TypeInv, TxRec, TxTidy
<1>2. Turn = LastPacket + 1 /\ Due \in Nat /\ Due <= LastPacket + 1
  BY <1>1, CleanNats, Sizes
<1>3. /\ Due' = Due /\ Fresh' = Fresh /\ Mismatch' = Mismatch /\ Turn' = Turn
      /\ CannotEnd => CannotEnd'
  BY <1>1, Stays DEF CannotEnd
<1>4. Talks'
  BY <1>1 DEF Talks
<1>5. Settled'
  BY <1>1, <1>3 DEF Settled
<1>6. Closing'
  BY <1>1, <1>3 DEF Closing
<1>7. Carried'
  <2> SUFFICES ASSUME rx.pc # "flush" PROVE Carried'
    BY <1>1 DEF Carried
  <2>1. PICK q \in Places, t \in Nat, z \in {EOT, CAN} :
           Layout(Stream, tx.crc, q, z, t) /\ Queue(q, z, t)
    BY DEF Carried
  <2>2. t = 0 /\ rx.pc # "can" /\ Follows(q, Due, Turn)
    BY <1>1, <2>1 DEF Queue
  <2>3. IF Len(q) > 0 THEN q[Len(q)] = LastPacket ELSE Due = LastPacket + 1
    <3>1. CASE Len(q) > 0
      <4>1. Len(q) \in 1 .. Len(q)
        BY <3>1, PlacesNat
      <4>2. q[Len(q)] \in Nat /\ q[Len(q)] <= LastPacket
        BY <4>1, PlacesNat
      <4> QED BY <1>2, <2>2, <3>1, <4>2, Sizes DEF Follows
    <3>2. CASE ~(Len(q) > 0)
      BY <1>2, <2>2, <3>2, Sizes DEF Follows
    <3> QED BY <3>1, <3>2
  <2>4. Layout(Stream, tx.crc, q, z, t)'
    <3>1. Stream' = Stream
      BY <1>1 DEF Stream
    <3> QED BY <1>1, <2>1, <3>1 DEF Layout
  <2>5. Queue(q, z, t)'
    BY <1>1, <1>3, <2>1, <2>2, <2>3 DEF Queue, Climbs, Few
  <2> QED BY <2>4, <2>5 DEF Carried
<1> QED BY <1>4, <1>5, <1>6, <1>7

(* An attempt more, whatever was heard instead of an acknowledgement.      *)
LEMMA CleanRetry ==
  ASSUME CleanNow, rx.pc # "done", Listening, tx' = Retry, UNCHANGED <<rx, toRx>>,
         toTx' \in Seq(Asked), \A y : Lacks(toTx, y) => Lacks(toTx', y),
         \A y : Only(toTx, y) => Only(toTx', y)
  PROVE  Talks' /\ Settled' /\ Closing' /\ Carried'
<1> USE DEF CleanNow
<1>1. /\ tx'.len = tx.len /\ tx'.crc = tx.crc /\ tx'.verdict = tx.verdict
      /\ tx'.retry = tx.retry + 1 /\ tx.verdict = "sending"
      /\ \/ tx.pc = "sync" /\ tx'.pc = "sync"
         \/ tx.pc = "reply" /\ tx'.pc = "send"
         \/ tx.pc = "ended" /\ tx'.pc = "eot"
         \/ tx.pc \in {"sync", "reply", "ended"} /\ tx'.pc = "giveUp"
  <2>1. tx.pc \in {"sync", "reply", "ended"} /\ tx.verdict = "sending"
    BY DEF Listening, Talks, TypeInv, TxTidy
  <2> QED BY <2>1, RetryIs DEF TypeInv
<1>2. /\ Due' = Due /\ Fresh' = Fresh /\ Mismatch' = Mismatch /\ Turn' = Turn
      /\ CannotEnd => CannotEnd'
  BY <1>1, Stays DEF CannotEnd
<1>3. Talks'
  BY <1>1 DEF Talks
<1>4. Settled'
  BY <1>1, <1>2 DEF Settled
<1>5. Closing'
  BY <1>1, <1>2 DEF Closing
<1>6. Carried'
  <2> SUFFICES ASSUME rx.pc # "flush" PROVE Carried'
    BY DEF Carried
  <2>1. PICK q \in Places, t \in Nat, z \in {EOT, CAN} :
           Layout(Stream, tx.crc, q, z, t) /\ Queue(q, z, t)
    BY DEF Carried
  <2>2. Layout(Stream, tx.crc, q, z, t)'
    <3>1. Stream' = Stream
      BY DEF Stream
    <3> QED BY <1>1, <2>1, <3>1 DEF Layout
  <2>3. Climbs(q)' /\ Few(q, Due, rx.retrans)'
    BY <1>2, <2>1 DEF Queue, Climbs, Few
  <2>4. CASE tx.pc = "sync"
    <3>1. Len(q) = 0 /\ t = 0 /\ rx.pc \notin {"body", "check", "can"}
      BY <2>1, <2>4 DEF Queue
    <3> QED BY <1>1, <1>2, <2>2, <2>3, <2>4, <3>1 DEF Queue, Carried
  <2>5. CASE tx.pc = "reply"
    <3>1. /\ rx.pc \in {"body", "check"} => Len(q) > 0
          /\ rx.pc # "can" /\ t = 0 /\ Ahead(q, Due, Turn, rx.retrans, tx.retry + 1)
          /\ IF Len(q) > 0 THEN Turn = q[Len(q)] ELSE Turn = Due - 1 \/ Mismatch
      <4>1. ~(t > 0)
        BY <2>1, <2>5 DEF Queue
      <4>2. t = 0
        BY <4>1
      <4> QED BY <2>1, <2>5, <4>2 DEF Queue
    <3>2. Follows(q, Due, Turn)
      <4>1. Mismatch => Due = 0 /\ Turn = 0
        BY DEF Settled
      <4> QED BY <3>1, <4>1 DEF Follows
    <3>3. Follows(q, Due, Turn)' /\ Ahead(q, Due, Turn, rx.retrans, tx.retry)'
      BY <1>1, <1>2, <3>1, <3>2 DEF Follows, Ahead
    <3> QED BY <1>1, <1>2, <2>2, <2>3, <2>5, <3>1, <3>3 DEF Queue, Carried
  <2>6. CASE tx.pc = "ended"
    <3>1. ~(tx.len <= srcsz)
      <4>1. tx.len \in Nat /\ srcsz \in Nat /\ tx.len > srcsz
        BY <2>6, Chunks, Sizes DEF TypeInv, TxTidy
      <4> QED BY <4>1
    <3>2. /\ rx.pc \in {"body", "check"} => Len(q) > 0
          /\ rx.pc # "can" /\ ~(t > 0 /\ z = CAN)
          /\ IF Len(q) > 0 THEN q[Len(q)] = LastPacket ELSE Due = LastPacket + 1
      BY <2>1, <2>6 DEF Queue
    <3> QED BY <1>1, <1>2, <2>2, <2>3, <2>6, <3>1, <3>2 DEF Queue, Carried
  <2> QED BY <1>1, <2>4, <2>5, <2>6
<1> QED BY <1>3, <1>4, <1>5, <1>6

LEMMA CleanPacketReply ==
  ASSUME CleanNow, rx.pc # "done", PacketReply
  PROVE  Talks' /\ Settled' /\ Closing' /\ Carried'
<1> USE DEF CleanNow
<1>1. tx.pc = "reply" /\ UNCHANGED <<rx, toRx>> /\ Hear /\ toTx \in Seq(Asked)
  BY DEF PacketReply, Talks
<1>2. Asked \in SUBSET (Asked \cup {CAN})
  OBVIOUS
<1>3. /\ Head(toTx) \in Asked /\ Readings(Head(toTx)) = {Head(toTx)} /\ toTx' \in Seq(Asked)
      /\ \A y : Lacks(toTx, y) => Lacks(toTx', y) /\ Head(toTx) # y
      /\ \A y : Only(toTx, y) => Only(toTx', y) /\ Head(toTx) = y
  BY <1>1, <1>2, Heard
<1>4. CASE Head(toTx) # ACK
  <2>1. tx' = Retry
    BY <1>3, <1>4, Distinct DEF PacketReply, Asked
  <2>2. Listening
    BY <1>1 DEF Listening
  <2> QED BY <1>1, <1>3, <2>1, <2>2, CleanRetry
<1>5. CASE Head(toTx) = ACK
  <2>1. tx' = [tx EXCEPT !.pc = "send", !.len = @ + BUFSZ, !.retry = 0]
    BY <1>3, <1>5, Distinct DEF PacketReply
  <2>2. /\ tx'.pc = "send" /\ tx'.retry = 0 /\ tx'.crc = tx.crc /\ tx'.len = tx.len + 128
        /\ tx'.verdict = tx.verdict /\ tx.verdict = "sending"
    BY <1>1, <2>1, Sizes DEF TypeInv, TxRec, TxTidy
  <2>3. ~Lacks(toTx, ACK) /\ ~Fresh /\ ~Mismatch /\ ~CannotEnd
    BY <1>1, <1>3, <1>5 DEF Settled, CannotEnd
  <2>4. Due' = Due /\ ~Fresh' /\ ~Mismatch'
    BY <1>1, <2>2, <2>3, Stays
  <2>5. Turn' = Turn + 1 /\ Turn \in Nat /\ Due \in Nat /\ rx.retrans \in Nat
    <3>1. PICK k \in 0 .. LastPacket + 1 : tx.len = k * 128 /\ tx.len \div BUFSZ = k
      BY Chunks DEF TypeInv
    <3>2. k \in Nat /\ BUFSZ = 128
      BY <3>1, Sizes
    <3>3. (k * 128 + 128) \div 128 = k + 1
      BY <3>2
    <3> QED BY <2>2, <3>1, <3>2, <3>3, CleanNats DEF Turn
  <2>6. Talks'
    BY <1>3, <2>2 DEF Talks
  <2>7. Settled'
    <3>1. rx.trychar # Cee
      BY <2>3, Distinct DEF Fresh
    <3> QED BY <1>1, <2>2, <2>3, <2>4, <3>1 DEF Settled
  <2>8. Closing'
    BY <1>1, <2>2, <2>3, <2>4 DEF Closing
  <2>9. Carried'
    <3> SUFFICES ASSUME rx.pc # "flush" PROVE Carried'
      BY <1>1 DEF Carried
    <3>1. PICK q \in Places, t \in Nat, z \in {EOT, CAN} :
             Layout(Stream, tx.crc, q, z, t) /\ Queue(q, z, t)
      BY DEF Carried
    <3>2. Layout(Stream, tx.crc, q, z, t)'
      <4>1. Stream' = Stream
        BY <1>1 DEF Stream
      <4> QED BY <2>2, <3>1, <4>1 DEF Layout
    <3>3. /\ rx.pc \in {"body", "check"} => Len(q) > 0
          /\ rx.pc # "can" /\ t = 0 /\ Climbs(q) /\ Few(q, Due, rx.retrans)
          /\ IF Len(q) > 0 THEN Turn = q[Len(q)] ELSE Turn = Due - 1
      BY <1>1, <2>3, <3>1 DEF Queue
    <3>4. Follows(q, Due, Turn + 1) /\ Ahead(q, Due, Turn + 1, rx.retrans, 0)
      BY <2>5, <3>3, NextOne
    <3>5. Climbs(q)' /\ Few(q, Due, rx.retrans)'
      BY <1>1, <2>4, <3>3 DEF Climbs, Few
    <3>6. Follows(q, Due, Turn)' /\ Ahead(q, Due, Turn, rx.retrans, tx.retry)'
      BY <1>1, <2>2, <2>4, <2>5, <3>4 DEF Follows, Ahead
    <3> QED BY <1>1, <2>2, <3>2, <3>3, <3>5, <3>6 DEF Queue, Carried
  <2> QED BY <2>6, <2>7, <2>8, <2>9
<1> QED BY <1>4, <1>5

LEMMA CleanSendEot ==
  ASSUME CleanNow, rx.pc # "done", SendEot, faults' = 0
  PROVE  Talks' /\ Settled' /\ Closing' /\ Carried'
<1> USE DEF CleanNow
<1>1. /\ tx.pc = "eot" /\ UNCHANGED <<rx, toTx>>
      /\ tx'.pc = "ended" /\ tx'.retry = tx.retry /\ tx'.crc = tx.crc /\ tx'.len = tx.len
      /\ tx'.verdict = tx.verdict /\ tx.verdict = "sending" /\ Tell(<<EOT>>)
  BY DEF SendEot, TypeInv, TxRec, TxTidy
<1>2. <<EOT>> \in Seq(Symbol) /\ EOT \in Symbol /\ tx.crc \in BOOLEAN
  BY Controls, Signs DEF TypeInv, TxRec
<1>3. toRx' = toRx \o <<EOT>>
  BY <1>1, <1>2, CleanTell DEF TypeInv
<1>4. /\ Due' = Due /\ Fresh' = Fresh /\ Mismatch' = Mismatch /\ Turn' = Turn
      /\ CannotEnd => CannotEnd'
  BY <1>1, Stays DEF CannotEnd
<1>5. Talks'
  BY <1>1 DEF Talks
<1>6. Settled'
  BY <1>1, <1>4 DEF Settled
<1>7. Closing'
  BY <1>1, <1>4 DEF Closing
<1>8. Carried'
  <2> SUFFICES ASSUME rx.pc # "flush" PROVE Carried'
    BY <1>1 DEF Carried
  <2>1. PICK q \in Places, t \in Nat, z \in {EOT, CAN} :
           Layout(Stream, tx.crc, q, z, t) /\ Queue(q, z, t)
    BY DEF Carried
  <2>2. /\ rx.pc # "can" /\ (t > 0 => EOT = z)
        /\ rx.pc \in {"body", "check"} => Len(q) > 0
        /\ IF Len(q) > 0 THEN q[Len(q)] = LastPacket ELSE Due = LastPacket + 1
    BY <1>1, <2>1 DEF Queue
  <2>3. PICK u \in Nat : u = t + 1 /\ u > 0
    OBVIOUS
  <2>4. Stream \in Seq(Symbol) /\ Stream' = Stream \o <<EOT>>
    BY <1>1, <1>2, <1>3, StreamGrows
  <2>5. Layout(Stream, tx.crc, q, EOT, u)'
    <3>1. Layout(Stream \o <<EOT>>, tx.crc, q, EOT, t + 1)
      BY <1>2, <2>1, <2>2, <2>4, LayoutSign
    <3> QED BY <1>1, <2>3, <2>4, <3>1 DEF Layout
  <2>6. Queue(q, EOT, u)'
    <3>1. Climbs(q)' /\ Few(q, Due, rx.retrans)'
      BY <1>1, <1>4, <2>1 DEF Queue, Climbs, Few
    <3> QED BY <1>1, <1>4, <2>2, <2>3, <3>1, Distinct DEF Queue
  <2> QED BY <2>5, <2>6 DEF Carried
<1> QED BY <1>5, <1>6, <1>7, <1>8

LEMMA CleanEotReply ==
  ASSUME CleanNow, rx.pc # "done", EotReply
  PROVE  Talks' /\ Settled' /\ Closing' /\ Carried'
<1> USE DEF CleanNow
<1>1. tx.pc = "ended" /\ UNCHANGED <<rx, toRx>> /\ Hear /\ toTx \in Seq(Asked)
  BY DEF EotReply, Talks
<1>2. Asked \in SUBSET (Asked \cup {CAN})
  OBVIOUS
<1>3. /\ Head(toTx) \in Asked /\ Readings(Head(toTx)) = {Head(toTx)} /\ toTx' \in Seq(Asked)
      /\ \A y : Lacks(toTx, y) => Lacks(toTx', y) /\ Head(toTx) # y
      /\ \A y : Only(toTx, y) => Only(toTx', y) /\ Head(toTx) = y
  BY <1>1, <1>2, Heard
<1>4. CASE Head(toTx) # ACK
  <2>1. tx' = Retry
    BY <1>3, <1>4 DEF EotReply
  <2>2. Listening
    BY <1>1 DEF Listening
  <2> QED BY <1>1, <1>3, <2>1, <2>2, CleanRetry
<1>5. CASE Head(toTx) = ACK
  <2>1. tx' = [tx EXCEPT !.pc = "done", !.verdict = "end"]
    BY <1>3, <1>5 DEF EotReply
  <2>2. /\ tx'.pc = "done" /\ tx'.retry = tx.retry /\ tx'.crc = tx.crc /\ tx'.len = tx.len
        /\ tx'.verdict = "end"
    BY <2>1 DEF TypeInv, TxRec
  <2>3. ~Lacks(toTx, ACK) /\ ~Fresh /\ ~Mismatch /\ ~CannotEnd
    BY <1>1, <1>3, <1>5 DEF Settled, CannotEnd
  <2>4. Due' = Due /\ ~Fresh' /\ ~Mismatch' /\ Turn' = Turn
    BY <1>1, <2>2, <2>3, Stays
  <2>5. Talks'
    BY <1>3, <2>2 DEF Talks
  <2>6. Settled'
    <3>1. rx.trychar # Cee
      BY <2>3, Distinct DEF Fresh
    <3> QED BY <1>1, <2>2, <2>3, <2>4, <3>1 DEF Settled
  <2>7. Closing'
    BY <1>1, <2>2, <2>3, <2>4 DEF Closing
  <2>8. Carried'
    <3> SUFFICES ASSUME rx.pc # "flush" PROVE Carried'
      BY <1>1 DEF Carried
    <3>1. PICK q \in Places, t \in Nat, z \in {EOT, CAN} :
             Layout(Stream, tx.crc, q, z, t) /\ Queue(q, z, t)
      BY DEF Carried
    <3>2. Layout(Stream, tx.crc, q, z, t)'
      <4>1. Stream' = Stream
        BY <1>1 DEF Stream
      <4> QED BY <2>2, <3>1, <4>1 DEF Layout
    <3>3. /\ rx.pc \in {"body", "check"} => Len(q) > 0
          /\ rx.pc # "can" /\ t > 0 /\ z = EOT
          /\ IF Len(q) > 0 THEN q[Len(q)] = LastPacket ELSE Due = LastPacket + 1
      BY <1>1, <3>1 DEF Queue
    <3>4. Climbs(q)' /\ Few(q, Due, rx.retrans)'
      BY <1>1, <2>4, <3>1 DEF Queue, Climbs, Few
    <3> QED BY <1>1, <2>2, <2>4, <3>2, <3>3, <3>4, Distinct DEF Queue, Carried
  <2> QED BY <2>5, <2>6, <2>7, <2>8
<1> QED BY <1>4, <1>5

LEMMA CleanNoReply ==
  ASSUME CleanNow, rx.pc # "done", NoReply
  PROVE  Talks' /\ Settled' /\ Closing' /\ Carried'
<1>1. Listening /\ tx' = Retry /\ UNCHANGED <<rx, toRx, toTx>> /\ toTx \in Seq(Asked)
  BY DEF NoReply, CleanNow, Talks
<1> QED BY <1>1, CleanRetry

LEMMA ThreeCans ==
  ASSUME NEW l \in Seq(Symbol)
  PROVE  /\ l \o <<CAN, CAN, CAN>> = ((l \o <<CAN>>) \o <<CAN>>) \o <<CAN>>
         /\ l \o <<CAN>> \in Seq(Symbol) /\ (l \o <<CAN>>) \o <<CAN>> \in Seq(Symbol)
         /\ Only(l, CAN) => Only(l \o <<CAN, CAN, CAN>>, CAN)
<1>1. CAN \in Symbol
  BY Controls
<1>2. l \o <<CAN, CAN, CAN>> = ((l \o <<CAN>>) \o <<CAN>>) \o <<CAN>>
  BY <1>1
<1>3. PICK u : u = l \o <<CAN>>
  OBVIOUS
<1>4. u \in Seq(Symbol) /\ (Only(l, CAN) => Only(u, CAN))
  BY <1>1, <1>3, OnLine
<1>5. PICK v : v = u \o <<CAN>>
  OBVIOUS
<1>6. v \in Seq(Symbol) /\ (Only(u, CAN) => Only(v, CAN))
  BY <1>1, <1>4, <1>5, OnLine
<1>7. Only(v, CAN) => Only(v \o <<CAN>>, CAN)
  BY <1>1, <1>6, OnLine
<1> QED BY <1>2, <1>3, <1>4, <1>5, <1>6, <1>7

LEMMA CleanGiveUp ==
  ASSUME CleanNow, rx.pc # "done", GiveUp, faults' = 0
  PROVE  Talks' /\ Settled' /\ Closing' /\ Carried'
<1> USE DEF CleanNow
<1>1. /\ tx.pc = "giveUp" /\ UNCHANGED <<rx, toTx>>
      /\ tx'.pc = "done" /\ tx'.retry = tx.retry /\ tx'.crc = tx.crc /\ tx'.len = tx.len
      /\ tx'.verdict = "failed" /\ tx.verdict = "sending"
  BY DEF GiveUp, TypeInv, TxRec, TxTidy
<1>2. toRx \in Seq(Symbol) /\ tx.crc \in BOOLEAN
  BY DEF TypeInv, LinesOK, TxRec
<1>3. \/ ~(tx.len <= srcsz) /\ toRx' = toRx
      \/ tx.len <= srcsz /\ toRx' = toRx \o <<CAN, CAN, CAN>>
  <2>1. CASE tx.len > srcsz
    <3>1. tx.len \in Nat /\ srcsz \in Nat
      BY Chunks, Sizes DEF TypeInv
    <3> QED BY <2>1, <3>1 DEF GiveUp
  <2>2. CASE ~(tx.len > srcsz)
    <3>1. tx.len \in Nat /\ srcsz \in Nat
      BY Chunks, Sizes DEF TypeInv
    <3>2. Tell(<<CAN, CAN, CAN>>) /\ <<CAN, CAN, CAN>> \in Seq(Symbol)
      BY <2>2, Signs DEF GiveUp
    <3>3. toRx' = toRx \o <<CAN, CAN, CAN>>
      BY <3>2, CleanTell DEF TypeInv
    <3> QED BY <2>2, <3>1, <3>3
  <2> QED BY <2>1, <2>2
<1>4. /\ Due' = Due /\ Fresh' = Fresh /\ Mismatch' = Mismatch /\ Turn' = Turn
      /\ CannotEnd'
  BY <1>1, Stays DEF CannotEnd
<1>5. Only(toRx, CAN) => Only(toRx', CAN)
  BY <1>2, <1>3, ThreeCans
<1>6. Talks'
  BY <1>1 DEF Talks
<1>7. Settled'
  BY <1>1, <1>4, <1>5 DEF Settled
<1>8. Closing'
  BY <1>1, <1>4 DEF Closing
<1>9. Carried'
  <2> SUFFICES ASSUME rx.pc # "flush" PROVE Carried'
    BY <1>1 DEF Carried
  <2>1. PICK q \in Places, t \in Nat, z \in {EOT, CAN} :
           Layout(Stream, tx.crc, q, z, t) /\ Queue(q, z, t)
    BY DEF Carried
  <2>2. /\ rx.pc # "can" /\ ~(t > 0 /\ z = CAN) /\ (tx.len <= srcsz => t = 0)
        /\ rx.pc \in {"body", "check"} => Len(q) > 0
        /\ t > 0 /\ z = EOT => IF Len(q) > 0 THEN q[Len(q)] = LastPacket ELSE Due = LastPacket + 1
    <3>1. tx.len <= srcsz => ~(t > 0)
      BY <1>1, <2>1 DEF Queue
    <3>2. tx.len <= srcsz => t = 0
      BY <3>1
    <3> QED BY <1>1, <2>1, <3>2 DEF Queue
  <2>3. Climbs(q)' /\ Few(q, Due, rx.retrans)'
    BY <1>1, <1>4, <2>1 DEF Queue, Climbs, Few
  <2>4. CASE toRx' = toRx
    <3>1. Stream' = Stream
      BY <1>1, <2>4 DEF Stream
    <3>2. Layout(Stream, tx.crc, q, z, t)'
      BY <1>1, <2>1, <3>1 DEF Layout
    <3> QED BY <1>1, <1>4, <2>2, <2>3, <3>2 DEF Queue, Carried
  <2>5. CASE tx.len <= srcsz /\ toRx' = toRx \o <<CAN, CAN, CAN>>
    <3>1. Stream \in Seq(Symbol) /\ Stream' = Stream \o <<CAN, CAN, CAN>>
      BY <1>1, <2>5, Signs, StreamGrows
    <3>2. Layout(Stream, tx.crc, q, z, 0) /\ CAN \in Symbol
      BY <2>1, <2>2, <2>5, Controls
    <3>3. PICK u, v \in Nat : u = 0 + 1 /\ v = u + 1 /\ v + 1 = 3
      OBVIOUS
    <3>4. Layout(Stream \o <<CAN>>, tx.crc, q, CAN, u)
      BY <1>2, <3>1, <3>2, <3>3, LayoutSign
    <3>5. Layout((Stream \o <<CAN>>) \o <<CAN>>, tx.crc, q, CAN, v)
      <4>1. Stream \o <<CAN>> \in Seq(Symbol)
        BY <3>1, ThreeCans
      <4> QED BY <1>2, <3>2, <3>3, <3>4, <4>1, LayoutSign
    <3>6. Layout(((Stream \o <<CAN>>) \o <<CAN>>) \o <<CAN>>, tx.crc, q, CAN, 3)
      <4>1. (Stream \o <<CAN>>) \o <<CAN>> \in Seq(Symbol)
        BY <3>1, ThreeCans
      <4> QED BY <1>2, <3>2, <3>3, <3>5, <4>1, LayoutSign
    <3>7. Layout(Stream, tx.crc, q, CAN, 3)'
      <4>1. Stream' = ((Stream \o <<CAN>>) \o <<CAN>>) \o <<CAN>>
        BY <3>1, ThreeCans
      <4> QED BY <1>1, <3>6, <4>1 DEF Layout
    <3>8. Queue(q, CAN, 3)'
      BY <1>1, <1>4, <2>2, <2>3, Distinct DEF Queue
    <3> QED BY <3>7, <3>8 DEF Carried
  <2> QED BY <1>3, <2>4, <2>5
<1> QED BY <1>6, <1>7, <1>8, <1>9

(* The receiver has returned: an end that was not its own is not taken for *)
(* one any more.                                                           *)
LEMMA CleanAfter ==
  ASSUME TypeInv, rx.pc = "done", toTx \in Seq(Asked \cup {CAN}), rx.status = "end" \/ CannotEnd,
         Start \/ Transmit
  PROVE  toTx' \in Seq(Asked \cup {CAN}) /\ (rx'.status = "end" \/ CannotEnd')
<1>1. (Asked \cup {CAN}) \in SUBSET (Asked \cup {CAN})
  OBVIOUS
<1>2. rx' = rx
  BY DEF Start, Transmit, FirstSign, SendPacket, NoMorePackets, PacketReply, SendEot, EotReply,
         CanReply, NoReply, GiveUp
<1>3. toTx' = toTx \/ Hear
  BY DEF Start, Transmit, FirstSign, SendPacket, NoMorePackets, PacketReply, SendEot, EotReply,
         CanReply, NoReply, GiveUp
<1>4. toTx' \in Seq(Asked \cup {CAN}) /\ (Lacks(toTx, ACK) => Lacks(toTx', ACK))
  BY <1>1, <1>3, Heard
<1>5. tx.pc # "done"
  BY DEF Start, Transmit, FirstSign, SendPacket, NoMorePackets, PacketReply, SendEot, EotReply,
         CanReply, NoReply, GiveUp, Listening
<1>6. CannotEnd => CannotEnd'
  <2> SUFFICES ASSUME CannotEnd PROVE CannotEnd'
    OBVIOUS
  <2>1. Lacks(toTx, ACK) /\ tx.verdict # "end"
    BY <1>5 DEF CannotEnd
  <2>2. tx'.verdict # "end"
    <3>1. CASE EotReply
      <4>1. Hear /\ tx.pc = "ended"
        BY <3>1 DEF EotReply
      <4>2. Readings(Head(toTx)) = {Head(toTx)} /\ Head(toTx) # ACK
        BY <1>1, <2>1, <4>1, Heard
      <4>3. tx' = Retry /\ Listening
        BY <3>1, <4>1, <4>2 DEF EotReply, Listening
      <4> QED BY <2>1, <4>3, RetryIs DEF TypeInv
    <3>2. CASE tx' = Retry /\ Listening
      BY <2>1, <3>2, RetryIs DEF TypeInv
    <3>3. CASE Start \/ SendPacket \/ NoMorePackets \/ GiveUp \/ SendEot
      BY <2>1, <3>3 DEF Start, SendPacket, NoMorePackets, GiveUp, SendEot, TypeInv, TxRec
    <3>4. CASE FirstSign
      <4>1. PICK b \in BOOLEAN :
               \/ tx' = [tx EXCEPT !.pc = "send", !.retry = 0, !.crc = b]
               \/ tx' = [tx EXCEPT !.pc = "canSync"]
               \/ tx' = Retry /\ Listening
        BY <3>4 DEF FirstSign, Listening
      <4> QED BY <2>1, <3>2, <4>1 DEF TypeInv, TxRec
    <3>5. CASE PacketReply
      BY <2>1, <3>2, <3>5 DEF PacketReply, Listening, TypeInv, TxRec
    <3>6. CASE CanReply
      BY <2>1, <3>2, <3>6 DEF CanReply, Listening, TypeInv, TxRec
    <3>7. CASE NoReply
      BY <3>2, <3>7 DEF NoReply
    <3> QED BY <3>1, <3>3, <3>4, <3>5, <3>6, <3>7 DEF Transmit
  <2> QED BY <1>4, <2>1, <2>2 DEF CannotEnd
<1> QED BY <1>2, <1>4, <1>6

LEMMA CleanInit == ASSUME Short PROVE Init => CleanInv
<1> SUFFICES ASSUME Init PROVE CleanInv
  OBVIOUS
<1>1. TypeInv /\ OrderInv
  BY TypeInit, OrderInit
<1>2. /\ rx.pc = "try" /\ rx.then = "try" /\ rx.retry = 0 /\ rx.retrans = MAXRETRANS /\ rx.trychar = Cee
      /\ rx.crc = FALSE /\ rx.packetno = 1 /\ rx.status = "receiving"
      /\ tx.pc = "idle" /\ tx.retry = 0 /\ tx.crc = FALSE /\ tx.len = 0 /\ tx.verdict = "sending"
      /\ toRx = << >> /\ toTx = << >>
  BY DEF Init
<1>3. Fresh /\ ~Mismatch /\ Due = 0 /\ Turn = 0
  <2>1. PICK k \in 0 .. LastPacket + 1 : tx.len = k * 128 /\ tx.len \div BUFSZ = k
    BY <1>1, Chunks DEF TypeInv
  <2>2. k = 0
    BY <1>2, <2>1, Sizes
  <2> QED BY <1>2, <2>1, <2>2, Distinct DEF Fresh, Mismatch, Due, Turn
<1>4. toTx \in Seq(Asked \cup {CAN}) /\ toTx \in Seq(Asked)
  BY <1>2
<1>5. Lacks(toTx, ACK) /\ Only(toTx, Cee) /\ Only(toRx, CAN)
  BY <1>2 DEF Lacks, Only
<1>6. Talks /\ Settled /\ Closing
  BY <1>2, <1>3, <1>4, <1>5 DEF Talks, Settled, Closing
<1>7. Carried
  <2>1. Layout(Stream, tx.crc, << >>, EOT, 0)
    <3>1. Stream = << >> /\ tx.crc \in BOOLEAN
      BY <1>2 DEF Stream
    <3> QED BY <3>1, LayoutEmpty
  <2>2. Queue(<< >>, EOT, 0)
    <3>1. Climbs(<< >>) /\ Few(<< >>, Due, rx.retrans)
      BY <1>2, Sizes DEF Climbs, Few
    <3> QED BY <1>2, <3>1 DEF Queue
  <2>3. << >> \in Places
    BY DEF Places
  <2> QED BY <2>1, <2>2, <2>3 DEF Carried
<1> QED BY <1>2, <1>4, <1>6, <1>7 DEF CleanInv

LEMMA CleanStep ==
  ASSUME Short, TypeInv, OrderInv, CleanInv, [Next]_vars
  PROVE  CleanInv'
<1> SUFFICES ASSUME faults' = 0
             PROVE  /\ toTx' \in Seq(Asked \cup {CAN})
                    /\ IF rx'.pc = "done" THEN rx'.status = "end" \/ CannotEnd'
                                          ELSE Talks' /\ Settled' /\ Closing' /\ Carried'
  BY DEF CleanInv
<1>1. faults = 0
  BY Growing, Sizes DEF TypeInv, LinesOK
<1>2. toTx \in Seq(Asked \cup {CAN})
  BY <1>1 DEF CleanInv
<1>3. Asked \subseteq Asked \cup {CAN}
  OBVIOUS
<1>4. Talks' => toTx' \in Seq(Asked \cup {CAN})
  BY <1>3, SeqMonotonic DEF Talks
<1>5. CASE UNCHANGED vars
  <2>1. /\ Fresh' = Fresh /\ Mismatch' = Mismatch /\ Due' = Due /\ Turn' = Turn /\ Stream' = Stream
        /\ CannotEnd' = CannotEnd
    BY <1>5 DEF vars, Fresh, Mismatch, Due, Turn, Stream, CannotEnd
  <2>2. Talks' = Talks /\ Settled' = Settled /\ Closing' = Closing
    BY <1>5, <2>1 DEF vars, Talks, Settled, Closing
  <2>3. Carried => Carried'
    <3> SUFFICES ASSUME Carried, rx.pc # "flush" PROVE Carried'
      BY <1>5 DEF vars, Carried
    <3>1. PICK q \in Places, t \in Nat, z \in {EOT, CAN} :
             Layout(Stream, tx.crc, q, z, t) /\ Queue(q, z, t)
      BY DEF Carried
    <3>2. Layout(Stream, tx.crc, q, z, t)' /\ Queue(q, z, t)'
      BY <1>5, <2>1, <3>1 DEF vars, Layout, Queue, Climbs, Few, Follows, Ahead
    <3> QED BY <3>2 DEF Carried
  <2> QED BY <1>1, <1>5, <2>1, <2>2, <2>3 DEF vars, CleanInv
<1>6. CASE Next /\ rx.pc = "done"
  <2>1. Start \/ Transmit
    BY <1>6 DEF Next, Receive, Try, NoTriesLeft, Header, SecondCan, NoHeader, WaitsForHeader,
                BodyByte, BodyTimeout, Accept, Repeat, Reject, Flush, Flushed
  <2>2. rx' = rx
    BY <2>1 DEF Start, Transmit, FirstSign, SendPacket, NoMorePackets, PacketReply, SendEot, EotReply,
                CanReply, NoReply, GiveUp
  <2>3. rx.status = "end" \/ CannotEnd
    BY <1>1, <1>6 DEF CleanInv
  <2> QED BY <1>2, <1>6, <2>1, <2>2, <2>3, CleanAfter
<1>7. CASE Next /\ rx.pc # "done"
  <2>1. CleanNow
    BY <1>1, <1>7 DEF CleanInv, CleanNow
  <2>2. CASE Flushed
    BY <2>1, <2>2, CleanFlushed
  <2>3. CASE Receive /\ ~Flushed
    <3>1. rx'.pc # "done" /\ Talks' /\ Settled' /\ Closing' /\ Carried'
      BY <2>1, <2>3, CleanTry, CleanNoTriesLeft, CleanHeader, CleanSecondCan, CleanNoHeader,
         CleanBodyByte, CleanBodyTimeout, CleanAccept, CleanRepeat, CleanReject, CleanFlush DEF Receive
    <3> QED BY <1>4, <3>1
  <2>4. CASE Start \/ Transmit
    <3>1. rx' = rx
      BY <2>4 DEF Start, Transmit, FirstSign, SendPacket, NoMorePackets, PacketReply, SendEot, EotReply,
                  CanReply, NoReply, GiveUp
    <3>2. ~CanReply
      BY <2>1 DEF CleanNow, Talks, CanReply
    <3>3. Talks' /\ Settled' /\ Closing' /\ Carried'
      BY <1>7, <2>1, <2>4, <3>2, CleanStart, CleanFirstSign, CleanSendPacket, CleanNoMorePackets,
         CleanPacketReply, CleanSendEot, CleanEotReply, CleanNoReply, CleanGiveUp DEF Transmit
    <3> QED BY <1>4, <1>7, <3>1, <3>3
  <2> QED BY <1>7, <2>2, <2>3, <2>4 DEF Next
<1> QED BY <1>5, <1>6, <1>7

LEMMA Proper == ASSUME Short PROVE Spec => [](TypeInv /\ OrderInv /\ CleanInv)
<1>1. Init => CleanInv
  BY CleanInit
<1>2. TypeInv /\ OrderInv /\ CleanInv /\ [Next]_vars => CleanInv'
  BY CleanStep
<1>3. Spec => [](TypeInv /\ OrderInv)
  BY Reachable
<1> QED BY <1>1, <1>2, <1>3, PTL DEF Spec

(* On a clean line a transmitter that was told the end has been            *)
(* acknowledged is right, for every size of the file and every number of   *)
(* attempts, as long as the numbers of the packets do not wrap             *)
(* (xmodem.c 161-169, 269-303).                                            *)
THEOREM SenderCorrect == ASSUME Short PROVE Spec => []SenderRight
<1>1. TypeInv /\ OrderInv /\ CleanInv => SenderRight
  <2> SUFFICES ASSUME TypeInv, CleanInv, tx.verdict = "end", rx.status # "receiving", faults = 0
               PROVE  rx.status = "end"
    BY DEF SenderRight
  <2>1. rx.pc = "done"
    BY DEF TypeInv, RxTidy
  <2> QED BY <2>1 DEF CleanInv, CannotEnd
<1>2. Spec => [](TypeInv /\ OrderInv /\ CleanInv)
  BY Proper
<1> QED BY <1>1, <1>2, PTL

-----------------------------------------------------------------------------
(* The file written is a beginning of the file sent, and all of it when    *)
(* the end is taken for good.                                              *)

(* The size announced is that of the file sent, to the packet.             *)
Announced == fsize \div BUFSZ = LastPacket

LEMMA Pieces ==
  ASSUME Announced
  PROVE  /\ Source \in Seq(Nat \X Int) /\ Len(Source) \in Nat /\ Len(Source) <= LastPacket + 1
         /\ \A a \in 0 .. LastPacket, w \in Int :
              w = (IF a * 128 + 128 > fsize THEN fsize - a * 128 ELSE 128) =>
                /\ w = 0 => a = Len(Source)
                /\ w # 0 => a < Len(Source) /\ Source[a + 1] = <<a, w>>
<1>1. LastPacket \in Nat /\ fsize \in Nat /\ BUFSZ = 128
  BY Sizes
<1>2. PICK L \in Nat : L = (fsize + 127) \div 128
  BY <1>1
<1>3. Source = [i \in 1 .. L |-> <<i - 1, IF i * 128 > fsize THEN fsize - (i - 1) * 128 ELSE 128>>]
  <2>1. (fsize + BUFSZ - 1) \div BUFSZ = L
    <3>1. fsize + BUFSZ - 1 = fsize + 127
      BY <1>1
    <3> QED BY <1>1, <1>2, <3>1
  <2> QED BY <1>1, <2>1 DEF Source
<1>4. \A i \in 1 .. L : <<i - 1, IF i * 128 > fsize THEN fsize - (i - 1) * 128 ELSE 128>> \in Nat \X Int
  BY <1>1, <1>2
<1>5. Source \in Seq(Nat \X Int) /\ Len(Source) = L
  BY <1>3, <1>4
<1>6. fsize \div 128 = LastPacket
  BY <1>1 DEF Announced
<1>7. LastPacket * 128 <= fsize /\ fsize < LastPacket * 128 + 128
  BY <1>1, <1>6
<1>8. L <= LastPacket + 1
  BY <1>1, <1>2, <1>7
<1>9. ASSUME NEW a \in 0 .. LastPacket, NEW w \in Int,
             w = (IF a * 128 + 128 > fsize THEN fsize - a * 128 ELSE 128)
      PROVE  /\ w = 0 => a = Len(Source)
             /\ w # 0 => a < Len(Source) /\ Source[a + 1] = <<a, w>>
  <2>1. a \in Nat /\ a <= LastPacket /\ a * 128 <= LastPacket * 128
    BY <1>1
  <2>2. ASSUME w = 0 PROVE a = L
    <3>1. fsize = a * 128
      BY <1>1, <1>9, <2>1, <2>2
    <3>2. (a * 128 + 127) \div 128 = a
      BY <2>1
    <3> QED BY <1>2, <3>1, <3>2
  <2>3. ASSUME w # 0 PROVE a < L /\ Source[a + 1] = <<a, w>>
    <3>1. a * 128 + 1 <= fsize
      BY <1>1, <1>7, <1>9, <2>1, <2>3
    <3>2. a + 1 <= (fsize + 127) \div 128
      BY <1>1, <2>1, <3>1
    <3>3. a + 1 \in 1 .. L /\ a + 1 - 1 = a /\ (a + 1) * 128 = a * 128 + 128
      BY <1>2, <2>1, <3>2
    <3>4. Source[a + 1] = <<a + 1 - 1, IF (a + 1) * 128 > fsize THEN fsize - (a + 1 - 1) * 128 ELSE 128>>
      BY <1>3, <3>3
    <3> QED BY <1>9, <2>1, <3>3, <3>4
  <2> QED BY <1>5, <2>2, <2>3
<1>10. Source \in Seq(Nat \X Int) /\ Len(Source) \in Nat /\ Len(Source) <= LastPacket + 1
  BY <1>5, <1>8
<1>11. \A a \in 0 .. LastPacket, w \in Int :
         w = (IF a * 128 + 128 > fsize THEN fsize - a * 128 ELSE 128) =>
           /\ w = 0 => a = Len(Source)
           /\ w # 0 => a < Len(Source) /\ Source[a + 1] = <<a, w>>
  BY <1>9, Zenon
<1> QED BY <1>10, <1>11, Zenon

FileInv ==
  /\ Len(rx.file) = IF Due <= Len(Source) THEN Due ELSE Len(Source)
  /\ \A i \in 1 .. Len(rx.file) : rx.file[i] = Source[i]

LEMMA FileInit == ASSUME Announced PROVE Init => FileInv
<1> SUFFICES ASSUME Init PROVE FileInv
  OBVIOUS
<1>1. Due = 0 /\ rx.file = << >>
  BY DEF Init, Due
<1>2. Len(Source) \in Nat
  BY Pieces
<1> QED BY <1>1, <1>2 DEF FileInv

(* An acceptance writes the next piece, or the file is there already.      *)
LEMMA AcceptWrites ==
  ASSUME Short, Announced, TypeInv, OrderInv, FileInv, Accept
  PROVE  /\ FileInv' /\ rx.status = "receiving" /\ rx'.status = rx.status
         /\ \/ rx'.file = rx.file
            \/ /\ Len(rx.file) < Len(Source)
               /\ rx'.file = Append(rx.file, Source[Len(rx.file) + 1])
<1>1. /\ Due \in 0 .. LastPacket /\ Due' = Due + 1 /\ rx'.status = rx.status
      /\ \E w \in Int :
           /\ w = IF Due * 128 + 128 > fsize THEN fsize - Due * 128 ELSE 128
           /\ rx'.file = IF w = 0 THEN rx.file ELSE Append(rx.file, <<Due, w>>)
  <2>1. /\ Due \in 0 .. LastPacket /\ rx.wpos = Due * 128 /\ rx'.packetno = rx.packetno + 1
        /\ rx'.status = rx.status
        /\ \E w \in Int :
              /\ w = IF rx.wpos + 128 > fsize THEN fsize - rx.wpos ELSE 128
              /\ rx'.file = IF w = 0 THEN rx.file ELSE Append(rx.file, <<Due, w>>)
    BY AcceptIs DEF Due
  <2>2. Due' = Due + 1
    <3>1. rx.packetno \in Nat
      BY CleanNats
    <3> QED BY <2>1, <3>1 DEF Due
  <2> QED BY <2>1, <2>2
<1>2. PICK w \in Int : /\ w = IF Due * 128 + 128 > fsize THEN fsize - Due * 128 ELSE 128
                       /\ rx'.file = IF w = 0 THEN rx.file ELSE Append(rx.file, <<Due, w>>)
  BY <1>1
<1>3. /\ Len(Source) \in Nat
      /\ w = 0 => Due = Len(Source)
      /\ w # 0 => Due < Len(Source) /\ Source[Due + 1] = <<Due, w>>
  BY <1>1, <1>2, Pieces
<1>4. rx.status = "receiving"
  BY DEF Accept, TypeInv, RxTidy
<1>5. Due \in Nat
  BY <1>1, Sizes
<1>6. CASE w = 0
  <2>1. rx'.file = rx.file /\ Due = Len(Source)
    BY <1>2, <1>3, <1>6
  <2>2. PICK S : S = Source /\ S = Source'
    BY DEF Source
  <2>3. Len(rx.file) = Len(S) /\ \A i \in 1 .. Len(rx.file) : rx.file[i] = S[i]
    BY <1>3, <1>5, <2>1, <2>2 DEF FileInv
  <2>4. Due' = Len(S) + 1 /\ Len(S) \in Nat
    BY <1>1, <1>3, <2>1, <2>2
  <2>5. FileInv'
    BY <2>1, <2>2, <2>3, <2>4 DEF FileInv
  <2> QED BY <1>1, <1>4, <2>1, <2>5
<1>7. CASE w # 0
  <2>1. rx'.file = Append(rx.file, <<Due, w>>) /\ Due < Len(Source) /\ Source[Due + 1] = <<Due, w>>
    BY <1>2, <1>3, <1>7
  <2>2. rx.file \in Seq(Nat \X Int) /\ <<Due, w>> \in Nat \X Int
    BY <1>5 DEF TypeInv, RxRec
  <2>3. Len(rx.file) = Due
    BY <1>3, <1>5, <2>1 DEF FileInv
  <2>4. /\ Len(rx'.file) = Due + 1 /\ rx'.file[Due + 1] = <<Due, w>>
        /\ \A i \in 1 .. Due : rx'.file[i] = rx.file[i]
    BY <2>1, <2>2, <2>3, AppendProperties
  <2>5. PICK S : S = Source /\ S = Source'
    BY DEF Source
  <2>6. \A i \in 1 .. Due + 1 : rx'.file[i] = S[i]
    <3>1. ASSUME NEW i \in 1 .. Due PROVE rx'.file[i] = S[i]
      <4>1. rx.file[i] = S[i]
        BY <2>3, <2>5 DEF FileInv
      <4> QED BY <2>4, <4>1
    <3>2. rx'.file[Due + 1] = S[Due + 1]
      BY <2>1, <2>4, <2>5
    <3>3. \A i \in 1 .. Due + 1 : i \in 1 .. Due \/ i = Due + 1
      BY <1>5
    <3> QED BY <3>1, <3>2, <3>3
  <2>7. FileInv'
    BY <1>1, <1>3, <1>5, <2>1, <2>4, <2>5, <2>6 DEF FileInv
  <2> QED BY <1>1, <1>4, <2>1, <2>3, <2>7
<1> QED BY <1>6, <1>7

(* What every other step does to the file and to the outcome.              *)
LEMMA NoWrite ==
  ASSUME TypeInv, [Next]_vars, ~Accept
  PROVE  /\ rx'.file = rx.file /\ Due' = Due
         /\ \/ rx'.status = rx.status
            \/ /\ rx.pc = "flush" /\ rx.status = "receiving" /\ rx'.status = rx.then
               /\ rx.then \in Outcomes
<1>1. rx \in RxRec
  BY DEF TypeInv
<1>2. CASE Receive
  <2>1. rx'.file = rx.file /\ Due' = Due
    BY <1>2, KeepsPlace DEF Due
  <2>2. CASE Flushed
    <3>1. rx.pc = "flush" /\ rx.status = "receiving" /\ rx.then \in Outcomes \cup {"reject"}
      BY <2>2 DEF Flushed, TypeInv, RxTidy
    <3>2. CASE rx.then = "reject"
      BY <1>1, <2>1, <2>2, <3>2 DEF Flushed, RxRec
    <3>3. CASE rx.then # "reject"
      BY <1>1, <2>1, <2>2, <3>1, <3>3 DEF Flushed, RxRec
    <3> QED BY <3>2, <3>3
  <2>3. CASE Try \/ NoTriesLeft \/ SecondCan \/ NoHeader
    BY <1>1, <2>1, <2>3 DEF Try, NoTriesLeft, SecondCan, NoHeader, Again, FlushThen, RxRec
  <2>4. CASE Header
    BY <1>1, <2>1, <2>4 DEF Header, Again, FlushThen, RxRec
  <2>5. CASE BodyByte \/ BodyTimeout \/ Reject \/ Flush
    BY <1>1, <2>1, <2>5 DEF BodyByte, BodyTimeout, Reject, Flush, FlushThen, RxRec
  <2>6. CASE Repeat
    BY <1>1, <2>1, <2>6 DEF Repeat, Acknowledge, RxRec
  <2> QED BY <1>2, <2>2, <2>3, <2>4, <2>5, <2>6 DEF Receive
<1>3. CASE Start \/ Transmit
  BY <1>3, TxLeavesRx DEF Due
<1>4. CASE UNCHANGED vars
  BY <1>4 DEF vars, Due
<1> QED BY <1>2, <1>3, <1>4 DEF Next

LEMMA FileStep ==
  ASSUME Short, Announced, TypeInv, OrderInv, FileInv, [Next]_vars
  PROVE  FileInv'
<1>1. CASE Accept
  BY <1>1, AcceptWrites
<1>2. CASE ~Accept
  BY <1>2, NoWrite DEF FileInv, Source
<1> QED BY <1>1, <1>2

(* An end that is taken for good on a clean line: the file is whole.       *)
LEMMA EndsWhole ==
  ASSUME Announced, TypeInv, OrderInv, CleanInv, FileInv, faults = 0, rx.pc = "flush", rx.then = "end"
  PROVE  rx.file = Source
<1>1. Due = LastPacket + 1
  BY DEF CleanInv, Closing
<1>2. Source \in Seq(Nat \X Int) /\ Len(Source) \in Nat /\ Len(Source) <= Due
  BY <1>1, Pieces
<1>3. rx.file \in Seq(Nat \X Int) /\ Due \in Nat
  BY CleanNats DEF TypeInv, RxRec
<1>4. Len(rx.file) = Len(Source)
  BY <1>2, <1>3 DEF FileInv
<1> QED BY <1>2, <1>3, <1>4, SeqEqual DEF FileInv

(* The receiver implements FileTransfer.  Whatever the line loses or       *)
(* garbles, the file is at every moment a beginning of the file sent,      *)
(* every piece written once and in order; on a clean line an end without   *)
(* an error means all of it (xmodem.c 100-174).                            *)
THEOREM TransferImplements == ASSUME Short, Announced PROVE Spec => Implements
<1>1. Init => Transfer!Init
  BY DEF Init, Transfer!Init
<1>2. ASSUME TypeInv, OrderInv, CleanInv, FileInv, [Next]_vars
      PROVE  [Transfer!Next]_Transfer!transferVars
  <2>1. faults \in Nat /\ faults' \in Nat /\ faults <= faults'
    <3>1. faults \in Nat /\ TypeInv'
      BY <1>2, TypeStep, Sizes DEF TypeInv, LinesOK
    <3> QED BY <1>2, <3>1, Growing, Sizes DEF TypeInv, LinesOK
  <2>2. (faults = 0)' \in {faults = 0, FALSE}
    <3>1. CASE faults' = 0
      <4>1. faults = 0
        BY <2>1, <3>1
      <4> QED BY <3>1, <4>1, Zenon
    <3>2. CASE faults' # 0
      BY <3>2, Zenon
    <3> QED BY <3>1, <3>2
  <2>3. CASE rx'.file = rx.file /\ rx'.status = rx.status
    <3>1. CASE (faults = 0)' = (faults = 0)
      BY <2>3, <3>1 DEF Transfer!transferVars
    <3>2. CASE (faults = 0)' = FALSE
      BY <2>3, <3>2 DEF Transfer!Next, Transfer!Disturb
    <3> QED BY <2>2, <3>1, <3>2
  <2>4. CASE Accept
    <3>1. CASE rx'.file = rx.file
      BY <1>2, <2>3, <2>4, <3>1, AcceptWrites
    <3>2. CASE rx'.file # rx.file
      <4>1. /\ rx.status = "receiving" /\ rx'.status = rx.status
            /\ Len(rx.file) < Len(Source)
            /\ rx'.file = Append(rx.file, Source[Len(rx.file) + 1])
        BY <1>2, <2>4, <3>2, AcceptWrites
      <4>2. Transfer!Write
        BY <4>1 DEF Transfer!Write
      <4> QED BY <2>2, <4>2 DEF Transfer!Next
    <3> QED BY <3>1, <3>2
  <2>5. CASE ~Accept /\ rx'.status # rx.status
    <3>1. /\ rx'.file = rx.file /\ rx.pc = "flush" /\ rx.status = "receiving"
          /\ rx'.status = rx.then /\ rx.then \in Outcomes
      BY <1>2, <2>5, NoWrite
    <3>2. rx.then = "end" /\ faults = 0 => rx.file = Source
      BY <1>2, <3>1, EndsWhole
    <3>3. Transfer!End(rx.then)
      BY <3>1, <3>2 DEF Transfer!End
    <3> QED BY <2>2, <3>1, <3>3 DEF Transfer!Next
  <2>6. CASE ~Accept /\ rx'.status = rx.status
    BY <1>2, <2>3, <2>6, NoWrite
  <2> QED BY <2>4, <2>5, <2>6
<1>3. Spec => [](TypeInv /\ OrderInv /\ CleanInv)
  BY Proper
<1>4. Init => FileInv
  BY FileInit
<1>5. TypeInv /\ OrderInv /\ FileInv /\ [Next]_vars => FileInv'
  BY FileStep
<1> QED BY <1>1, <1>2, <1>3, <1>4, <1>5, PTL DEF Implements, Transfer!Spec, Spec
=============================================================================
