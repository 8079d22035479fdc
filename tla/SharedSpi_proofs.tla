-------------------------- MODULE SharedSpi_proofs --------------------------
(***************************************************************************)
(* The flash driver and the shared bus, for every page and sector size,    *)
(* every data, every length of a display call and any patience: types and  *)
(* the bounds of a call (TypeCorrect); and, when flash and display calls   *)
(* take turns, the bytes of each driver reach its own device only          *)
(* (BusCorrect), the flash is never given an instruction it would not      *)
(* take (ListensCorrect), a call writes page after page what it was given  *)
(* (WrittenCorrect), and says truly whether it has (AnswerCorrect).        *)
(***************************************************************************)
EXTENDS SharedSpi, TLAPS

Asking == {"rdsr", "dummy", "read"}
Symbol == [op : Asking \cup {"wren", "pp", "sse", "data", "pixel"}, at : Nat, byte : SUBSET Bits]
Bytes == Seq(SUBSET Bits)

Typed ==
  /\ sync \in BOOLEAN /\ selected \in BOOLEAN /\ powered \in BOOLEAN /\ wel \in BOOLEAN
  /\ mem \in [Address -> SUBSET Bits] /\ before \in [Address -> SUBSET Bits]
  /\ busy \in [op : {"none", "pp", "sse"}, at : Nat, data : Bytes]
  /\ phase \in {"idle", "check", "wren", "op", "poll", "read"}
  /\ outcome \in Returned
  /\ shift \in Seq(Symbol) /\ out \in Seq(Symbol)

(* A call keeps within the flash, a chunk of it within its page, and a     *)
(* chunk with another one behind it ends where its page does.              *)
CallOK ==
  /\ call \in [op : {"none", "pp", "sse", "read"}, at : Nat, data : Bytes, sent : Nat, n : Nat,
               more : BOOLEAN]
  /\ call.sent + call.n <= Len(call.data)
  /\ phase \in {"check", "wren", "op", "poll"} => call.op \in {"pp", "sse"}
  /\ call.op = "pp" =>
       /\ call.sent <= call.at /\ (call.at - call.sent) + Len(call.data) <= FLASH_SIZE
       /\ (call.at % PAGE) + call.n <= PAGE
       /\ call.more => (call.at + call.n) % PAGE = 0
       /\ ~call.more => call.sent + call.n = Len(call.data)
  /\ call.op = "sse" => ~call.more

IInv == Typed /\ CallOK /\ counter \in 0 .. Patience /\ (~powered => phase = "idle" /\ busy = Done)

-----------------------------------------------------------------------------
LEMMA Consts ==
  /\ PAGE \in Nat \ {0} /\ FLASH_SIZE \in Nat /\ SECTORS \in Nat /\ PIXEL \in Nat \ {0}
  /\ COUNT_FOR_A_SECOND \in Nat
  /\ Data \subseteq Bytes /\ << >> \in Bytes
  BY FlashAssumption, SharedAssumption DEF FLASH_SIZE, Bytes

(* What is left of a page, and the page after.                             *)
LEMMA NextMultiple ==
  ASSUME NEW p \in Nat \ {0}, NEW a \in Nat
  PROVE  (a + (p - (a % p))) % p = 0
  BY SMTT(30)

LEMMA InPage ==
  ASSUME NEW a \in Nat
  PROVE  /\ a % PAGE \in 0 .. PAGE - 1 /\ PAGE - (a % PAGE) \in 1 .. PAGE
         /\ (a + (PAGE - (a % PAGE))) % PAGE = 0
<1>1. PAGE \in Nat \ {0}
  BY Consts
<1>2. a % PAGE \in 0 .. PAGE - 1
  BY <1>1
<1>3. PAGE - (a % PAGE) \in 1 .. PAGE
  BY <1>1, <1>2
<1> QED
  BY <1>1, <1>2, <1>3, NextMultiple

LEMMA Symbols ==
  /\ \A a \in Nat : \A op \in Asking \cup {"wren", "pp", "sse", "pixel"} :
        Instruction(op, a) \in Symbol /\ Instruction(op, a).op = op
  /\ \A b \in SUBSET Bits : Datum(b) \in Symbol /\ Datum(b).op = "data"
  /\ Pixel \in Symbol /\ Dummy \in Symbol /\ Dummy.op = "dummy" /\ Pixel.op = "pixel"
  /\ Status \in Seq(Symbol) /\ \A k \in DOMAIN Status : Status[k].op \in Asking
  /\ Len(Status) = 2
<1>1. /\ \A a \in Nat : \A op \in Asking \cup {"wren", "pp", "sse", "pixel"} :
             Instruction(op, a) \in Symbol /\ Instruction(op, a).op = op
      /\ \A b \in SUBSET Bits : Datum(b) \in Symbol /\ Datum(b).op = "data"
  BY DEF Instruction, Datum, Symbol, Asking
<1>2. Pixel \in Symbol /\ Dummy \in Symbol /\ Dummy.op = "dummy" /\ Pixel.op = "pixel"
  BY DEF Pixel, Dummy, Instruction, Symbol, Asking
<1>3. Instruction("rdsr", 0) \in Symbol /\ Instruction("rdsr", 0).op = "rdsr"
  BY <1>1 DEF Asking
<1>4. Status \in Seq(Symbol) /\ Len(Status) = 2 /\ Status[1] = Instruction("rdsr", 0) /\ Status[2] = Dummy
  BY <1>2, <1>3 DEF Status
<1>5. \A k \in DOMAIN Status : Status[k].op \in Asking
  <2>1. DOMAIN Status = 1 .. 2
    BY <1>4
  <2> QED
    BY <2>1, <1>2, <1>3, <1>4 DEF Asking
<1> QED
  BY <1>1, <1>2, <1>4, <1>5

LEMMA AfterType == ASSUME Typed PROVE After \in [Address -> SUBSET Bits]
<1>1. CASE busy.op = "pp"
  <2>1. \A k \in DOMAIN busy.data : busy.data[k] \in SUBSET Bits
    BY DEF Typed, Bytes
  <2> QED
    BY <1>1, <2>1 DEF After, Programmed, Typed
<1>2. CASE busy.op = "sse"
  BY <1>2 DEF After, Erased, Typed
<1>3. CASE busy.op = "none"
  BY <1>3 DEF After, Typed
<1> QED
  BY <1>1, <1>2, <1>3 DEF Typed

LEMMA ExecuteType ==
  ASSUME Typed, Execute
  PROVE  /\ wel' \in BOOLEAN /\ mem' \in [Address -> SUBSET Bits]
         /\ busy' \in [op : {"none", "pp", "sse"}, at : Nat, data : Bytes]
<1> DEFINE data == [k \in 1 .. Len(shift) - 1 |-> shift[k + 1].byte]
<1>1. wel' \in BOOLEAN /\ mem' = mem
  BY DEF Execute, Typed
<1>2. CASE shift = << >>
  BY <1>1, <1>2 DEF Execute, Typed
<1>3. CASE shift # << >>
  <2>1. Len(shift) \in Nat /\ Len(shift) >= 1 /\ shift \in Seq(Symbol)
    BY <1>3 DEF Typed
  <2>2. Head(shift).at \in Nat
    <3>1. Head(shift) \in Symbol
      BY <2>1
    <3> QED
      BY <3>1 DEF Symbol
  <2>3. \A k \in 1 .. Len(shift) - 1 : k + 1 \in 1 .. Len(shift) /\ shift[k + 1].byte \in SUBSET Bits
    <3> SUFFICES ASSUME NEW k \in 1 .. Len(shift) - 1
                 PROVE  k + 1 \in 1 .. Len(shift) /\ shift[k + 1].byte \in SUBSET Bits
      OBVIOUS
    <3>1. k + 1 \in 1 .. Len(shift)
      BY <2>1
    <3>2. shift[k + 1] \in Symbol
      BY <2>1, <3>1
    <3> QED
      BY <3>1, <3>2 DEF Symbol
  <2>4. Len(shift) - 1 \in Nat
    BY <2>1
  <2>5. data \in Bytes
    BY <2>3, <2>4 DEF Bytes
  <2>6. \/ busy' = busy
        \/ busy' = [op |-> "pp", at |-> Head(shift).at, data |-> data]
        \/ busy' = [op |-> "sse", at |-> Head(shift).at, data |-> << >>]
    BY <1>3 DEF Execute
  <2> HIDE DEF data
  <2>7. << >> \in Bytes
    BY Consts
  <2> QED
    BY <1>1, <2>2, <2>5, <2>6, <2>7 DEF Typed
<1> QED
  BY <1>2, <1>3

-----------------------------------------------------------------------------
LEMMA InitIInv == Init => IInv
<1> SUFFICES ASSUME Init PROVE IInv
  OBVIOUS
<1>1. << >> \in Bytes /\ << >> \in Seq(Symbol) /\ Len(<< >>) = 0
  BY Consts
<1>2. Typed
  BY <1>1 DEF Init, BusInit, FlashInit, Typed, Done, Returned
<1>3. CallOK
  BY <1>1 DEF Init, FlashInit, CallOK, NoCall
<1>4. counter \in 0 .. Patience
  BY Consts DEF Init, FlashInit, Patience, NoCall
<1> QED
  BY <1>2, <1>3, <1>4 DEF IInv, Init

(* A call begins.                                                          *)
LEMMA CallIInv == ASSUME IInv, FlashCall PROVE IInv'
<1>1. Typed /\ CallOK /\ UNCHANGED <<mem, wel, busy, sync, selected, shift, powered>>
  BY DEF IInv, FlashCall, Call, chipVars, busVars
<1>2. ASSUME NEW a \in Address, NEW d \in Data, a + Len(d) <= FLASH_SIZE, FlashProgram(a, d)
      PROVE  CallOK' /\ counter' = 0 /\ phase' = "check" /\ out' = Status
  <2> DEFINE margin == PAGE - (a % PAGE)
             c == [op |-> "pp", at |-> a, data |-> d, sent |-> 0,
                   n |-> Least(Len(d), margin), more |-> Len(d) > margin]
  <2>1. call' = c /\ counter' = 0 /\ phase' = "check" /\ out' = Status
    BY <1>2 DEF FlashProgram, Check, Begin
  <2>2. /\ a \in Nat /\ d \in Bytes /\ Len(d) \in Nat /\ margin \in 1 .. PAGE /\ a % PAGE \in 0 .. PAGE - 1
        /\ (a + margin) % PAGE = 0 /\ PAGE \in Nat
    <3>1. a \in Nat /\ d \in Bytes /\ PAGE \in Nat
      BY Consts DEF Address
    <3>2. Len(d) \in Nat
      BY <3>1 DEF Bytes
    <3> QED
      BY <3>1, <3>2, InPage
  <2>3. /\ Least(Len(d), margin) \in Nat /\ Least(Len(d), margin) <= Len(d) /\ Least(Len(d), margin) <= margin
        /\ Len(d) > margin => Least(Len(d), margin) = margin
        /\ ~(Len(d) > margin) => Least(Len(d), margin) = Len(d)
    <3> HIDE DEF margin
    <3> QED
      BY <2>2 DEF Least
  <2>4. (a % PAGE) + Least(Len(d), margin) <= PAGE
    BY <2>2, <2>3
  <2>5. (a - 0) + Len(d) <= FLASH_SIZE /\ 0 <= a /\ 0 + Least(Len(d), margin) = Least(Len(d), margin)
    BY <1>2, <2>2, <2>3
  <2> HIDE DEF margin
  <2>6. call' \in [op : {"none", "pp", "sse", "read"}, at : Nat, data : Bytes, sent : Nat, n : Nat,
                   more : BOOLEAN]
    BY <2>1, <2>2, <2>3
  <2>7. /\ call'.op = "pp" /\ call'.at = a /\ call'.data = d /\ call'.sent = 0
        /\ call'.n = Least(Len(d), margin) /\ call'.more = (Len(d) > margin)
    BY <2>1
  <2> QED
    BY <2>1, <2>2, <2>3, <2>4, <2>5, <2>6, <2>7 DEF CallOK
<1>3. ASSUME NEW s \in 0 .. SECTORS - 1, FlashSubSectorErase(s)
      PROVE  CallOK' /\ counter' = 0 /\ phase' = "check" /\ out' = Status
  <2>1. /\ call' = [op |-> "sse", at |-> s, data |-> << >>, sent |-> 0, n |-> 0, more |-> FALSE]
        /\ counter' = 0 /\ phase' = "check" /\ out' = Status
    BY <1>3 DEF FlashSubSectorErase, Check, Begin, NoCall
  <2>2. s \in Nat /\ Len(<< >>) = 0 /\ << >> \in Bytes
    BY Consts
  <2> QED
    BY <2>1, <2>2 DEF CallOK
<1>4. ASSUME NEW a \in Address, FlashRead(a)
      PROVE  CallOK' /\ phase' = "read" /\ out' \in Seq(Symbol) /\ counter' = counter /\ call'.op = "read"
  <2>1. /\ call' = [op |-> "read", at |-> a, data |-> << >>, sent |-> 0, n |-> 0, more |-> FALSE]
        /\ counter' = counter /\ phase' = "read" /\ out' = <<Instruction("read", a), Dummy>>
    BY <1>4 DEF FlashRead, Begin, NoCall
  <2>2. a \in Nat /\ Len(<< >>) = 0 /\ << >> \in Bytes
    BY Consts DEF Address
  <2>3. out' \in Seq(Symbol)
    BY <2>1, <2>2, Symbols DEF Asking
  <2> QED
    BY <2>1, <2>2, <2>3 DEF CallOK
<1>5. before' \in [Address -> SUBSET Bits] /\ outcome' \in Returned
  BY <1>1, AfterType DEF FlashCall, Call, FlashRead, Typed
<1>6. Patience' \in Nat /\ Patience \in Nat
  BY Consts DEF Patience
<1>7. CallOK' /\ phase' \in {"check", "read"} /\ out' \in Seq(Symbol)
  BY <1>2, <1>3, <1>4, Symbols DEF FlashCall, Call
<1>8. counter' \in 0 .. Patience'
  <2>1. CASE counter' = 0
    BY <2>1, <1>6
  <2>2. CASE counter' = counter /\ call'.op = "read"
    <3>1. Patience' = COUNT_FOR_A_SECOND * 3 /\ Patience <= COUNT_FOR_A_SECOND * 3
      BY <2>2, Consts DEF Patience
    <3> QED
      BY <2>2, <3>1, <1>6 DEF IInv
  <2> QED
    BY <1>2, <1>3, <1>4, <2>1, <2>2 DEF FlashCall, Call
<1>9. powered
  BY DEF FlashCall, Turn
<1> QED
  BY <1>1, <1>5, <1>7, <1>8, <1>9 DEF IInv, Typed

(* The end of a page: its successor is in the call, or the call is over.   *)
LEMMA NextPageIInv ==
  ASSUME CallOK, phase = "poll", NextPage
  PROVE  /\ CallOK' /\ counter' = 0 /\ call'.op = call.op
         /\ \/ phase' = "idle" /\ out' = << >> /\ outcome' \in {"Success", "AddressInvalid"}
            \/ phase' = "check" /\ out' = Status /\ outcome' = outcome /\ FLASH_SIZE > call.at + call.n
         /\ before' = before
<1> DEFINE n == Least(Left, PAGE)
<1>1. /\ call \in [op : {"none", "pp", "sse", "read"}, at : Nat, data : Bytes, sent : Nat, n : Nat,
                   more : BOOLEAN]
      /\ call.sent + call.n <= Len(call.data) /\ Len(call.data) \in Nat
      /\ call.op \in {"pp", "sse"}
  <2>1. call.data \in Seq(SUBSET Bits)
    BY DEF CallOK, Bytes
  <2>2. Len(call.data) \in Nat
    BY <2>1
  <2> QED
    BY <2>2 DEF CallOK
<1>2. CASE Return("Success") \/ Return("AddressInvalid")
  <2>1. phase' = "idle" /\ out' = << >> /\ counter' = 0 /\ call' = call /\ before' = before
        /\ outcome' \in {"Success", "AddressInvalid"}
    BY <1>2 DEF Return
  <2> QED
    BY <2>1 DEF CallOK
<1>3. CASE ~(Return("Success") \/ Return("AddressInvalid"))
  <2>1. /\ call.more /\ ~(call.at + call.n >= FLASH_SIZE)
        /\ phase' = "check" /\ out' = Status /\ counter' = 0 /\ outcome' = outcome /\ before' = before
        /\ call' = [call EXCEPT !.at = call.at + call.n, !.sent = @ + call.n, !.n = n, !.more = n = PAGE]
    BY <1>3 DEF NextPage, Check, Begin
  <2>2. call.op = "pp"
    BY <2>1, <1>1 DEF CallOK
  <2>3. /\ call.sent <= call.at /\ (call.at - call.sent) + Len(call.data) <= FLASH_SIZE
        /\ (call.at + call.n) % PAGE = 0
    BY <2>1, <2>2 DEF CallOK
  <2>4. /\ Left \in Nat /\ Left = Len(call.data) - call.sent - call.n
        /\ PAGE \in Nat /\ FLASH_SIZE \in Nat
        /\ call.at \in Nat /\ call.n \in Nat /\ call.sent \in Nat
    BY <1>1, Consts DEF Left
  <2>5. n \in Nat /\ n <= PAGE /\ n <= Left /\ (n # PAGE => n = Left)
    BY <2>4 DEF Least
  <2> HIDE DEF n
  <2>6. /\ call'.op = "pp" /\ call'.at = call.at + call.n /\ call'.sent = call.sent + call.n
        /\ call'.n = n /\ call'.more = (n = PAGE) /\ call'.data = call.data
        /\ call' \in [op : {"none", "pp", "sse", "read"}, at : Nat, data : Bytes, sent : Nat, n : Nat,
                      more : BOOLEAN]
    <3>1. call.at + call.n \in Nat /\ call.sent + call.n \in Nat
      BY <2>4
    <3> QED
      BY <2>1, <2>2, <2>5, <3>1, <1>1
  <2>7. call'.sent + call'.n <= Len(call'.data)
    BY <2>4, <2>5, <2>6, <1>1
  <2>8. call'.sent <= call'.at /\ (call'.at - call'.sent) + Len(call'.data) <= FLASH_SIZE
    BY <2>3, <2>4, <2>6, <1>1
  <2>9. (call'.at % PAGE) + call'.n <= PAGE
    BY <2>3, <2>4, <2>5, <2>6
  <2>10. call'.more => (call'.at + call'.n) % PAGE = 0
    <3>1. (call'.at + (PAGE - (call'.at % PAGE))) % PAGE = 0 /\ call'.at % PAGE = 0
      BY <2>3, <2>4, <2>6, InPage
    <3>2. PAGE - 0 = PAGE
      BY <2>4
    <3> QED
      BY <3>1, <3>2, <2>6
  <2>11. ~call'.more => call'.sent + call'.n = Len(call'.data)
    <3>1. n # PAGE => (call.sent + call.n) + n = Len(call.data)
      BY <2>4, <2>5, <1>1
    <3> QED
      BY <3>1, <2>6
  <2>12. CallOK'
    BY <2>6, <2>7, <2>8, <2>9, <2>10, <2>11 DEF CallOK
  <2>13. FLASH_SIZE > call.at + call.n
    BY <2>1, <2>4
  <2> QED
    BY <2>1, <2>2, <2>6, <2>12, <2>13
<1> QED
  BY <1>2, <1>3

LEMMA OperationType ==
  ASSUME CallOK, call.op \in {"pp", "sse"}
  PROVE  /\ Operation \in Seq(Symbol)
         /\ \A k \in DOMAIN Operation : Operation[k].op # "pixel"
<1>1. /\ call.data \in Seq(SUBSET Bits) /\ call.n \in Nat /\ call.sent \in Nat /\ call.at \in Nat
      /\ call.sent + call.n <= Len(call.data)
  BY DEF CallOK, Bytes
<1>2. ASSUME NEW k \in 1 .. call.n PROVE Chunk[k] \in Symbol /\ Chunk[k].op = "data"
  <2>1. call.sent + k \in 1 .. Len(call.data)
    BY <1>1
  <2>2. call.data[call.sent + k] \in SUBSET Bits
    BY <1>1, <2>1
  <2> QED
    BY <2>2, Symbols DEF Chunk
<1>3. Chunk \in Seq(Symbol) /\ Len(Chunk) = call.n
  <2>1. \A k \in 1 .. call.n : Datum(call.data[call.sent + k]) \in Symbol
    BY <1>2 DEF Chunk
  <2> QED
    BY <2>1, <1>1 DEF Chunk
<1>4. <<Instruction(call.op, call.at)>> \in Seq(Symbol) /\ Instruction(call.op, call.at).op = call.op
  BY <1>1, Symbols
<1> DEFINE head == <<Instruction(call.op, call.at)>>
<1>5. Operation = head \o Chunk
  BY DEF Operation
<1>6. Operation \in Seq(Symbol)
  BY <1>3, <1>4, <1>5
<1>7. DOMAIN Operation = 1 .. (call.n + 1)
  BY <1>1, <1>3, <1>4, <1>5
<1>8. Operation[1].op = call.op
  BY <1>1, <1>3, <1>4, <1>5
<1>9. ASSUME NEW k \in 2 .. (call.n + 1) PROVE Operation[k].op = "data"
  <2>1. k - 1 \in 1 .. call.n
    BY <1>1
  <2>2. Operation[k] = Chunk[k - 1]
    BY <2>1, <1>1, <1>3, <1>4, <1>5
  <2> QED
    BY <2>1, <2>2, <1>2
<1>10. \A k \in DOMAIN Operation : k = 1 \/ k \in 2 .. (call.n + 1)
  BY <1>1, <1>7
<1>11. \A k \in DOMAIN Operation : Operation[k].op # "pixel"
  BY <1>8, <1>9, <1>10
<1> QED
  BY <1>6, <1>11

(* What the end of a transaction leads to.                                 *)
LEMMA DeselectCases ==
  ASSUME IInv, Deselect
  PROVE  /\ phase # "idle" /\ selected /\ out = << >> /\ disable_cs /\ Execute
         /\ \/ phase = "check" /\ busy # Done /\ Return("OperationOngoing")
            \/ /\ phase = "check" /\ busy = Done /\ phase' = "wren" /\ out' = <<Instruction("wren", 0)>>
               /\ UNCHANGED <<call, counter, outcome, before>>
            \/ /\ phase = "wren" /\ phase' = "op" /\ out' = Operation
               /\ UNCHANGED <<call, counter, outcome, before>>
            \/ /\ phase = "op" /\ phase' = "poll" /\ out' = Status
               /\ UNCHANGED <<call, counter, outcome, before>>
            \/ /\ phase = "poll" /\ busy # Done /\ counter = Patience /\ Return("OperationTimeOut")
            \/ /\ phase = "poll" /\ busy # Done /\ counter # Patience /\ phase' = "poll" /\ out' = Status
               /\ counter' = counter + 1 /\ UNCHANGED <<call, outcome, before>>
            \/ phase = "poll" /\ busy = Done /\ NextPage
            \/ phase = "read" /\ phase' = "idle" /\ UNCHANGED <<out, call, counter, outcome, before>>
<1>1. phase \in {"check", "wren", "op", "poll", "read"}
  BY DEF Deselect, IInv, Typed
<1> DEFINE P == phase
<1>2. CASE phase = "check"
  <2>1. AfterCheck
    BY <1>2 DEF Deselect
  <2> QED
    BY <1>2, <2>1 DEF Deselect, AfterCheck, Begin
<1>3. CASE phase = "wren"
  BY <1>3 DEF Deselect, Begin
<1>4. CASE phase = "op"
  BY <1>4 DEF Deselect, Begin, Poll
<1>5. CASE phase = "poll"
  <2>1. IF busy # Done THEN StillBusy ELSE NextPage
    BY <1>5 DEF Deselect
  <2> QED
    BY <1>5, <2>1 DEF Deselect, StillBusy, Poll, Begin
<1>6. CASE phase = "read"
  BY <1>6 DEF Deselect
<1> QED
  BY <1>1, <1>2, <1>3, <1>4, <1>5, <1>6

LEMMA DeselectIInv == ASSUME IInv, powered' = powered, Deselect PROVE IInv'
<1>1. /\ Execute /\ sync' = FALSE /\ selected' = FALSE /\ shift' = << >>
      /\ Typed /\ CallOK /\ counter \in 0 .. Patience /\ phase # "idle" /\ powered
  BY DEF Deselect, disable_cs, IInv
<1>2. /\ wel' \in BOOLEAN /\ mem' \in [Address -> SUBSET Bits]
      /\ busy' \in [op : {"none", "pp", "sse"}, at : Nat, data : Bytes]
  BY <1>1, ExecuteType
<1>3. Patience \in Nat /\ (call'.op = call.op => Patience' = Patience)
  BY Consts DEF Patience
<1>4. << >> \in Seq(Symbol)
  OBVIOUS
<1> DEFINE Goal == /\ CallOK' /\ counter' \in 0 .. Patience' /\ out' \in Seq(Symbol) /\ outcome' \in Returned
                   /\ phase' \in {"idle", "check", "wren", "op", "poll", "read"} /\ before' = before
<1>5. ASSUME NEW r \in Returned, Return(r) PROVE Goal
  <2>1. call' = call /\ phase' = "idle" /\ counter' = 0 /\ out' = << >> /\ outcome' = r /\ before' = before
    BY <1>5 DEF Return
  <2>2. CallOK' /\ 0 \in 0 .. Patience'
    BY <2>1, <1>1, <1>3 DEF CallOK
  <2> QED
    BY <2>1, <2>2, <1>4
<1>6. ASSUME phase = "poll", NextPage PROVE Goal
  <2>1. /\ CallOK' /\ counter' = 0 /\ call'.op = call.op
        /\ \/ phase' = "idle" /\ out' = << >> /\ outcome' \in {"Success", "AddressInvalid"}
           \/ phase' = "check" /\ out' = Status /\ outcome' = outcome
        /\ before' = before
    BY <1>1, <1>6, NextPageIInv
  <2>2. counter' \in 0 .. Patience'
    BY <2>1, <1>3
  <2> QED
    BY <2>1, <2>2, <1>1, <1>4, Symbols DEF Typed, Returned
<1>7. ASSUME counter # Patience, phase = "poll", phase' = "poll", out' = Status,
             counter' = counter + 1, UNCHANGED <<call, outcome, before>>
      PROVE  Goal
  <2>1. counter' \in 0 .. Patience'
    BY <1>1, <1>3, <1>7
  <2> QED
    BY <2>1, <1>1, <1>7, Symbols DEF CallOK, Typed
<1>8. ASSUME phase \in {"check", "wren", "op"}, phase' \in {"wren", "op", "poll"},
             out' \in {<<Instruction("wren", 0)>>, Operation, Status},
             UNCHANGED <<call, counter, outcome, before>>
      PROVE  Goal
  <2>1. call.op \in {"pp", "sse"}
    BY <1>1, <1>8 DEF CallOK
  <2>2. out' \in Seq(Symbol)
    <3>1. <<Instruction("wren", 0)>> \in Seq(Symbol)
      BY Symbols
    <3> QED
      BY <2>1, <3>1, <1>1, <1>8, Symbols, OperationType
  <2> QED
    BY <2>1, <2>2, <1>1, <1>3, <1>8 DEF CallOK, Typed
<1>9. ASSUME phase' = "idle", UNCHANGED <<out, call, counter, outcome, before>> PROVE Goal
  BY <1>1, <1>3, <1>9 DEF CallOK, Typed
<1>10. Goal
  <2>1. {"OperationOngoing", "OperationTimeOut"} \subseteq Returned
    BY DEF Returned
  <2> HIDE DEF Goal
  <2> QED
    BY <2>1, <1>5, <1>6, <1>7, <1>8, <1>9, DeselectCases
<1> QED
  BY <1>1, <1>2, <1>4, <1>10 DEF IInv, Typed

LEMMA NextIInv == ASSUME IInv, [Next]_vars PROVE IInv'
<1>1. CASE FlashCall
  BY <1>1, CallIInv
<1>2. CASE FlashStep
  <2>1. CASE Select
    <3>1. << >> \in Seq(Symbol)
      OBVIOUS
    <3> QED
      BY <1>2, <2>1, <3>1
      DEF FlashStep, Select, enable_cs, flashVars, IInv, Typed, CallOK, Patience
  <2>2. CASE Byte
    <3>1. /\ Head(out) \in Symbol /\ out' \in Seq(Symbol)
          /\ shift' \in Seq(Symbol)
      <4>1. out \in Seq(Symbol) /\ out # << >> /\ out' = Tail(out) /\ shift \in Seq(Symbol)
        BY <2>2 DEF Byte, IInv, Typed
      <4>2. Head(out) \in Symbol /\ out' \in Seq(Symbol)
        BY <4>1
      <4> QED
        BY <2>2, <4>1, <4>2 DEF Byte, WordSend
    <3> QED
      BY <1>2, <2>2, <3>1 DEF FlashStep, Byte, WordSend, chipVars, IInv, Typed, CallOK, Patience
  <2>3. CASE Deselect
    BY <1>2, <2>3, DeselectIInv DEF FlashStep
  <2> QED
    BY <1>2, <2>1, <2>2, <2>3 DEF FlashStep, Driver
<1>3. CASE ChipStep
  <2>1. mem' \in [Address -> SUBSET Bits]
    BY <1>3, AfterType DEF ChipStep, ChipDone, IInv
  <2>2. << >> \in Bytes
    BY Consts
  <2>3. busy' \in [op : {"none", "pp", "sse"}, at : Nat, data : Bytes] /\ wel' \in BOOLEAN
    BY <1>3, <2>2 DEF ChipStep, ChipDone, Done
  <2> QED
    BY <1>3, <2>1, <2>3 DEF ChipStep, ChipDone, driverVars, busVars, IInv, Typed, CallOK, Patience
<1>4. CASE DrawCall
  BY <1>4 DEF DrawCall, flashVars, busVars, IInv, Typed, CallOK, Patience
<1>5. CASE DrawStep
  <2>1. shift' \in Seq(Symbol) /\ sync' \in BOOLEAN /\ selected' \in BOOLEAN
    <3>1. shift \in Seq(Symbol) /\ Pixel \in Symbol /\ sync \in BOOLEAN /\ selected \in BOOLEAN
      BY Symbols DEF IInv, Typed
    <3>2. Append(shift, Pixel) \in Seq(Symbol)
      BY <3>1
    <3> QED
      BY <1>5, <3>1, <3>2 DEF DrawStep, SyncHigh, SyncLow, WordSend
  <2> QED
    BY <1>5, <2>1 DEF DrawStep, flashVars, IInv, Typed, CallOK, Patience
<1>6. CASE PowerLoss
  <2>1. /\ wel' = FALSE /\ busy' = Done /\ phase' = "idle" /\ out' = << >> /\ counter' = 0
        /\ UNCHANGED <<call, outcome>> /\ powered' = FALSE
        /\ sync' = FALSE /\ selected' = FALSE /\ shift' = << >>
    BY <1>6 DEF PowerLoss, PowerFails
  <2>2. mem' \in [Address -> SUBSET Bits]
    <3>1. After \in [Address -> SUBSET Bits] /\ mem \in [Address -> SUBSET Bits]
      BY AfterType DEF IInv, Typed
    <3>2. PICK done \in SUBSET Address :
            mem' = [a \in Address |-> IF a \in done THEN After[a] ELSE mem[a]]
      BY <1>6 DEF PowerLoss, PowerFails
    <3> QED
      BY <3>1, <3>2
  <2>3. before' \in [Address -> SUBSET Bits]
    BY <1>6, <2>2 DEF PowerLoss, PowerFails, IInv, Typed
  <2>4. << >> \in Bytes /\ << >> \in Seq(Symbol) /\ Patience' \in Nat
    BY Consts DEF Patience
  <2>5. busy' \in [op : {"none", "pp", "sse"}, at : Nat, data : Bytes]
    BY <2>1, <2>4 DEF Done
  <2>6. CallOK'
    BY <2>1 DEF IInv, CallOK
  <2>7. Typed'
    BY <2>1, <2>2, <2>3, <2>4, <2>5 DEF IInv, Typed
  <2>8. counter' \in 0 .. Patience'
    BY <2>1, <2>4
  <2> QED
    BY <2>1, <2>6, <2>7, <2>8 DEF IInv
<1>7. CASE PowerOn
  <2>1. /\ call' = NoCall /\ outcome' = "Success" /\ before' = mem /\ powered' = TRUE /\ phase = "idle"
        /\ UNCHANGED <<chipVars, phase, out, counter, busVars>>
    BY <1>7 DEF PowerOn, PowerReturns, IInv
  <2>2. counter' \in 0 .. Patience'
    <3>1. Patience' = COUNT_FOR_A_SECOND * 3 /\ Patience <= COUNT_FOR_A_SECOND * 3
      BY <2>1, Consts DEF Patience, NoCall
    <3>2. Patience \in Nat /\ Patience' \in Nat
      BY Consts DEF Patience
    <3> QED
      BY <2>1, <3>1, <3>2 DEF IInv
  <2>3. << >> \in Bytes /\ Len(<< >>) = 0
    BY Consts
  <2>4. CallOK'
    BY <2>1, <2>3 DEF CallOK, NoCall
  <2> QED
    BY <2>1, <2>2, <2>4 DEF IInv, Typed, Returned, chipVars, busVars
<1>8. CASE UNCHANGED vars
  BY <1>8 DEF vars, flashVars, busVars, IInv, Typed, CallOK, Patience
<1> QED
  BY <1>1, <1>2, <1>3, <1>4, <1>5, <1>6, <1>7, <1>8 DEF Next

(* Whatever the other driver does, a flash call keeps to its own account   *)
(* of bytes and addresses, and counts its polls: the inductive invariant.  *)
THEOREM Invariant == Spec => []IInv
<1>1. IInv /\ [Next]_vars => IInv'
  BY NextIInv
<1> QED
  BY InitIInv, <1>1, PTL DEF Spec

(* The variables have their types; FlashProgram stays in the flash for     *)
(* every address and length, and each of its chunks in one page, whose     *)
(* address would otherwise wrap in the chip.                               *)
THEOREM TypeCorrect == Spec => []TypeOK
<1>1. ASSUME IInv PROVE TypeOK
  <2>1. ASSUME call.op = "pp"
        PROVE  /\ Range(Begun, Len(call.data)) \subseteq Address
               /\ (call.at % PAGE) + call.n <= PAGE
               /\ Left >= 0 /\ (Left > 0 => call.more)
    <3>1. /\ call.data \in Seq(SUBSET Bits) /\ call.sent \in Nat /\ call.n \in Nat /\ call.at \in Nat
          /\ call.sent <= call.at /\ (call.at - call.sent) + Len(call.data) <= FLASH_SIZE
          /\ call.sent + call.n <= Len(call.data)
          /\ (call.at % PAGE) + call.n <= PAGE
          /\ ~call.more => call.sent + call.n = Len(call.data)
      BY <1>1, <2>1 DEF IInv, CallOK, Bytes
    <3>2. Len(call.data) \in Nat /\ FLASH_SIZE \in Nat
      BY <3>1, Consts
    <3>3. Range(Begun, Len(call.data)) \subseteq Address
      BY <3>1, <3>2 DEF Range, Begun, Address
    <3>4. Left >= 0 /\ (Left > 0 => call.more)
      BY <3>1, <3>2 DEF Left
    <3> QED
      BY <3>1, <3>3, <3>4
  <2> QED
    BY <1>1, <2>1 DEF IInv, Typed, TypeOK
<1> QED
  BY Invariant, <1>1, PTL

-----------------------------------------------------------------------------
(* Flash and display calls in turn.                                        *)

(* The flash is selected only in a transaction of the driver, with the     *)
(* FPGA deaf, and what it is sent is no pixel.                             *)
Lines ==
  /\ phase # "idle" => drawing = << >>
  /\ selected => phase # "idle" /\ sync
  /\ \A k \in DOMAIN shift : shift[k].op # "pixel"
  /\ \A k \in DOMAIN out : out[k].op # "pixel"

(* How far a display call has got, by the statements left of it.           *)
Drawing ==
  /\ drawing \in Seq({"high", "low", "send"}) /\ Len(drawing) <= PIXEL + 2
  /\ \A k \in 1 .. Len(drawing) :
       drawing[k] = IF k + (PIXEL + 2 - Len(drawing)) = 1 THEN "high"
                    ELSE IF k + (PIXEL + 2 - Len(drawing)) = 2 THEN "low" ELSE "send"
  /\ Len(drawing) = PIXEL + 1 => heard = << >> /\ sync
  /\ Len(drawing) \in 1 .. PIXEL => ~sync
  /\ Len(drawing) \in 1 .. PIXEL => heard = [k \in 1 .. PIXEL - Len(drawing) |-> Pixel]
  /\ Len(drawing) \in {0, PIXEL + 2} => heard \in {<< >>, Pixels}

BInv == Lines /\ Drawing

LEMMA DisplayCallShape ==
  /\ DisplayCall \in Seq({"high", "low", "send"}) /\ Len(DisplayCall) = PIXEL + 2
  /\ \A k \in 1 .. (PIXEL + 2) :
       DisplayCall[k] = IF k = 1 THEN "high" ELSE IF k = 2 THEN "low" ELSE "send"
<1> DEFINE sends == [k \in 1 .. PIXEL |-> "send"]
<1>1. PIXEL \in Nat /\ sends \in Seq({"high", "low", "send"}) /\ Len(sends) = PIXEL
  BY Consts
<1>2. <<"high", "low">> \in Seq({"high", "low", "send"}) /\ Len(<<"high", "low">>) = 2
  OBVIOUS
<1>3. DisplayCall = <<"high", "low">> \o sends
  BY DEF DisplayCall
<1>4. ASSUME NEW k \in 1 .. (PIXEL + 2)
      PROVE  DisplayCall[k] = IF k = 1 THEN "high" ELSE IF k = 2 THEN "low" ELSE "send"
  <2>1. CASE k \in 1 .. 2
    BY <2>1, <1>1, <1>2, <1>3
  <2>2. CASE k \notin 1 .. 2
    <3>1. k - 2 \in 1 .. PIXEL
      BY <2>2, <1>1
    <3> HIDE DEF sends
    <3>2. DisplayCall[k] = sends[k - 2]
      BY <3>1, <2>2, <1>1, <1>2, <1>3
    <3> USE DEF sends
    <3> QED
      BY <3>1, <3>2, <2>2
  <2> QED
    BY <2>1, <2>2
<1> QED
  BY <1>1, <1>2, <1>3, <1>4

LEMMA InitBInv == Init => BInv
<1> SUFFICES ASSUME Init PROVE BInv
  OBVIOUS
<1>1. << >> \in Seq({"high", "low", "send"}) /\ Len(<< >>) = 0 /\ DOMAIN << >> = {}
  OBVIOUS
<1>2. PIXEL \in Nat /\ PIXEL >= 1
  BY Consts
<1>3. Lines
  BY <1>1 DEF Init, BusInit, FlashInit, Lines
<1>4. Drawing
  BY <1>1, <1>2 DEF Init, BusInit, FlashInit, Drawing
<1> QED
  BY <1>3, <1>4 DEF BInv

(* A symbol at the end of what the flash has received.                     *)
LEMMA AppendShift ==
  ASSUME Typed, NEW y \in Symbol, y.op # "pixel", shift' = Append(shift, y),
         \A k \in DOMAIN shift : shift[k].op # "pixel"
  PROVE  \A k \in DOMAIN shift' : shift'[k].op # "pixel"
<1>1. shift \in Seq(Symbol) /\ Len(shift) \in Nat /\ DOMAIN shift = 1 .. Len(shift)
  BY DEF Typed
<1>2. DOMAIN shift' = 1 .. (Len(shift) + 1) /\ shift'[Len(shift) + 1] = y
      /\ \A k \in 1 .. Len(shift) : shift'[k] = shift[k]
  BY <1>1
<1>3. \A k \in 1 .. (Len(shift) + 1) : k \in 1 .. Len(shift) \/ k = Len(shift) + 1
  BY <1>1
<1> QED
  BY <1>1, <1>2, <1>3

LEMMA FlashBInv == ASSUME ~Concurrent, IInv, BInv, FlashCall \/ FlashStep PROVE BInv'
<1>1. /\ drawing = << >> /\ drawing' = << >> /\ heard \in {<< >>, Pixels} /\ Lines
  <2>1. drawing = << >> /\ drawing' = drawing
    BY DEF FlashCall, FlashStep, Turn
  <2>2. Len(<< >>) = 0
    OBVIOUS
  <2> QED
    BY <2>1, <2>2 DEF BInv, Drawing
<1>2. ASSUME heard' \in {<< >>, Pixels} PROVE Drawing'
  <2>1. << >> \in Seq({"high", "low", "send"}) /\ Len(<< >>) = 0 /\ PIXEL \in Nat /\ PIXEL >= 1
    BY Consts
  <2> QED
    BY <1>1, <1>2, <2>1 DEF Drawing
<1>3. CASE FlashCall
  <2>1. UNCHANGED <<sync, selected, shift, heard>> /\ phase = "idle" /\ ~selected
    BY <1>1, <1>3 DEF FlashCall, Call, busVars, Lines
  <2>2. \A k \in DOMAIN out' : out'[k].op # "pixel"
    <3>1. CASE out' = Status
      BY <3>1, Symbols DEF Asking
    <3>2. ASSUME NEW a \in Address, FlashRead(a) PROVE \A k \in DOMAIN out' : out'[k].op # "pixel"
      <4>1. out' = <<Instruction("read", a), Dummy>>
        BY <3>2 DEF FlashRead, Begin
      <4>2. Instruction("read", a).op = "read" /\ Dummy.op = "dummy"
        BY DEF Instruction, Dummy
      <4> QED
        BY <4>1, <4>2
    <3> QED
      BY <1>3, <3>1, <3>2 DEF FlashCall, Call, FlashProgram, FlashSubSectorErase, Check, Begin
  <2>3. Lines'
    BY <2>1, <2>2, <1>1 DEF Lines
  <2> QED
    BY <2>1, <2>3, <1>1, <1>2 DEF BInv
<1>4. CASE FlashStep
  <2>1. CASE Select
    <3>1. /\ phase # "idle" /\ selected' = TRUE /\ sync' = TRUE /\ shift' = << >> /\ heard' = << >>
          /\ UNCHANGED <<phase, out>>
      BY <2>1 DEF Select, enable_cs, flashVars
    <3>2. Lines'
      BY <3>1, <1>1 DEF Lines
    <3> QED
      BY <3>1, <3>2, <1>2 DEF BInv
  <2>2. CASE Byte
    <3>1. /\ phase # "idle" /\ selected /\ sync /\ out # << >>
          /\ shift' = Append(shift, Head(out)) /\ out' = Tail(out) /\ heard' = heard
          /\ UNCHANGED <<sync, selected, phase>>
      BY <2>2, <1>1 DEF Byte, WordSend, Lines
    <3>2. /\ out \in Seq(Symbol) /\ Len(out) \in Nat /\ Len(out) >= 1 /\ Head(out) \in Symbol
          /\ Head(out) = out[1] /\ DOMAIN out = 1 .. Len(out)
      BY <3>1 DEF IInv, Typed
    <3>3. Head(out).op # "pixel"
      <4>1. 1 \in DOMAIN out
        BY <3>2
      <4> QED
        BY <4>1, <3>2, <1>1 DEF Lines
    <3>4. \A k \in DOMAIN shift' : shift'[k].op # "pixel"
      BY <3>1, <3>2, <3>3, <1>1, AppendShift DEF IInv, Lines
    <3>5. \A k \in DOMAIN out' : out'[k].op # "pixel"
      <4>1. DOMAIN out' = 1 .. (Len(out) - 1) /\ \A k \in 1 .. (Len(out) - 1) : out'[k] = out[k + 1]
        BY <3>1, <3>2
      <4>2. \A k \in 1 .. (Len(out) - 1) : k + 1 \in DOMAIN out
        BY <3>2
      <4> QED
        BY <4>1, <4>2, <1>1 DEF Lines
    <3>6. Lines'
      BY <3>1, <3>4, <3>5, <1>1 DEF Lines
    <3> QED
      BY <3>1, <3>6, <1>1, <1>2 DEF BInv
  <2>3. CASE Deselect
    <3>1. /\ selected' = FALSE /\ sync' = FALSE /\ shift' = << >> /\ heard' = heard
      BY <2>3 DEF Deselect, disable_cs
    <3>2. \A k \in DOMAIN out' : out'[k].op # "pixel"
      <4>1. out' \in {<< >>, <<Instruction("wren", 0)>>, Status} \/ (phase = "wren" /\ out' = Operation)
        <5>1. CASE phase = "poll" /\ NextPage
          BY <5>1, NextPageIInv DEF IInv
        <5> QED
          BY <2>3, <5>1, DeselectCases DEF Return
      <4>2. Instruction("wren", 0).op = "wren" /\ DOMAIN << >> = {}
        BY DEF Instruction
      <4>3. CASE phase = "wren" /\ out' = Operation
        <5>1. CallOK /\ call.op \in {"pp", "sse"}
          BY <4>3 DEF IInv, CallOK
        <5> QED
          BY <4>3, <5>1, OperationType
      <4>4. CASE out' = Status
        BY <4>4, Symbols DEF Asking
      <4>5. CASE out' \in {<< >>, <<Instruction("wren", 0)>>}
        BY <4>2, <4>5
      <4> QED
        BY <4>1, <4>3, <4>4, <4>5
    <3>3. Lines'
      BY <3>1, <3>2, <1>1 DEF Lines
    <3> QED
      BY <3>1, <3>3, <1>1, <1>2 DEF BInv
  <2> QED
    BY <1>4, <2>1, <2>2, <2>3 DEF FlashStep, Driver
<1> QED
  BY <1>3, <1>4

LEMMA DrawBInv == ASSUME ~Concurrent, IInv, BInv, DrawCall \/ DrawStep PROVE BInv'
<1>1. PIXEL \in Nat /\ PIXEL >= 1 /\ Lines /\ Drawing
  BY Consts DEF BInv
<1>2. CASE DrawCall
  <2>1. /\ phase = "idle" /\ drawing = << >> /\ drawing' = DisplayCall
        /\ UNCHANGED <<sync, selected, shift, heard, phase, out>>
    BY <1>2 DEF DrawCall, Turn, flashVars, busVars
  <2>2. heard \in {<< >>, Pixels}
    <3>1. Len(<< >>) = 0
      OBVIOUS
    <3> QED
      BY <3>1, <2>1, <1>1 DEF Drawing
  <2>3. Lines'
    BY <2>1, <1>1 DEF Lines
  <2>4. Drawing'
    BY <2>1, <2>2, <1>1, DisplayCallShape DEF Drawing
  <2> QED
    BY <2>3, <2>4 DEF BInv
<1>3. CASE DrawStep
  <2> DEFINE n == Len(drawing)
  <2>1. /\ drawing # << >> /\ drawing' = Tail(drawing) /\ UNCHANGED <<selected, phase, out>>
        /\ drawing \in Seq({"high", "low", "send"})
    BY <1>1, <1>3 DEF DrawStep, SyncHigh, SyncLow, WordSend, flashVars, Drawing
  <2>2. n \in Nat /\ n >= 1 /\ n <= PIXEL + 2 /\ ~selected /\ phase = "idle"
    BY <2>1, <1>1 DEF Drawing, Lines
  <2>3. /\ drawing' \in Seq({"high", "low", "send"}) /\ Len(drawing') = n - 1
        /\ \A k \in 1 .. (n - 1) : drawing'[k] = drawing[k + 1]
        /\ Head(drawing) = drawing[1]
    BY <2>1
  <2> HIDE DEF n
  <2>4. /\ drawing[1] = IF n = PIXEL + 2 THEN "high" ELSE IF n = PIXEL + 1 THEN "low" ELSE "send"
    <3>1. /\ 1 \in 1 .. n /\ (1 + (PIXEL + 2 - n) = 1) = (n = PIXEL + 2)
          /\ (1 + (PIXEL + 2 - n) = 2) = (n = PIXEL + 1)
      BY <2>2, <1>1
    <3> QED
      BY <3>1, <1>1 DEF Drawing, n
  <2>5. ASSUME NEW k \in 1 .. (n - 1)
        PROVE  drawing'[k] = IF k + (PIXEL + 2 - (n - 1)) = 1 THEN "high"
                             ELSE IF k + (PIXEL + 2 - (n - 1)) = 2 THEN "low" ELSE "send"
    <3>1. k + 1 \in 1 .. n /\ (k + 1) + (PIXEL + 2 - n) = k + (PIXEL + 2 - (n - 1))
      BY <2>2, <1>1
    <3>2. drawing[k + 1] = IF (k + 1) + (PIXEL + 2 - n) = 1 THEN "high"
                           ELSE IF (k + 1) + (PIXEL + 2 - n) = 2 THEN "low" ELSE "send"
      BY <3>1, <1>1 DEF Drawing, n
    <3> QED
      BY <3>1, <3>2, <2>3
  <2>6. shift' = shift
    BY <1>3, <2>2 DEF DrawStep, SyncHigh, SyncLow, WordSend
  <2>7. Lines'
    BY <2>1, <2>2, <2>6, <1>1 DEF Lines
  <2>8. /\ n - 1 = PIXEL + 1 => heard' = << >> /\ sync'
        /\ n - 1 \in 1 .. PIXEL => ~sync' /\ heard' = [k \in 1 .. PIXEL - (n - 1) |-> Pixel]
        /\ n - 1 \in {0, PIXEL + 2} => heard' \in {<< >>, Pixels}
    <3>1. CASE n = PIXEL + 2
      <4>1. heard' = << >> /\ sync' = TRUE
        BY <1>3, <3>1, <2>3, <2>4 DEF DrawStep, SyncHigh
      <4>2. n - 1 = PIXEL + 1 /\ ~(n - 1 \in 1 .. PIXEL) /\ n - 1 \notin {0, PIXEL + 2}
        BY <3>1, <1>1
      <4> QED
        BY <4>1, <4>2
    <3>2. CASE n = PIXEL + 1
      <4>1. n # PIXEL + 2 /\ n - 1 = PIXEL /\ PIXEL - (n - 1) = 0 /\ n - 1 # PIXEL + 1
            /\ n - 1 \notin {0, PIXEL + 2}
        BY <3>2, <1>1
      <4>2. heard' = heard /\ sync' = FALSE
        BY <1>3, <3>2, <4>1, <2>3, <2>4 DEF DrawStep, SyncLow
      <4>3. heard = << >>
        BY <3>2, <1>1 DEF Drawing, n
      <4>4. << >> = [k \in 1 .. 0 |-> Pixel]
        OBVIOUS
      <4> QED
        BY <4>1, <4>2, <4>3, <4>4
    <3>3. CASE n \in 1 .. PIXEL
      <4>1. n # PIXEL + 2 /\ n # PIXEL + 1 /\ n - 1 # PIXEL + 1 /\ n - 1 # PIXEL + 2
            /\ PIXEL - (n - 1) = (PIXEL - n) + 1 /\ PIXEL - n \in Nat
        BY <3>3, <1>1
      <4>2. ~sync /\ heard = [k \in 1 .. PIXEL - n |-> Pixel]
        BY <3>3, <1>1 DEF Drawing, n
      <4>3. heard' = Append(heard, Pixel) /\ ~sync'
        BY <1>3, <4>1, <4>2, <2>3, <2>4 DEF DrawStep, WordSend
      <4>4. heard' = [k \in 1 .. PIXEL - (n - 1) |-> Pixel]
        <5> DEFINE m == PIXEL - n
        <5>1. m \in Nat /\ PIXEL - (n - 1) = m + 1 /\ heard = [k \in 1 .. m |-> Pixel]
          BY <4>1, <4>2
        <5> HIDE DEF m
        <5>2. heard \in Seq({Pixel}) /\ Len(heard) = m
          BY <5>1
        <5>3. heard' = [k \in 1 .. (m + 1) |-> Pixel]
          BY <5>1, <5>2, <4>3
        <5> QED
          BY <5>1, <5>3
      <4>5. n - 1 = 0 => heard' = Pixels
        <5>1. n - 1 = 0 => PIXEL - (n - 1) = PIXEL
          BY <1>1
        <5> QED
          BY <5>1, <4>4 DEF Pixels
      <4> QED
        BY <4>1, <4>3, <4>4, <4>5
    <3> QED
      BY <3>1, <3>2, <3>3, <2>2, <1>1
  <2>9. Len(drawing') <= PIXEL + 2
    BY <2>2, <2>3, <1>1
  <2>10. Drawing'
    BY <2>3, <2>5, <2>8, <2>9 DEF Drawing
  <2> QED
    BY <2>7, <2>10 DEF BInv
<1> QED
  BY <1>2, <1>3

LEMMA NextBInv == ASSUME ~Concurrent, IInv, BInv, [Next]_vars PROVE BInv'
<1>1. CASE FlashCall \/ FlashStep
  BY <1>1, FlashBInv
<1>2. CASE DrawCall \/ DrawStep
  BY <1>2, DrawBInv
<1>3. CASE ChipStep
  BY <1>3 DEF ChipStep, ChipDone, driverVars, busVars, BInv, Lines, Drawing
<1>4. CASE PowerLoss
  <2>1. /\ phase' = "idle" /\ out' = << >> /\ drawing' = << >> /\ heard' = << >> /\ shift' = << >>
        /\ selected' = FALSE
    BY <1>4 DEF PowerLoss, PowerFails
  <2>2. << >> \in Seq({"high", "low", "send"}) /\ Len(<< >>) = 0 /\ PIXEL \in Nat /\ PIXEL >= 1
        /\ DOMAIN << >> = {}
    BY Consts
  <2>3. Lines'
    BY <2>1, <2>2 DEF Lines
  <2>4. Drawing'
    BY <2>1, <2>2 DEF Drawing
  <2> QED
    BY <2>3, <2>4 DEF BInv
<1>5. CASE PowerOn
  BY <1>5 DEF PowerOn, PowerReturns, busVars, BInv, Lines, Drawing
<1>6. CASE UNCHANGED vars
  BY <1>6 DEF vars, flashVars, busVars, BInv, Lines, Drawing
<1> QED
  BY <1>1, <1>2, <1>3, <1>4, <1>5, <1>6 DEF Next

(* In turn, neither device hears what is meant for the other, although     *)
(* both drivers move both lines; and a display call reaches the FPGA       *)
(* whole.                                                                  *)
THEOREM BusCorrect == ASSUME ~Concurrent PROVE Spec => []BusKept
<1>1. Init => IInv /\ BInv
  BY InitIInv, InitBInv
<1>2. IInv /\ BInv /\ [Next]_vars => IInv' /\ BInv'
  BY NextIInv, NextBInv
<1>3. ASSUME IInv, BInv PROVE BusKept
  <2>1. PIXEL \in Nat /\ Pixel.op = "pixel" /\ Len(drawing) \in Nat /\ Len(drawing) <= PIXEL + 2 /\ Len(<< >>) = 0
    BY <1>3, Consts, Symbols DEF BInv, Drawing
  <2>2. \A k \in DOMAIN shift : shift[k] # Pixel
    BY <1>3, <2>1 DEF BInv, Lines
  <2>3. phase = "idle" /\ drawing = << >> => heard \in {<< >>, Pixels}
    BY <1>3, <2>1 DEF BInv, Drawing
  <2>4. \A k \in DOMAIN heard : heard[k] = Pixel
    <3>1. \/ heard = << >> \/ heard = Pixels \/ heard = [k \in 1 .. PIXEL - Len(drawing) |-> Pixel]
      <4>1. Len(drawing) \in {0, PIXEL + 2, PIXEL + 1} \cup 1 .. PIXEL
        BY <2>1
      <4> QED
        BY <4>1, <1>3 DEF BInv, Drawing
    <3>2. DOMAIN << >> = {}
      OBVIOUS
    <3> QED
      BY <3>1, <3>2 DEF Pixels
  <2> QED
    BY <2>2, <2>3, <2>4 DEF BusKept, FpgaIgnoresFlash
<1> QED
  BY <1>1, <1>2, <1>3, PTL DEF Spec

-----------------------------------------------------------------------------
(* What the chip is asked, and when.                                       *)

Wren == Instruction("wren", 0)

Sent ==
  /\ phase \in {"check", "poll", "read"} =>
       /\ \A k \in DOMAIN out : out[k].op \in Asking
       /\ selected => \A k \in DOMAIN shift : shift[k].op \in Asking
  /\ phase = "wren" => \/ out = <<Wren>> /\ (selected => shift = << >>)
                       \/ selected /\ out = << >> /\ shift = <<Wren>>

Refusal == {"OperationOngoing", "OperationTimeOut"}

CInv == Sent /\ ChipListens /\ (phase = "idle" /\ busy # Done => outcome \in Refusal)

(* A transaction that only asks leaves the chip as it is.                  *)
LEMMA AskingKeeps ==
  ASSUME Typed, Execute, \A k \in DOMAIN shift : shift[k].op \in Asking
  PROVE  busy' = busy /\ wel' = wel
<1>1. CASE shift = << >>
  BY <1>1 DEF Execute
<1>2. CASE shift # << >>
  <2>1. Len(shift) \in Nat /\ Len(shift) >= 1 /\ DOMAIN shift = 1 .. Len(shift) /\ Head(shift) = shift[1]
    BY <1>2 DEF Typed
  <2>2. 1 \in DOMAIN shift
    BY <2>1
  <2>3. Head(shift).op \notin {"wren", "pp", "sse"}
    BY <2>1, <2>2 DEF Asking
  <2> QED
    BY <2>3, <1>2 DEF Execute
<1> QED
  BY <1>1, <1>2

LEMMA NextCInv == ASSUME ~Concurrent, IInv, BInv, CInv, [Next]_vars PROVE CInv'
<1> USE DEF Refusal
<1>1. CASE FlashCall
  <2>1. /\ phase = "idle" /\ UNCHANGED <<busy, wel, selected, shift>> /\ ~selected
    BY <1>1 DEF FlashCall, Call, chipVars, busVars, BInv, Lines
  <2>2. phase' \in {"check", "read"} /\ (phase' = "read" => outcome' = outcome)
    BY <1>1 DEF FlashCall, Call, FlashProgram, FlashSubSectorErase, FlashRead, Check, Begin
  <2>3. \A k \in DOMAIN out' : out'[k].op \in Asking
    <3>1. CASE out' = Status
      BY <3>1, Symbols
    <3>2. ASSUME NEW a \in Address, FlashRead(a) PROVE \A k \in DOMAIN out' : out'[k].op \in Asking
      <4>1. out' = <<Instruction("read", a), Dummy>>
        BY <3>2 DEF FlashRead, Begin
      <4>2. Instruction("read", a).op = "read" /\ Dummy.op = "dummy"
        BY DEF Instruction, Dummy
      <4> QED
        BY <4>1, <4>2 DEF Asking
    <3> QED
      BY <1>1, <3>1, <3>2 DEF FlashCall, Call, FlashProgram, FlashSubSectorErase, Check, Begin
  <2> QED
    BY <2>1, <2>2, <2>3 DEF CInv, Sent, ChipListens
<1>2. CASE FlashStep
  <2>1. CASE Select
    BY <2>1 DEF Select, enable_cs, flashVars, CInv, Sent, ChipListens
  <2>2. CASE Byte
    <3>1. /\ phase # "idle" /\ selected /\ selected' = selected /\ out # << >>
          /\ shift' = Append(shift, Head(out)) /\ out' = Tail(out)
          /\ UNCHANGED <<busy, wel, phase, outcome>>
      BY <2>2 DEF Byte, WordSend, chipVars
    <3>2. /\ out \in Seq(Symbol) /\ Len(out) \in Nat /\ Len(out) >= 1 /\ Head(out) = out[1]
          /\ DOMAIN out = 1 .. Len(out) /\ shift \in Seq(Symbol) /\ Len(shift) \in Nat
          /\ DOMAIN shift = 1 .. Len(shift) /\ Head(out) \in Symbol
      BY <3>1 DEF IInv, Typed
    <3>3. ASSUME phase \in {"check", "poll", "read"}
          PROVE  /\ \A k \in DOMAIN out' : out'[k].op \in Asking
                 /\ \A k \in DOMAIN shift' : shift'[k].op \in Asking
      <4>1. \A k \in 1 .. Len(out) : out[k].op \in Asking
        BY <3>2, <3>3 DEF CInv, Sent
      <4>2. \A k \in 1 .. Len(shift) : shift[k].op \in Asking
        BY <3>1, <3>2, <3>3 DEF CInv, Sent
      <4>3. /\ DOMAIN out' = 1 .. (Len(out) - 1) /\ \A k \in 1 .. (Len(out) - 1) : out'[k] = out[k + 1]
            /\ \A k \in 1 .. (Len(out) - 1) : k + 1 \in 1 .. Len(out)
        BY <3>1, <3>2
      <4>4. /\ DOMAIN shift' = 1 .. (Len(shift) + 1) /\ \A k \in 1 .. Len(shift) : shift'[k] = shift[k]
            /\ shift'[Len(shift) + 1] = out[1] /\ 1 \in 1 .. Len(out)
            /\ \A k \in 1 .. (Len(shift) + 1) : k \in 1 .. Len(shift) \/ k = Len(shift) + 1
        BY <3>1, <3>2
      <4>5. \A k \in DOMAIN out' : out'[k].op \in Asking
        BY <4>1, <4>3
      <4>6. \A k \in DOMAIN shift' : shift'[k].op \in Asking
        BY <4>1, <4>2, <4>4
      <4> QED
        BY <4>5, <4>6
    <3>4. ASSUME phase = "wren" PROVE out' = << >> /\ shift' = <<Wren>>
      <4>1. out = <<Wren>> /\ shift = << >>
        BY <3>1, <3>4 DEF CInv, Sent
      <4> QED
        BY <4>1, <3>1
    <3> QED
      BY <3>1, <3>3, <3>4 DEF CInv, Sent, ChipListens
  <2>3. CASE Deselect
    <3>1. /\ Typed /\ Execute /\ selected /\ selected' = FALSE /\ out = << >>
      BY <2>3 DEF Deselect, disable_cs, IInv
    <3>2. phase \in {"check", "poll", "read"} => busy' = busy /\ wel' = wel
      BY <3>1, AskingKeeps DEF CInv, Sent
    <3>3. \A k \in DOMAIN Status : Status[k].op \in Asking
      BY Symbols
    <3>4. CASE phase = "check" /\ busy # Done /\ Return("OperationOngoing")
      BY <3>1, <3>4 DEF Return, CInv, Sent, ChipListens
    <3>5. CASE phase = "check" /\ busy = Done /\ phase' = "wren" /\ out' = <<Instruction("wren", 0)>>
      BY <3>1, <3>2, <3>5 DEF CInv, Sent, ChipListens, Wren
    <3>6. CASE phase = "wren" /\ phase' = "op" /\ out' = Operation
      <4>1. shift = <<Wren>> /\ busy = Done
        BY <3>1, <3>6 DEF CInv, Sent, ChipListens
      <4>2. Len(shift) = 1 /\ Head(shift).op = "wren" /\ shift # << >>
        BY <4>1 DEF Wren, Instruction
      <4>3. wel' = TRUE /\ busy' = busy
        BY <4>1, <4>2, <3>1 DEF Execute
      <4> QED
        BY <4>1, <4>3, <3>6 DEF CInv, Sent, ChipListens
    <3>7. CASE phase' = "poll" /\ out' = Status
      BY <3>1, <3>3, <3>7 DEF CInv, Sent, ChipListens
    <3>8. CASE Return("OperationTimeOut")
      BY <3>1, <3>8 DEF Return, CInv, Sent, ChipListens
    <3>9. CASE phase = "poll" /\ busy = Done /\ NextPage
      <4>1. \/ phase' = "idle"
            \/ phase' = "check" /\ out' = Status
        BY <3>9, NextPageIInv DEF IInv
      <4> QED
        BY <4>1, <3>1, <3>2, <3>3, <3>9 DEF CInv, Sent, ChipListens
    <3>10. CASE phase = "read" /\ phase' = "idle" /\ outcome' = outcome
      BY <3>1, <3>2, <3>10 DEF CInv, Sent, ChipListens
    <3> QED
      BY <2>3, <3>4, <3>5, <3>6, <3>7, <3>8, <3>9, <3>10, DeselectCases
  <2> QED
    BY <1>2, <2>1, <2>2, <2>3 DEF FlashStep, Driver
<1>3. CASE ChipStep
  BY <1>3 DEF ChipStep, ChipDone, driverVars, busVars, CInv, Sent, ChipListens
<1>4. CASE DrawCall
  BY <1>4 DEF DrawCall, flashVars, busVars, CInv, Sent, ChipListens
<1>5. CASE DrawStep
  <2>1. phase = "idle" /\ phase' = phase /\ busy' = busy /\ outcome' = outcome
    BY <1>5 DEF DrawStep, flashVars, BInv, Lines
  <2> QED
    BY <2>1 DEF CInv, Sent, ChipListens
<1>6. CASE PowerLoss
  <2>1. phase' = "idle" /\ busy' = Done
    BY <1>6 DEF PowerLoss, PowerFails
  <2> QED
    BY <2>1 DEF CInv, Sent, ChipListens
<1>7. CASE PowerOn
  <2>1. /\ phase = "idle" /\ phase' = "idle" /\ busy' = busy
    BY <1>7 DEF PowerOn, PowerReturns, chipVars, IInv
  <2>2. busy = Done
    BY <1>7 DEF PowerOn, IInv
  <2> QED
    BY <2>1, <2>2 DEF CInv, Sent, ChipListens
<1>8. CASE UNCHANGED vars
  BY <1>8 DEF vars, flashVars, busVars, CInv, Sent, ChipListens
<1> QED
  BY <1>1, <1>2, <1>3, <1>4, <1>5, <1>6, <1>7, <1>8 DEF Next

(* In turn, no instruction that changes the flash is lost on a busy or     *)
(* write-protected chip, and a read meets a busy chip only after a call    *)
(* that reported that it did not wait for the end.                         *)
THEOREM ListensCorrect == ASSUME ~Concurrent PROVE Spec => []ChipListens
<1>1. Init => IInv /\ BInv /\ CInv
  <2>1. Init => CInv
    BY DEF Init, BusInit, FlashInit, CInv, Sent, ChipListens
  <2> QED
    BY <2>1, InitIInv, InitBInv
<1>2. IInv /\ BInv /\ CInv /\ [Next]_vars => IInv' /\ BInv' /\ CInv'
  BY NextIInv, NextBInv, NextCInv
<1>3. CInv => ChipListens
  BY DEF CInv
<1> QED
  BY <1>1, <1>2, <1>3, PTL DEF Spec

-----------------------------------------------------------------------------
(* What the flash holds on the way through a call.                         *)

(* The flash as the pages of a call before the current one leave it, and   *)
(* as the current one does.                                                *)
Prefix(a) == IF call.op = "pp" /\ a < call.at THEN Wanted(a) ELSE before[a]
Through(a) == IF call.op = "sse" \/ a < call.at + call.n THEN Wanted(a) ELSE before[a]

AtPage == \A a \in Address : After[a] = Prefix(a)
PastPage == \A a \in Address : After[a] = Through(a) /\ (busy # Done => mem[a] = Prefix(a))
LastPage == call.op = "pp" => call.sent + call.n = Len(call.data)

(* The bytes of an operation that have left and those that have not.       *)
InTransit == phase = "op" => IF selected THEN shift \o out = Operation ELSE out = Operation

Progress ==
  /\ phase # "read"
  /\ ~powered => WrittenInOrder
  /\ powered /\ phase = "check" => AtPage /\ (busy # Done => call.sent = 0)
  /\ powered /\ phase \in {"wren", "op"} => AtPage
  /\ powered /\ phase = "poll" => PastPage
  /\ powered /\ phase = "idle" =>
       /\ outcome = "OperationOngoing" => AtPage /\ call.sent = 0
       /\ outcome = "OperationTimeOut" => PastPage
       /\ outcome \in {"Success", "AddressInvalid"} => PastPage /\ busy = Done /\ LastPage

DInv ==
  /\ InTransit
  /\ call.op \in {"pp", "sse"} => Progress
  /\ call.op = "sse" => call.n = 0 /\ call.sent = 0 /\ call.data = << >>

(* The numbers of a call.                                                  *)
LEMMA CallNumbers ==
  ASSUME CallOK
  PROVE  /\ call.at \in Nat /\ call.n \in Nat /\ call.sent \in Nat /\ Len(call.data) \in Nat
         /\ call.data \in Seq(SUBSET Bits) /\ call.sent + call.n <= Len(call.data)
         /\ call.op = "pp" => call.sent <= call.at /\ Begun \in Nat /\ Begun = call.at - call.sent
<1>1. call.data \in Seq(SUBSET Bits) /\ call.at \in Nat /\ call.n \in Nat /\ call.sent \in Nat
      /\ call.sent + call.n <= Len(call.data)
  BY DEF CallOK, Bytes
<1>2. Len(call.data) \in Nat
  BY <1>1
<1>3. call.op = "pp" => call.sent <= call.at
  BY DEF CallOK
<1> QED
  BY <1>1, <1>2, <1>3 DEF Begun

(* The values that WrittenInOrder allows a byte.                           *)
Fine(a, v) ==
  /\ v \in {before[a], Wanted(a)}
  /\ call.op = "pp" /\ a < call.at => v = Wanted(a)
  /\ call.op = "pp" /\ a >= call.at + call.n => v = before[a]

LEMMA FineEnough ==
  ASSUME \A a \in Address : Fine(a, After[a])
  PROVE  WrittenInOrder
BY DEF Fine, WrittenInOrder

LEMMA BothFine ==
  ASSUME CallOK, call.op \in {"pp", "sse"}, NEW a \in Address
  PROVE  Fine(a, Prefix(a)) /\ Fine(a, Through(a))
<1>1. a \in Nat /\ call.at \in Nat /\ call.n \in Nat
  BY CallNumbers, Consts DEF Address
<1> QED
  BY <1>1 DEF Fine, Prefix, Through

(* At the last page, a byte beyond it is one beyond the call.              *)
LEMMA LastThrough ==
  ASSUME CallOK, call.op \in {"pp", "sse"}, LastPage, NEW a \in Address
  PROVE  Through(a) = Wanted(a)
<1>1. CASE call.op = "sse"
  BY <1>1 DEF Through
<1>2. CASE call.op = "pp" /\ ~(a < call.at + call.n)
  <2>1. /\ a \in Nat /\ call.at \in Nat /\ call.n \in Nat /\ call.sent \in Nat /\ Begun = call.at - call.sent
        /\ call.sent + call.n = Len(call.data) /\ Begun \in Nat
    BY <1>2, CallNumbers, Consts DEF Address, LastPage
  <2>2. Begun + (call.sent + call.n) = call.at + call.n /\ call.sent + call.n \in Nat
    BY <2>1
  <2>3. ~(a <= Begun + (call.sent + call.n) - 1)
    BY <1>2, <2>1, <2>2
  <2>4. a \notin Range(Begun, Len(call.data))
    BY <2>1, <2>2, <2>3 DEF Range
  <2> QED
    BY <1>2, <2>4 DEF Through, Wanted
<1> QED
  BY <1>1, <1>2 DEF Through

(* Before its first page a call has changed nothing.                       *)
LEMMA FirstPrefix ==
  ASSUME CallOK, call.op \in {"pp", "sse"}, call.sent = 0, NEW a \in Address
  PROVE  Prefix(a) = before[a]
<1>1. CASE call.op = "pp" /\ a < call.at
  <2>1. a \in Nat /\ call.at \in Nat /\ Begun = call.at /\ Len(call.data) \in Nat
    BY <1>1, CallNumbers, Consts DEF Address
  <2>2. a \notin Range(Begun, Len(call.data))
    BY <1>1, <2>1 DEF Range
  <2> QED
    BY <1>1, <2>2 DEF Prefix, Wanted
<1> QED
  BY <1>1 DEF Prefix

(* While the call and the chip stay as they are, so do these.              *)
LEMMA SameCall ==
  ASSUME UNCHANGED <<call, before>>
  PROVE  \A a \in Address : /\ Wanted(a)' = Wanted(a)
                            /\ Prefix(a)' = Prefix(a) /\ Through(a)' = Through(a)
BY DEF Wanted, Prefix, Through, Begun, Range

LEMMA SameChip == ASSUME UNCHANGED <<mem, busy>> PROVE After' = After
BY DEF After, Programmed, Erased

(* The chip comes to its end, which After foretold.                        *)
LEMMA DoneAfter == ASSUME busy' = Done PROVE After' = mem'
BY DEF After, Done

LEMMA IdleAfter == ASSUME busy = Done PROVE After = mem
BY DEF After, Done

LEMMA SameProgress ==
  ASSUME UNCHANGED <<call, before, phase, outcome, powered>>, After' = After,
         \/ UNCHANGED <<mem, busy>>
         \/ busy' = Done,
         CallOK, call.op \in {"pp", "sse"}, Progress
  PROVE  Progress'
<1>1. AtPage => AtPage'
  BY SameCall DEF AtPage
<1>2. PastPage => PastPage'
  BY SameCall DEF PastPage
<1>3. LastPage' = LastPage /\ (busy = Done => busy' = Done)
  BY DEF LastPage
<1>4. WrittenInOrder => WrittenInOrder'
  BY SameCall DEF WrittenInOrder
<1> HIDE DEF Done
<1> QED
  BY <1>1, <1>2, <1>3, <1>4 DEF Progress

-----------------------------------------------------------------------------
(* A page that stays in its page does not wrap.                            *)
LEMMA Remainder ==
  ASSUME NEW p \in Nat \ {0}, NEW q \in Nat, NEW s \in 0 .. p - 1
  PROVE  ((q * p) + s) % p = s
<1> DEFINE x == (q * p) + s
<1>1. q * p \in Nat /\ x \in Nat
  BY SMTT(30)
<1> HIDE DEF x
<1>2. x = ((x \div p) * p) + (x % p) /\ x % p \in 0 .. p - 1 /\ x \div p \in Nat
  BY <1>1, SMTT(30)
<1>3. PICK d \in Nat, m \in 0 .. p - 1 : d = x \div p /\ m = x % p
  BY <1>2
<1>4. x = (d * p) + m /\ d * p \in Int
  BY <1>2, <1>3
<1>5. (q * p) - (d * p) = (q - d) * p
  BY SMTT(30)
<1>6. (q - d) * p = m - s
  BY <1>1, <1>4, <1>5 DEF x
<1>7. CASE q - d >= 1
  <2>1. (q - d) * p >= p
    BY <1>7, SMTT(30)
  <2> QED
    BY <2>1, <1>6
<1>8. CASE q - d <= -1
  <2>1. (q - d) * p <= -p
    BY <1>8, SMTT(30)
  <2> QED
    BY <2>1, <1>6
<1>9. CASE q - d = 0
  <2>1. (q - d) * p = 0
    BY <1>9
  <2> QED
    BY <2>1, <1>3, <1>6 DEF x
<1> QED
  BY <1>7, <1>8, <1>9

LEMMA InOnePage ==
  ASSUME NEW p \in Nat \ {0}, NEW a \in Nat, NEW j \in Nat, (a % p) + j < p
  PROVE  ((a \div p) * p) + ((a + j) % p) = a + j
<1>1. a = ((a \div p) * p) + (a % p) /\ a % p \in 0 .. p - 1 /\ a \div p \in Nat
  BY SMTT(30)
<1> DEFINE q == a \div p
           r == a % p
<1>2. q \in Nat /\ r \in Nat /\ r + j < p /\ a + j = (q * p) + (r + j)
  BY <1>1
<1> HIDE DEF q, r
<1>3. ((q * p) + (r + j)) % p = r + j
  <2>1. r + j \in 0 .. p - 1
    BY <1>2
  <2> QED
    BY <2>1, <1>2, Remainder
<1>4. (a + j) % p = r + j
  BY <1>2, <1>3
<1>5. q * p \in Int
  BY <1>2
<1>6. (q * p) + ((a + j) % p) = a + j
  BY <1>2, <1>4, <1>5
<1> QED
  BY <1>6 DEF q

LEMMA PutWhere ==
  ASSUME CallOK, call.op = "pp", NEW k \in 1 .. call.n
  PROVE  PageAddr(call.at, k) = call.at + k - 1
<1>1. PAGE \in Nat \ {0} /\ call.at \in Nat /\ call.n \in Nat /\ (call.at % PAGE) + call.n <= PAGE
  BY Consts, CallNumbers DEF CallOK
<1>2. call.at % PAGE \in 0 .. PAGE - 1
  BY <1>1, InPage
<1>3. k - 1 \in Nat /\ (call.at % PAGE) + (k - 1) < PAGE
  BY <1>1, <1>2
<1>4. ((call.at \div PAGE) * PAGE) + ((call.at + (k - 1)) % PAGE) = call.at + (k - 1)
  BY <1>1, <1>3, InOnePage
<1>5. call.at + k - 1 = call.at + (k - 1)
  BY <1>1
<1> QED
  BY <1>4, <1>5 DEF PageAddr

(* What an operation that was sent whole makes of the chip.                *)
LEMMA OperationShape ==
  ASSUME CallOK, call.op \in {"pp", "sse"}
  PROVE  /\ Operation # << >> /\ Len(Operation) = call.n + 1
         /\ Head(Operation).op = call.op /\ Head(Operation).at = call.at
         /\ \A k \in 1 .. call.n : Operation[k + 1].byte = call.data[call.sent + k]
<1>1. /\ call.data \in Seq(SUBSET Bits) /\ call.n \in Nat /\ call.sent \in Nat /\ call.at \in Nat
      /\ call.sent + call.n <= Len(call.data)
  BY CallNumbers
<1>2. ASSUME NEW k \in 1 .. call.n
      PROVE  /\ Datum(call.data[call.sent + k]) \in Symbol
             /\ Datum(call.data[call.sent + k]).byte = call.data[call.sent + k]
  <2>1. call.sent + k \in 1 .. Len(call.data)
    BY <1>1
  <2>2. call.data[call.sent + k] \in SUBSET Bits
    BY <1>1, <2>1
  <2> QED
    BY <2>2, Symbols DEF Datum
<1>3. Chunk \in Seq(Symbol) /\ Len(Chunk) = call.n
      /\ \A k \in 1 .. call.n : Chunk[k] = Datum(call.data[call.sent + k])
  <2>1. \A k \in 1 .. call.n : Datum(call.data[call.sent + k]) \in Symbol
    BY <1>2
  <2> QED
    BY <2>1, <1>1 DEF Chunk
<1> DEFINE i == Instruction(call.op, call.at)
<1>4. i \in Symbol /\ i.op = call.op /\ i.at = call.at
  BY <1>1, Symbols DEF Instruction
<1> HIDE DEF i
<1>5. Operation = <<i>> \o Chunk
  BY DEF Operation, i
<1>6. /\ Operation \in Seq(Symbol) /\ Len(Operation) = call.n + 1 /\ Operation[1] = i
      /\ \A k \in 1 .. call.n : Operation[k + 1] = Chunk[k]
  <2>1. <<i>> \in Seq(Symbol) /\ Len(<<i>>) = 1 /\ <<i>>[1] = i
    BY <1>4
  <2>2. Operation \in Seq(Symbol) /\ Len(Operation) = call.n + 1 /\ Operation[1] = i
    BY <2>1, <1>1, <1>3, <1>5
  <2>3. ASSUME NEW k \in 1 .. call.n PROVE Operation[k + 1] = Chunk[k]
    <3>1. k + 1 \in 2 .. (call.n + 1) /\ (k + 1) - 1 = k
      BY <1>1
    <3> QED
      BY <3>1, <2>1, <1>1, <1>3, <1>5
  <2> QED
    BY <2>2, <2>3
<1>7. Operation # << >> /\ Head(Operation) = i
  BY <1>1, <1>6
<1> QED
  BY <1>2, <1>3, <1>4, <1>6, <1>7

LEMMA OperationStarts ==
  ASSUME IInv, call.op \in {"pp", "sse"}, Execute, shift = Operation, busy = Done, wel,
         call.op = "sse" => call.n = 0
  PROVE  /\ mem' = mem
         /\ call.op = "sse" => busy' = [op |-> "sse", at |-> call.at, data |-> << >>]
         /\ call.op = "pp" /\ call.n = 0 => busy' = Done
         /\ call.op = "pp" /\ call.n # 0 =>
              busy' = [op |-> "pp", at |-> call.at,
                       data |-> [k \in 1 .. call.n |-> call.data[call.sent + k]]]
<1> DEFINE data == [k \in 1 .. Len(shift) - 1 |-> shift[k + 1].byte]
           chunk == [k \in 1 .. call.n |-> call.data[call.sent + k]]
<1>1. call.n \in Nat /\ CallOK
  BY CallNumbers DEF IInv
<1>2. shift # << >> /\ Head(shift).op = call.op /\ Head(shift).at = call.at /\ Len(shift) - 1 = call.n
  BY <1>1, OperationShape
<1>3. data = chunk
  BY <1>1, <1>2, OperationShape
<1>4. (chunk = << >>) <=> (call.n = 0)
  <2>1. chunk = << >> => call.n = 0
    <3>1. ASSUME chunk = << >> PROVE call.n = 0
      <4>1. DOMAIN chunk = {}
        BY <3>1
      <4>2. call.n # 0 => 1 \in DOMAIN chunk
        BY <1>1
      <4> QED
        BY <4>1, <4>2
    <3> QED
      BY <3>1
  <2>2. call.n = 0 => chunk = << >>
    OBVIOUS
  <2> QED
    BY <2>1, <2>2
<1> HIDE DEF data, chunk
<1>5. /\ mem' = mem
      /\ busy' = CASE call.op = "pp" /\ data # << >> -> [op |-> "pp", at |-> call.at, data |-> data]
                   [] call.op = "sse" /\ data = << >> -> [op |-> "sse", at |-> call.at, data |-> << >>]
                   [] OTHER -> busy
  BY <1>2 DEF Execute, data
<1> QED
  BY <1>3, <1>4, <1>5 DEF chunk

LEMMA PagePut ==
  ASSUME IInv, call.op \in {"pp", "sse"}, Execute, shift = Operation, busy = Done, wel,
         UNCHANGED <<call, before>>, AtPage, call.op = "sse" => call.n = 0
  PROVE  PastPage'
<1>1. /\ CallOK /\ mem' = mem /\ \A a \in Address : mem[a] = Prefix(a)
  BY OperationStarts, IdleAfter DEF IInv, AtPage
<1>2. \A a \in Address : Through(a)' = Through(a) /\ Prefix(a)' = Prefix(a)
  BY SameCall
<1>3. \A a \in Address : mem'[a] = Prefix(a)'
  BY <1>1, <1>2
<1>4. ASSUME NEW a \in Address PROVE After'[a] = Through(a)
  <2>1. a \in Nat /\ call.at \in Nat /\ call.n \in Nat /\ call.sent \in Nat /\ Len(call.data) \in Nat
        /\ call.sent + call.n <= Len(call.data)
    BY <1>1, CallNumbers, Consts DEF Address
  <2>2. CASE call.op = "sse"
    <3>1. busy'.op = "sse" /\ busy'.at = call.at
      BY <2>2, OperationStarts
    <3>2. After'[a] = IF a \in Sector(call.at) THEN {} ELSE mem[a]
      BY <3>1, <1>1 DEF After, Erased
    <3>3. mem[a] = before[a]
      BY <1>1, <2>2 DEF Prefix
    <3> QED
      BY <3>2, <3>3, <2>2 DEF Through, Wanted
  <2>3. CASE call.op = "pp" /\ call.n = 0
    <3>1. After'[a] = Prefix(a)
      BY <2>3, <1>1, OperationStarts, DoneAfter
    <3>2. call.at + call.n = call.at
      BY <2>1, <2>3
    <3> QED
      BY <3>1, <3>2, <2>3 DEF Prefix, Through
  <2>4. CASE call.op = "pp" /\ call.n # 0
    <3> DEFINE data == [k \in 1 .. call.n |-> call.data[call.sent + k]]
               there == {k \in 1 .. call.n : PageAddr(call.at, k) = a}
    <3>1. busy' = [op |-> "pp", at |-> call.at, data |-> data]
      BY <2>4, OperationStarts
    <3>2. After'[a] = mem[a] \cup UNION {data[k] : k \in there}
      <4>1. DOMAIN data = 1 .. call.n
        OBVIOUS
      <4>2. busy'.op = "pp" /\ busy'.at = call.at /\ busy'.data = data
        BY <3>1
      <4> HIDE DEF data
      <4>3. After' = Programmed(mem, call.at, data)
        BY <4>2, <1>1 DEF After, Programmed
      <4> QED
        BY <4>1, <4>3 DEF Programmed
    <3>3. \A k \in 1 .. call.n : PageAddr(call.at, k) = call.at + k - 1
      BY <1>1, <2>4, PutWhere
    <3>4. CASE a \in call.at .. (call.at + call.n - 1)
      <4> DEFINE j == a - call.at + 1
      <4>1. j \in 1 .. call.n /\ \A k \in 1 .. call.n : (call.at + k - 1 = a) <=> (k = j)
        <5> HIDE DEF there, data
        <5>1. j \in 1 .. call.n
          BY <2>1, <3>4
        <5>2. ASSUME NEW k \in 1 .. call.n PROVE (call.at + k - 1 = a) <=> (k = j)
          BY <2>1, <3>4
        <5> QED
          BY <5>1, <5>2
      <4>2. there = {j}
        BY <4>1, <3>3
      <4>3. UNION {data[k] : k \in there} = data[j]
        <5> HIDE DEF j, there, data
        <5> QED
          BY <4>2
      <4>4. data[j] = call.data[call.sent + j]
        BY <4>1
      <4>5. /\ Begun = call.at - call.sent /\ Begun \in Nat
        BY <1>1, <2>4, CallNumbers
      <4>6. a \in Range(Begun, Len(call.data)) /\ call.sent + j = a - Begun + 1
        <5> HIDE DEF there, data
        <5>1. /\ call.at - call.sent <= a /\ a <= (call.at - call.sent) + Len(call.data) - 1
              /\ call.sent + j = (a - (call.at - call.sent)) + 1
          BY <2>1, <3>4
        <5> QED
          BY <5>1, <2>1, <4>5 DEF Range
      <4>7. Wanted(a) = before[a] \cup call.data[call.sent + j]
        BY <2>4, <4>6 DEF Wanted
      <4>8. mem[a] = before[a] /\ Through(a) = Wanted(a)
        <5>1. ~(a < call.at) /\ a < call.at + call.n
          BY <2>1, <3>4
        <5> QED
          BY <5>1, <1>1 DEF Prefix, Through
      <4> QED
        BY <3>2, <4>3, <4>4, <4>7, <4>8
    <3>5. CASE a \notin call.at .. (call.at + call.n - 1)
      <4>1. \A k \in 1 .. call.n : call.at + k - 1 # a
        BY <2>1, <3>5
      <4>2. there = {}
        BY <4>1, <3>3
      <4>3. After'[a] = Prefix(a)
        <5> HIDE DEF there, data
        <5>1. UNION {data[k] : k \in there} = {}
          BY <4>2
        <5> QED
          BY <5>1, <3>2, <1>1
      <4>4. (a < call.at) <=> (a < call.at + call.n)
        BY <2>1, <3>5
      <4> QED
        BY <4>3, <4>4, <2>4 DEF Prefix, Through
    <3> QED
      BY <3>4, <3>5
  <2> QED
    BY <2>2, <2>3, <2>4
<1> QED
  BY <1>2, <1>3, <1>4 DEF PastPage

-----------------------------------------------------------------------------
LEMMA InitDInv == Init => DInv
<1> SUFFICES ASSUME Init PROVE DInv
  OBVIOUS
<1>1. phase = "idle" /\ call.op = "none"
  BY DEF Init, FlashInit, NoCall
<1> QED
  BY <1>1 DEF DInv, InTransit

(* A byte that is sent goes from the one sequence to the other.            *)
LEMMA Handed ==
  ASSUME NEW S, NEW s \in Seq(S), NEW t \in Seq(S), t # << >>
  PROVE  Append(s, Head(t)) \o Tail(t) = s \o t
<1> DEFINE x == Append(s, Head(t)) \o Tail(t)
           y == s \o t
<1>1. /\ Len(s) \in Nat /\ Len(t) \in Nat /\ Len(t) >= 1 /\ Head(t) \in S /\ Tail(t) \in Seq(S)
      /\ Len(Tail(t)) = Len(t) - 1 /\ Head(t) = t[1]
      /\ \A k \in 1 .. (Len(t) - 1) : Tail(t)[k] = t[k + 1]
  OBVIOUS
<1>2. /\ Append(s, Head(t)) \in Seq(S) /\ Len(Append(s, Head(t))) = Len(s) + 1
      /\ Append(s, Head(t))[Len(s) + 1] = t[1]
      /\ \A k \in 1 .. Len(s) : Append(s, Head(t))[k] = s[k]
  BY <1>1
<1>3. x \in Seq(S) /\ Len(x) = (Len(s) + 1) + (Len(t) - 1) /\ y \in Seq(S) /\ Len(y) = Len(s) + Len(t)
  BY <1>1, <1>2
<1>4. Len(x) = Len(y)
  BY <1>1, <1>3
<1>5. ASSUME NEW k \in 1 .. Len(y) PROVE x[k] = y[k]
  <2>1. CASE k \in 1 .. Len(s)
    BY <2>1, <1>1, <1>2
  <2>2. CASE k = Len(s) + 1
    BY <2>2, <1>1, <1>2
  <2>3. CASE k > Len(s) + 1
    <3>1. /\ k - (Len(s) + 1) \in 1 .. (Len(t) - 1) /\ (k - (Len(s) + 1)) + 1 = k - Len(s)
          /\ k \in 1 .. ((Len(s) + 1) + (Len(t) - 1)) /\ ~(k \in 1 .. (Len(s) + 1))
          /\ k \in 1 .. (Len(s) + Len(t)) /\ ~(k \in 1 .. Len(s))
      BY <2>3, <1>1, <1>3
    <3>2. x[k] = Tail(t)[k - (Len(s) + 1)]
      BY <3>1, <1>1, <1>2
    <3>3. y[k] = t[k - Len(s)]
      BY <3>1, <1>1
    <3> QED
      BY <3>1, <3>2, <3>3, <1>1
  <2> QED
    BY <2>1, <2>2, <2>3, <1>1, <1>3
<1> HIDE DEF x, y
<1>6. x = y
  <2>1. DOMAIN x = 1 .. Len(x) /\ DOMAIN y = 1 .. Len(y) /\ x = [k \in DOMAIN x |-> x[k]] /\ y = [k \in DOMAIN y |-> y[k]]
    BY <1>3
  <2> QED
    BY <2>1, <1>4, <1>5
<1> QED
  BY <1>6 DEF x, y

LEMMA CallDInv == ASSUME IInv, DInv, FlashCall PROVE DInv'
<1>1. /\ phase = "idle" /\ UNCHANGED <<mem, wel, busy, sync, selected, shift, powered>> /\ powered
  BY DEF FlashCall, Call, chipVars, busVars, Turn
<1>2. After' = After /\ CallOK'
  BY <1>1, SameChip, CallIInv DEF IInv
<1>3. CASE \E a \in Address : FlashRead(a)
  <2>1. call'.op = "read" /\ phase' = "read"
    BY <1>3 DEF FlashRead, Begin, NoCall
  <2> QED
    BY <2>1 DEF DInv, InTransit
<1>4. ASSUME before' = After, phase' = "check", call'.op \in {"pp", "sse"}, call'.sent = 0 PROVE Progress'
  <2>1. ASSUME NEW a \in Address PROVE Prefix(a)' = before'[a]
    <3> DEFINE x == call'
    <3>1. a \in Nat /\ x.at \in Nat /\ x.sent = 0 /\ x.op \in {"pp", "sse"} /\ x.data \in Seq(SUBSET Bits)
      BY <1>2, <1>4, Consts DEF Address, CallOK, Bytes
    <3>2. Len(x.data) \in Nat /\ x.at - x.sent = x.at
      BY <3>1
    <3>3. a < x.at => a \notin x.at .. x.at + Len(x.data) - 1
      BY <3>1, <3>2
    <3> QED
      BY <3>1, <3>2, <3>3 DEF Prefix, Wanted, Begun, Range
  <2>2. AtPage'
    BY <2>1, <1>2, <1>4 DEF AtPage
  <2> QED
    BY <2>2, <1>1, <1>4 DEF Progress
<1>5. ASSUME before' = After, NEW a \in Address, NEW d \in Data, FlashProgram(a, d) PROVE DInv'
  <2>1. phase' = "check" /\ call'.op = "pp" /\ call'.sent = 0
    BY <1>5 DEF FlashProgram, Check, Begin
  <2> QED
    BY <2>1, <1>4, <1>5 DEF DInv, InTransit
<1>6. ASSUME before' = After, NEW s \in 0 .. SECTORS - 1, FlashSubSectorErase(s) PROVE DInv'
  <2>1. phase' = "check" /\ call'.op = "sse" /\ call'.sent = 0 /\ call'.n = 0 /\ call'.data = << >>
    BY <1>6 DEF FlashSubSectorErase, Check, Begin, NoCall
  <2> QED
    BY <2>1, <1>4, <1>6 DEF DInv, InTransit
<1> QED
  BY <1>3, <1>5, <1>6 DEF FlashCall, Call

(* A transaction that leaves the call where it is.                         *)
LEMMA StayDInv ==
  ASSUME IInv, DInv, UNCHANGED <<mem, busy, call, before, phase, outcome, powered>>, InTransit'
  PROVE  DInv'
<1>1. After' = After /\ CallOK
  BY SameChip DEF IInv
<1>2. call.op \in {"pp", "sse"} => Progress'
  BY <1>1, SameProgress DEF DInv
<1> QED
  BY <1>2 DEF DInv

(* The page that follows finds the flash as this one has left it.          *)
LEMMA NextPageDInv ==
  ASSUME IInv, DInv, phase = "poll", NextPage, busy = Done, UNCHANGED <<mem, busy, powered>>
  PROVE  DInv'
<1>1. /\ CallOK /\ powered /\ call.op \in {"pp", "sse"} /\ After = mem /\ After' = mem
  <2>1. CallOK /\ powered /\ call.op \in {"pp", "sse"}
    BY DEF IInv, CallOK
  <2> QED
    BY <2>1, IdleAfter, SameChip
<1>2. PastPage /\ Progress /\ \A a \in Address : mem[a] = Through(a)
  BY <1>1 DEF DInv, Progress, PastPage
<1>3. CASE Return("Success") \/ Return("AddressInvalid")
  <2>1. phase' = "idle" /\ outcome' \in {"Success", "AddressInvalid"} /\ UNCHANGED <<call, before>>
    BY <1>3 DEF Return
  <2>2. PastPage'
    BY <2>1, <1>1, <1>2, SameCall DEF PastPage
  <2>3. LastPage
    <3>1. CASE ~call.more
      BY <3>1, <1>1 DEF CallOK, LastPage
    <3>2. CASE call.op = "pp" /\ call.more /\ call.at + call.n >= FLASH_SIZE
      <4>1. (call.at - call.sent) + Len(call.data) <= FLASH_SIZE /\ FLASH_SIZE \in Nat
        BY <3>2, <1>1, Consts DEF CallOK
      <4>2. /\ call.at \in Nat /\ call.n \in Nat /\ call.sent \in Nat /\ Len(call.data) \in Nat
            /\ call.sent + call.n <= Len(call.data)
        BY <1>1, CallNumbers
      <4>3. call.sent + call.n = Len(call.data)
        BY <4>1, <4>2, <3>2
      <4> QED
        BY <4>3 DEF LastPage
    <3>3. CASE call.op # "pp"
      BY <3>3 DEF LastPage
    <3>4. call.more => call.at + call.n >= FLASH_SIZE
      <4>1. ASSUME call.more, ~(call.at + call.n >= FLASH_SIZE) PROVE FALSE
        <5>1. phase' = "check"
          BY <4>1 DEF NextPage, Check, Begin
        <5> QED
          BY <5>1, <2>1
      <4> QED
        BY <4>1
    <3> QED
      BY <3>1, <3>2, <3>3, <3>4
  <2>4. LastPage'
    BY <2>1, <2>3 DEF LastPage
  <2>5. Progress'
    BY <2>1, <2>2, <2>4, <1>1 DEF Progress
  <2> QED
    BY <2>1, <2>5 DEF DInv, InTransit
<1>4. CASE ~(Return("Success") \/ Return("AddressInvalid"))
  <2>1. /\ call.more /\ phase' = "check" /\ before' = before
        /\ call' = [call EXCEPT !.at = call.at + call.n, !.sent = @ + call.n,
                                !.n = Least(Left, PAGE), !.more = Least(Left, PAGE) = PAGE]
    BY <1>4 DEF NextPage, Check, Begin
  <2>2. call.op = "pp"
    BY <2>1, <1>1 DEF CallOK
  <2>3. /\ call'.op = "pp" /\ call'.at = call.at + call.n /\ call'.sent = call.sent + call.n
        /\ call'.data = call.data
    BY <2>1, <2>2 DEF CallOK, IInv
  <2>4. Begun' = Begun
    BY <2>3, <1>1, CallNumbers DEF Begun
  <2>5. ASSUME NEW a \in Address PROVE Wanted(a)' = Wanted(a)
    BY <2>1, <2>2, <2>3, <2>4 DEF Wanted, Range
  <2>6. ASSUME NEW a \in Address PROVE Prefix(a)' = Through(a)
    BY <2>1, <2>2, <2>3, <2>5 DEF Prefix, Through
  <2>7. AtPage'
    BY <2>6, <1>1, <1>2 DEF AtPage
  <2>8. Progress'
    BY <2>1, <2>7, <1>1 DEF Progress
  <2> QED
    BY <2>1, <2>3, <2>8 DEF DInv, InTransit
<1> QED
  BY <1>3, <1>4

LEMMA DeselectDInv ==
  ASSUME ~Concurrent, IInv, BInv, CInv, DInv, Deselect, powered' = powered
  PROVE  DInv'
<1>1. /\ Typed /\ CallOK /\ Execute /\ selected /\ selected' = FALSE /\ out = << >> /\ powered /\ mem' = mem
      /\ phase # "idle" /\ shift \in Seq(Symbol)
  BY DEF Deselect, disable_cs, IInv, Typed, Execute
<1>2. phase \in {"check", "poll", "read"} => busy' = busy
  BY <1>1, AskingKeeps DEF CInv, Sent
<1>3. phase # "read" => call.op \in {"pp", "sse"} /\ Progress
  BY <1>1 DEF CallOK, DInv, IInv, Typed
<1>4. CASE phase = "check" /\ busy # Done /\ Return("OperationOngoing")
  <2>1. phase' = "idle" /\ outcome' = "OperationOngoing" /\ UNCHANGED <<call, before>> /\ After' = After
    BY <1>1, <1>2, <1>4, SameChip DEF Return
  <2>2. AtPage /\ call.sent = 0
    BY <1>1, <1>3, <1>4 DEF Progress
  <2>3. AtPage'
    BY <2>1, <2>2, SameCall DEF AtPage
  <2>4. Progress'
    BY <2>1, <2>2, <2>3, <1>1 DEF Progress
  <2> QED
    BY <2>1, <2>4 DEF DInv, InTransit
<1>5. CASE /\ phase = "check" /\ busy = Done /\ phase' = "wren" /\ UNCHANGED <<call, counter, outcome, before>>
  <2>1. AtPage /\ After' = After
    BY <1>1, <1>2, <1>3, <1>5, SameChip DEF Progress
  <2>2. AtPage'
    BY <2>1, <1>5, SameCall DEF AtPage
  <2>3. Progress'
    BY <2>2, <1>1, <1>5 DEF Progress
  <2> QED
    BY <2>3, <1>5 DEF DInv, InTransit
<1>6. CASE /\ phase = "wren" /\ phase' = "op" /\ out' = Operation /\ UNCHANGED <<call, counter, outcome, before>>
  <2>1. busy' = busy
    <3>1. shift = <<Wren>>
      BY <1>1, <1>6 DEF CInv, Sent
    <3>2. Head(shift).op = "wren" /\ shift # << >>
      BY <3>1 DEF Wren, Instruction
    <3> QED
      BY <3>2, <1>1 DEF Execute
  <2>2. AtPage /\ After' = After
    BY <2>1, <1>1, <1>3, <1>6, SameChip DEF Progress
  <2>3. AtPage'
    BY <2>2, <1>6, SameCall DEF AtPage
  <2>4. Progress'
    BY <2>3, <1>1, <1>6 DEF Progress
  <2>5. InTransit'
    BY <1>1, <1>6 DEF InTransit, Operation, Chunk
  <2> QED
    BY <2>4, <2>5, <1>6 DEF DInv
<1>7. CASE phase = "op" /\ phase' = "poll" /\ UNCHANGED <<call, counter, outcome, before>>
  <2>1. shift = Operation
    <3>1. shift \o << >> = Operation
      BY <1>1, <1>7 DEF DInv, InTransit
    <3> QED
      BY <3>1, <1>1
  <2>2. busy = Done /\ wel /\ AtPage
    BY <1>1, <1>3, <1>7 DEF CInv, ChipListens, Progress
  <2>3. PastPage'
    BY <2>1, <2>2, <1>1, <1>3, <1>7, PagePut DEF DInv
  <2>4. Progress'
    BY <2>3, <1>1, <1>7 DEF Progress
  <2> QED
    BY <2>4, <1>7 DEF DInv, InTransit
<1>8. CASE /\ phase = "poll" /\ busy # Done /\ UNCHANGED <<call, before>>
           /\ \/ phase' = "poll" /\ outcome' = outcome
              \/ phase' = "idle" /\ outcome' = "OperationTimeOut"
  <2>1. PastPage /\ After' = After /\ busy' = busy
    BY <1>1, <1>2, <1>3, <1>8, SameChip DEF Progress
  <2>2. PastPage'
    BY <2>1, <1>1, <1>8, SameCall DEF PastPage
  <2>3. Progress'
    BY <2>2, <1>1, <1>8 DEF Progress
  <2> QED
    BY <2>3, <1>8 DEF DInv, InTransit
<1>9. CASE phase = "poll" /\ busy = Done /\ NextPage
  BY <1>9, <1>1, <1>2, NextPageDInv
<1>10. CASE phase = "read" /\ phase' = "idle" /\ UNCHANGED <<out, call, counter, outcome, before>>
  <2>1. ~(call.op \in {"pp", "sse"})
    BY <1>10 DEF DInv, Progress
  <2> QED
    BY <2>1, <1>10 DEF DInv, InTransit
<1> HIDE DEF Done
<1>11. ASSUME Return("OperationTimeOut")
       PROVE  UNCHANGED <<call, before>> /\ phase' = "idle" /\ outcome' = "OperationTimeOut"
  BY <1>11 DEF Return
<1> QED
  BY <1>4, <1>5, <1>6, <1>7, <1>8, <1>9, <1>10, <1>11, DeselectCases

(* The power fails: the bytes of the page under way are each as before it  *)
(* or as after it.                                                         *)
LEMMA PowerDInv ==
  ASSUME IInv, CInv, DInv, PowerLoss
  PROVE  DInv'
<1>1. /\ powered /\ ~powered' /\ phase' = "idle" /\ UNCHANGED <<call, outcome>> /\ busy' = Done
      /\ before' = IF busy # Done /\ Refused THEN mem' ELSE before
      /\ CallOK /\ After' = mem'
  BY DoneAfter DEF PowerLoss, PowerFails, IInv
<1>2. \A a \in Address : mem'[a] \in {mem[a], After[a]}
  <2>1. PICK done \in SUBSET Address :
          mem' = [a \in Address |-> IF a \in done THEN After[a] ELSE mem[a]]
    BY DEF PowerLoss, PowerFails
  <2> QED
    BY <2>1
<1>3. SUFFICES ASSUME call.op \in {"pp", "sse"} PROVE WrittenInOrder'
  BY <1>1 DEF DInv, InTransit, Progress
<1>4. Progress
  BY <1>3 DEF DInv
<1>5. CASE busy # Done /\ Refused
  <2>1. before' = mem' /\ call.sent = 0
    BY <1>1, <1>4, <1>5 DEF Refused, Progress
  <2>2. ASSUME NEW a \in Address PROVE Fine(a, After[a])'
    <3>1. call'.sent = 0 /\ CallOK' /\ call'.op \in {"pp", "sse"}
      BY <2>1, <1>1, <1>3 DEF CallOK
    <3> DEFINE x == call'
    <3>2. a \in Nat /\ x.at \in Nat /\ x.sent = 0 /\ x.op \in {"pp", "sse"} /\ x.data \in Seq(SUBSET Bits)
      BY <3>1, Consts DEF Address, CallOK, Bytes
    <3>3. Len(x.data) \in Nat /\ x.at - x.sent = x.at
      BY <3>2
    <3>4. a < x.at => a \notin x.at .. x.at + Len(x.data) - 1
      BY <3>2, <3>3
    <3>5. After'[a] = before'[a]
      BY <2>1, <1>1
    <3> QED
      BY <3>2, <3>3, <3>4, <3>5 DEF Fine, Wanted, Begun, Range
  <2> QED
    BY <2>2 DEF Fine, WrittenInOrder
<1>6. CASE ~(busy # Done /\ Refused)
  <2>1. before' = before
    BY <1>1, <1>6
  <2>2. ASSUME NEW a \in Address PROVE Fine(a, mem'[a])
    <3>1. Fine(a, Prefix(a)) /\ Fine(a, Through(a))
      BY <1>1, <1>3, BothFine
    <3>2. CASE busy = Done
      <4>1. After = mem
        BY <3>2, IdleAfter
      <4>2. After[a] \in {Prefix(a), Through(a)}
        BY <1>1, <1>4 DEF Progress, AtPage, PastPage, IInv, Typed, Returned
      <4> QED
        BY <4>1, <4>2, <3>1, <1>2
    <3>3. CASE busy # Done
      <4>1. PastPage
        <5>1. phase \notin {"wren", "op", "check"}
          BY <3>3, <1>6 DEF CInv, ChipListens, Refused
        <5>2. phase = "idle" => outcome = "OperationTimeOut"
          BY <3>3, <1>6 DEF CInv, Refusal, Refused
        <5>3. phase \in {"idle", "check", "wren", "op", "poll", "read"}
          BY DEF IInv, Typed
        <5> QED
          BY <5>1, <5>2, <5>3, <1>1, <1>4 DEF Progress
      <4> QED
        BY <4>1, <3>1, <3>3, <1>2 DEF PastPage
    <3> QED
      BY <3>2, <3>3
  <2>3. ASSUME NEW a \in Address PROVE Fine(a, After[a])'
    <3>1. Wanted(a)' = Wanted(a)
      BY <2>1, <1>1, SameCall
    <3> QED
      BY <2>1, <2>2, <3>1, <1>1 DEF Fine
  <2> QED
    BY <2>3 DEF Fine, WrittenInOrder
<1> QED
  BY <1>5, <1>6

LEMMA NextDInv == ASSUME ~Concurrent, IInv, BInv, CInv, DInv, [Next]_vars PROVE DInv'
<1>1. CASE FlashCall
  BY <1>1, CallDInv
<1>2. CASE FlashStep
  <2>1. powered' = powered
    BY <1>2 DEF FlashStep
  <2>2. CASE Select
    <3>1. /\ UNCHANGED <<mem, busy, call, before, phase, outcome, out>> /\ ~selected /\ selected' /\ shift' = << >>
      BY <2>2 DEF Select, enable_cs, flashVars
    <3>2. out \in Seq(Symbol)
      BY DEF IInv, Typed
    <3>3. << >> \o out = out
      BY <3>2
    <3>4. InTransit'
      BY <3>1, <3>3 DEF DInv, InTransit, Operation, Chunk
    <3> QED
      BY <2>1, <3>1, <3>4, StayDInv
  <2>3. CASE Byte
    <3>1. /\ UNCHANGED <<mem, busy, call, before, phase, outcome, selected>> /\ selected /\ out # << >>
          /\ shift' = Append(shift, Head(out)) /\ out' = Tail(out)
      BY <2>3 DEF Byte, WordSend, chipVars
    <3>2. out \in Seq(Symbol) /\ shift \in Seq(Symbol)
      BY DEF IInv, Typed
    <3>3. shift' \o out' = shift \o out
      BY <3>1, <3>2, Handed
    <3>4. InTransit'
      BY <3>1, <3>3 DEF DInv, InTransit, Operation, Chunk
    <3> QED
      BY <2>1, <3>1, <3>4, StayDInv
  <2>4. CASE Deselect
    BY <2>1, <2>4, DeselectDInv
  <2> QED
    BY <1>2, <2>2, <2>3, <2>4 DEF FlashStep, Driver
<1>3. CASE ChipStep
  <2>1. /\ UNCHANGED <<call, before, phase, outcome, powered, shift, out, selected>> /\ busy' = Done /\ mem' = After
    BY <1>3 DEF ChipStep, ChipDone, driverVars, busVars
  <2>2. After' = After /\ CallOK
    BY <2>1, DoneAfter DEF IInv
  <2>3. call.op \in {"pp", "sse"} => Progress'
    BY <2>1, <2>2, SameProgress DEF DInv
  <2>4. InTransit'
    BY <2>1 DEF DInv, InTransit, Operation, Chunk
  <2> QED
    BY <2>1, <2>3, <2>4 DEF DInv
<1>4. CASE DrawCall \/ DrawStep \/ UNCHANGED vars
  <2>1. UNCHANGED <<mem, busy, call, before, phase, outcome, powered, out>>
    BY <1>4 DEF DrawCall, DrawStep, vars, flashVars
  <2>2. phase = "op" => UNCHANGED <<shift, selected>>
    <3>1. CASE DrawCall \/ UNCHANGED vars
      BY <3>1 DEF DrawCall, vars, busVars
    <3>2. CASE DrawStep
      BY <3>2 DEF DrawStep, BInv, Lines
    <3> QED
      BY <1>4, <3>1, <3>2
  <2>3. Operation' = Operation
    BY <2>1 DEF Operation, Chunk
  <2>4. InTransit'
    BY <2>1, <2>2, <2>3 DEF DInv, InTransit
  <2> QED
    BY <2>1, <2>4, StayDInv
<1>5. CASE PowerLoss
  BY <1>5, PowerDInv
<1>6. CASE PowerOn
  <2>1. phase' = "idle" /\ call'.op = "none"
    BY <1>6 DEF PowerOn, PowerReturns, chipVars, IInv, NoCall
  <2> QED
    BY <2>1 DEF DInv, InTransit
<1> QED
  BY <1>1, <1>2, <1>3, <1>4, <1>5, <1>6 DEF Next

LEMMA AllInv == ASSUME ~Concurrent PROVE Spec => [](IInv /\ BInv /\ CInv /\ DInv)
<1>1. Init => IInv /\ BInv /\ CInv /\ DInv
  <2>1. Init => CInv
    BY DEF Init, BusInit, FlashInit, CInv, Sent, ChipListens
  <2> QED
    BY <2>1, InitIInv, InitBInv, InitDInv
<1>2. IInv /\ BInv /\ CInv /\ DInv /\ [Next]_vars => IInv' /\ BInv' /\ CInv' /\ DInv'
  BY NextIInv, NextBInv, NextCInv, NextDInv
<1> QED
  BY <1>1, <1>2, PTL DEF Spec

(* In turn, FlashProgram writes page after page, from any address and for  *)
(* any length, and an erasure one sector: at every moment, the chip being  *)
(* done or the power lost in the middle of a page, what the call has       *)
(* passed is written, what it has not reached is as it was, and no byte    *)
(* of the flash ever has a third value.                                    *)
THEOREM WrittenCorrect == ASSUME ~Concurrent PROVE Spec => []WrittenInOrder
<1>1. ASSUME IInv, CInv, DInv PROVE WrittenInOrder
  <2>1. CASE call.op \notin {"pp", "sse"}
    BY <2>1 DEF WrittenInOrder
  <2>2. CASE call.op \in {"pp", "sse"} /\ powered
    <3>1. ASSUME NEW a \in Address PROVE Fine(a, After[a])
      <4>1. After[a] \in {Prefix(a), Through(a)}
        BY <1>1, <2>2 DEF DInv, Progress, AtPage, PastPage, IInv, Typed, Returned
      <4> QED
        BY <4>1, <1>1, <2>2, BothFine DEF IInv
    <3> QED
      BY <3>1, FineEnough
  <2>3. CASE call.op \in {"pp", "sse"} /\ ~powered
    BY <1>1, <2>3 DEF DInv, Progress
  <2> QED
    BY <2>1, <2>2, <2>3
<1> QED
  BY <1>1, AllInv, PTL

(* In turn, a call that reports success has written everything it was      *)
(* given, and so has one that reports an address behind the flash: only    *)
(* the empty rest was refused.  A call that found the chip busy has        *)
(* written nothing.                                                        *)
THEOREM AnswerCorrect == ASSUME ~Concurrent PROVE Spec => []AnswerTrue
<1>1. ASSUME IInv, DInv PROVE AnswerTrue
  <2> SUFFICES ASSUME powered, phase = "idle", call.op \in {"pp", "sse"}
               PROVE  /\ outcome \in {"Success", "AddressInvalid"} =>
                           busy = Done /\ \A a \in Address : mem[a] = Wanted(a)
                      /\ outcome = "OperationOngoing" => After = before
    BY DEF AnswerTrue
  <2>1. CallOK /\ Progress
    BY <1>1 DEF IInv, DInv
  <2>2. ASSUME outcome \in {"Success", "AddressInvalid"}
        PROVE  busy = Done /\ \A a \in Address : mem[a] = Wanted(a)
    <3>1. busy = Done /\ PastPage /\ LastPage
      BY <2>1, <2>2 DEF Progress
    <3>2. After = mem
      BY <3>1, IdleAfter
    <3> QED
      BY <3>1, <3>2, <2>1, LastThrough DEF PastPage
  <2>3. ASSUME outcome = "OperationOngoing" PROVE After = before
    <3>1. AtPage /\ call.sent = 0
      BY <2>1, <2>3 DEF Progress
    <3>2. After \in [Address -> SUBSET Bits] /\ before \in [Address -> SUBSET Bits]
      BY <1>1, AfterType DEF IInv, Typed
    <3>3. \A a \in Address : After[a] = before[a]
      BY <3>1, <2>1, FirstPrefix DEF AtPage
    <3> QED
      BY <3>2, <3>3
  <2> QED
    BY <2>2, <2>3
<1> QED
  BY <1>1, AllInv, PTL
=============================================================================
