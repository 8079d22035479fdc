--------------------------- MODULE LedScan_proofs ---------------------------
(***************************************************************************)
(* The scan of the LEDs, for every number of words, lines and steps, every *)
(* word length and blanking time: ranges; with two fast edges or more to a *)
(* slow one, that a line is modulated from its own words of one buffer;    *)
(* and, if the clocks and the blanking time leave the driver chains the    *)
(* time they need (Paced), what is seen on the LEDs and in which order.    *)
(***************************************************************************)
EXTENDS LedScan, TLAPS

Base(r) == r * WORDS                  \* first address of line r + 1

WordAt(r, c) == IF c < WORDS THEN Base(r) + c ELSE HALF + Base(r) + (c - WORDS)

Step == [src : Source, level : -1 .. LEVELS]

OutSpi == [state : 0 .. 2, bitctr : 0 .. PIXELS, outclk : 0 .. 1, tmpdata : Step]

(* Types, with what the ranges rest on: vertsync is up between frames      *)
(* only, and a step is sent only before the last one.                      *)
MainTyped ==
  /\ lstate \in 0 .. 4 /\ rsubstate \in 0 .. 3 /\ ssubstate \in 0 .. 2
  /\ readctr \in 0 .. 2 * WORDS /\ pwm_ctr \in 0 .. LEVELS
  /\ spie_ctr \in 0 .. BLANK /\ spie_flag \in 0 .. 1
  /\ rdaddr \in 0 .. FULL - 1
  /\ vertsync \in 0 .. 1 /\ latchn \in 0 .. 1 /\ enablen \in 0 .. 1 /\ datardy \in 0 .. 1
  /\ en_mux \in 0 .. ROWS
  /\ databuf \in [Chan -> Source] /\ spi_data \in [Chan -> Step]
  /\ vertsync = 1 => lstate = 0
  /\ lstate # 3 => ssubstate = 0
  /\ ssubstate # 0 => pwm_ctr < LEVELS

FastTyped ==
  /\ memaddr \in (0 .. FULL - 1) \X (0 .. FULL - 1)
  /\ memq \in (0 .. FULL - 1) \X (0 .. FULL - 1)
  /\ phase \in 0 .. RATIO - 1 /\ reg_show_buffer \in 0 .. 1 /\ ccout_show \in 0 .. 1
  /\ outspi \in [Chan -> OutSpi]

(* While line r + 1 is fetched, the two addresses and the word counter     *)
(* move together; k words have been passed.                                *)
Passed == IF rsubstate = 3 THEN readctr - 1 ELSE readctr

Fetching(r) ==
  /\ lstate = 1 /\ Passed \in 0 .. 2 * WORDS - 1
  /\ addr0 = Base(r) + (IF Passed < WORDS THEN Passed ELSE WORDS)
  /\ addr1 = HALF + Base(r) + (IF Passed < WORDS THEN 0 ELSE Passed - WORDS)

Fetched(r) ==
  /\ lstate \in {2, 3, 4}
  /\ addr0 = Base(r) + WORDS /\ addr1 = HALF + Base(r) + WORDS
  /\ lstate \in {3, 4} => rsubstate = 0 /\ readctr = 0

AddrInv ==
  \/ lstate = 0 /\ addr0 \in 0 .. HALF /\ addr1 \in HALF .. FULL
  \/ \E r \in 0 .. ROWS - 1 : Fetching(r) \/ Fetched(r)

IInv == MainTyped /\ FastTyped /\ AddrInv

-----------------------------------------------------------------------------
LEMMA Consts ==
  /\ WORDS \in Nat /\ WORDS >= 1 /\ ROWS \in Nat /\ ROWS >= 1 /\ LEVELS \in Nat /\ LEVELS >= 2
  /\ BLANK \in Nat /\ BLANK >= 3 /\ PIXELS \in Nat /\ PIXELS >= 1 /\ RATIO \in Nat /\ RATIO >= 1
  /\ Shows \subseteq 0 .. 1
  BY ScanAssumption, ClockAssumption

LEMMA Products ==
  ASSUME NEW a \in Nat, NEW b \in Nat, NEW w \in Nat, w >= 1
  PROVE  /\ a * w \in Nat /\ a * w + w = (a + 1) * w
         /\ a < b => a * w + w <= b * w
         /\ a * w = b * w => a = b
<1>1. a * w \in Nat /\ a * w + w = (a + 1) * w
  BY SMTT(30)
<1>2. a < b => a * w + w <= b * w
  BY SMTT(30)
<1>3. b < a => b * w + w <= a * w
  BY SMTT(30)
<1> QED
  BY <1>1, <1>2, <1>3

(* The lines of a half panel.                                              *)
LEMMA Lines ==
  /\ HALF \in Nat /\ FULL = HALF + HALF /\ HALF >= WORDS /\ Base(0) = 0 /\ 0 \in 0 .. ROWS - 1
  /\ \A r \in 0 .. ROWS - 1 : /\ Base(r) \in Nat /\ Base(r) + WORDS <= HALF
                              /\ Base(r) + WORDS # HALF => r + 1 \in 0 .. ROWS - 1
                              /\ Base(r + 1) = Base(r) + WORDS
<1>1. HALF \in Nat /\ FULL = HALF + HALF /\ Base(0) = 0 /\ 0 \in 0 .. ROWS - 1
  BY Consts DEF HALF, FULL, Base
<1>2. ASSUME NEW r \in 0 .. ROWS - 1
      PROVE  /\ Base(r) \in Nat /\ Base(r) + WORDS <= HALF
             /\ Base(r) + WORDS # HALF => r + 1 \in 0 .. ROWS - 1
             /\ Base(r + 1) = Base(r) + WORDS
  <2>1. r \in Nat /\ r < ROWS
    BY Consts
  <2>2. r * WORDS \in Nat /\ r * WORDS + WORDS = (r + 1) * WORDS /\ r * WORDS + WORDS <= ROWS * WORDS
    BY <2>1, Consts, Products
  <2>3. r + 1 \notin 0 .. ROWS - 1 => r + 1 = ROWS
    BY <2>1, Consts
  <2> QED
    BY <2>2, <2>3 DEF Base, HALF
<1>3. HALF >= WORDS
  BY <1>1, <1>2, Consts
<1> QED
  BY <1>1, <1>2, <1>3

(* The line that ends at an address of the lower half.                     *)
LEMMA LineEnds ==
  /\ \A a : LineEndingAt(a) \in 0 .. ROWS
  /\ \A r \in 0 .. ROWS - 1 : LineEndingAt(HALF + Base(r) + WORDS) = r + 1
<1>1. ASSUME NEW a PROVE LineEndingAt(a) \in 0 .. ROWS
  <2> DEFINE P(r) == a = HALF + WORDS * r
  <2>1. CASE \E r \in 1 .. ROWS : P(r)
    <3>1. PICK r \in 1 .. ROWS : r = CHOOSE q \in 1 .. ROWS : P(q)
      BY <2>1, Zenon
    <3>2. LineEndingAt(a) = r
      BY <2>1, <3>1, Zenon DEF LineEndingAt
    <3> QED
      BY <3>2, Consts
  <2>2. CASE ~\E r \in 1 .. ROWS : P(r)
    <3>1. LineEndingAt(a) = 0
      BY <2>2, Zenon DEF LineEndingAt
    <3> QED
      BY <3>1, Consts
  <2> QED
    BY <2>1, <2>2
<1>2. ASSUME NEW r \in 0 .. ROWS - 1 PROVE LineEndingAt(HALF + Base(r) + WORDS) = r + 1
  <2>1. r \in Nat /\ r + 1 \in 1 .. ROWS /\ HALF \in Nat
    BY Consts, Lines
  <2>2. \A q \in 1 .. ROWS : q \in Nat /\ (r + 1) \in Nat /\ (WORDS * q = WORDS * (r + 1) => q = r + 1)
    <3> SUFFICES ASSUME NEW q \in 1 .. ROWS
                 PROVE  q \in Nat /\ (r + 1) \in Nat /\ (WORDS * q = WORDS * (r + 1) => q = r + 1)
      OBVIOUS
    <3>1. q \in Nat /\ r + 1 \in Nat
      BY <2>1
    <3>2. WORDS * q = q * WORDS /\ WORDS * (r + 1) = (r + 1) * WORDS
      BY <3>1, Consts
    <3> QED
      BY <3>1, <3>2, Consts, Products
  <2>3. WORDS * (r + 1) = Base(r) + WORDS
    BY <2>1, Consts, SMTT(30) DEF Base
  <2>4. \A q \in 1 .. ROWS : WORDS * q \in Nat
    BY Consts, SMTT(30)
  <2> DEFINE P(q) == HALF + Base(r) + WORDS = HALF + WORDS * q
  <2>5. ASSUME NEW q \in 1 .. ROWS PROVE P(q) <=> q = r + 1
    <3>1. PICK x \in Nat : x = WORDS * q
      BY <2>4
    <3>2. PICK y \in Nat : y = WORDS * (r + 1)
      BY <2>1, <2>4
    <3>3. Base(r) + WORDS = y /\ (x = y => q = r + 1) /\ (q = r + 1 => x = y)
      BY <2>2, <2>3, <3>1, <3>2
    <3>4. HALF + y = HALF + x <=> x = y
      BY <2>1
    <3>5. HALF + Base(r) + WORDS = HALF + y
      <4>1. HALF \in Nat /\ Base(r) \in Nat /\ WORDS \in Nat /\ y \in Nat
        BY <3>2, Lines, Consts
      <4> QED
        BY <3>3, <4>1
    <3>6. P(q) <=> HALF + y = HALF + x
      BY <3>1, <3>5, Zenon
    <3> HIDE DEF P
    <3> QED
      BY <3>3, <3>4, <3>6
  <2>6. LineEndingAt(HALF + Base(r) + WORDS) =
          IF \E q \in 1 .. ROWS : P(q) THEN CHOOSE q \in 1 .. ROWS : P(q) ELSE 0
    BY Zenon DEF LineEndingAt
  <2> HIDE DEF P
  <2>7. (CHOOSE q \in 1 .. ROWS : P(q)) = r + 1
    BY <2>1, <2>5
  <2> QED
    BY <2>1, <2>5, <2>6, <2>7
<1> QED
  BY <1>1, <1>2

LEMMA InitIInv == Init => IInv
<1> SUFFICES ASSUME Init PROVE IInv
  OBVIOUS
<1>1. Nowhere \in Source /\ Dark \in Step
  BY Consts, Lines DEF Nowhere, Source, Dark, Step
<1>2. MainTyped /\ FastTyped
  BY <1>1, Consts, Lines DEF Init, LedCtrlInit, MainTyped, FastTyped, OutSpi
<1>3. AddrInv
  BY Lines DEF Init, LedCtrlInit, AddrInv
<1> QED
  BY <1>2, <1>3 DEF IInv

-----------------------------------------------------------------------------
(* The edges, process by process.                                          *)

LEMMA OutSpiRecord ==
  ASSUME NEW s \in 0 .. 2, NEW n \in 0 .. PIXELS, NEW k \in 0 .. 1, NEW d \in Step
  PROVE  [state |-> s, bitctr |-> n, outclk |-> k, tmpdata |-> d] \in OutSpi
BY DEF OutSpi

LEMMA OutSpiType ==
  ASSUME NEW o \in OutSpi, NEW w \in Step, NEW rdy \in 0 .. 1
  PROVE  OutSpiNext(o, w, rdy) \in OutSpi
<1>1. PICK s \in 0 .. 2, n \in 0 .. PIXELS, k \in 0 .. 1, d \in Step :
        o = [state |-> s, bitctr |-> n, outclk |-> k, tmpdata |-> d]
  BY DEF OutSpi
<1>2. o.state = s /\ o.bitctr = n
  BY <1>1
<1>3. 0 \in 0 .. PIXELS /\ PIXELS \in Nat /\ 0 \in 0 .. 2 /\ 1 \in 0 .. 2 /\ 2 \in 0 .. 2 /\ 0 \in 0 .. 1 /\ 1 \in 0 .. 1
  BY Consts
<1>4. CASE s = 0 /\ rdy = 0
  <2>1. OutSpiNext(o, w, rdy) = [state |-> s, bitctr |-> 0, outclk |-> 0, tmpdata |-> d]
    <3>1. OutSpiNext(o, w, rdy) = [o EXCEPT !.bitctr = 0, !.outclk = 0]
      BY <1>2, <1>4 DEF OutSpiNext
    <3>2. [o EXCEPT !.bitctr = 0, !.outclk = 0] = [state |-> s, bitctr |-> 0, outclk |-> 0, tmpdata |-> d]
      <4>1. [o EXCEPT !.bitctr = 0] = [state |-> s, bitctr |-> 0, outclk |-> k, tmpdata |-> d]
        BY <1>1
      <4>2. [[state |-> s, bitctr |-> 0, outclk |-> k, tmpdata |-> d] EXCEPT !.outclk = 0] = [state |-> s, bitctr |-> 0, outclk |-> 0, tmpdata |-> d]
        BY <1>1
      <4>3. [o EXCEPT !.bitctr = 0, !.outclk = 0]
             = [[o EXCEPT !.bitctr = 0] EXCEPT !.outclk = 0]
        BY <1>2
      <4> QED
        BY <4>1, <4>2, <4>3, Zenon
    <3> QED
      BY <3>1, <3>2, Zenon
  <2> QED
    BY <1>3, <2>1, OutSpiRecord, Zenon
<1>5. CASE s = 0 /\ rdy = 1
  <2>1. OutSpiNext(o, w, rdy) = [state |-> 1, bitctr |-> 0, outclk |-> 0, tmpdata |-> w]
    BY <1>2, <1>5 DEF OutSpiNext
  <2> QED
    BY <1>3, <2>1, OutSpiRecord, Zenon
<1>6. CASE s # 0 /\ n = PIXELS
  <2>1. OutSpiNext(o, w, rdy) = [state |-> 0, bitctr |-> n, outclk |-> k, tmpdata |-> d]
    BY <1>1, <1>2, <1>6 DEF OutSpiNext
  <2> QED
    BY <1>3, <2>1, OutSpiRecord, Zenon
<1>7. CASE s = 1 /\ n # PIXELS
  <2>1. OutSpiNext(o, w, rdy) = [state |-> 2, bitctr |-> n, outclk |-> 0, tmpdata |-> d]
    <3>1. OutSpiNext(o, w, rdy) = [o EXCEPT !.state = 2, !.outclk = 0]
      BY <1>2, <1>7 DEF OutSpiNext
    <3>2. [o EXCEPT !.state = 2, !.outclk = 0] = [state |-> 2, bitctr |-> n, outclk |-> 0, tmpdata |-> d]
      <4>1. [o EXCEPT !.state = 2] = [state |-> 2, bitctr |-> n, outclk |-> k, tmpdata |-> d]
        BY <1>1
      <4>2. [[state |-> 2, bitctr |-> n, outclk |-> k, tmpdata |-> d] EXCEPT !.outclk = 0] = [state |-> 2, bitctr |-> n, outclk |-> 0, tmpdata |-> d]
        BY <1>1
      <4>3. [o EXCEPT !.state = 2, !.outclk = 0]
             = [[o EXCEPT !.state = 2] EXCEPT !.outclk = 0]
        BY <1>2
      <4> QED
        BY <4>1, <4>2, <4>3, Zenon
    <3> QED
      BY <3>1, <3>2, Zenon
  <2> QED
    BY <1>3, <2>1, OutSpiRecord, Zenon
<1>8. CASE s = 2 /\ n # PIXELS
  <2>1. OutSpiNext(o, w, rdy) = [state |-> 1, bitctr |-> n + 1, outclk |-> 1, tmpdata |-> d]
    <3>1. OutSpiNext(o, w, rdy) = [o EXCEPT !.state = 1, !.outclk = 1, !.bitctr = @ + 1]
      BY <1>2, <1>8 DEF OutSpiNext
    <3>2. [o EXCEPT !.state = 1, !.outclk = 1, !.bitctr = @ + 1] = [state |-> 1, bitctr |-> n + 1, outclk |-> 1, tmpdata |-> d]
      <4>1. [o EXCEPT !.state = 1] = [state |-> 1, bitctr |-> n, outclk |-> k, tmpdata |-> d]
        BY <1>1
      <4>2. [[state |-> 1, bitctr |-> n, outclk |-> k, tmpdata |-> d] EXCEPT !.outclk = 1] = [state |-> 1, bitctr |-> n, outclk |-> 1, tmpdata |-> d]
        BY <1>1
      <4>3. [[state |-> 1, bitctr |-> n, outclk |-> 1, tmpdata |-> d] EXCEPT !.bitctr = n + 1] = [state |-> 1, bitctr |-> n + 1, outclk |-> 1, tmpdata |-> d]
        BY <1>1
      <4>4. [o EXCEPT !.state = 1, !.outclk = 1, !.bitctr = @ + 1]
             = [[[o EXCEPT !.state = 1] EXCEPT !.outclk = 1] EXCEPT !.bitctr = n + 1]
        BY <1>2
      <4> QED
        BY <4>1, <4>2, <4>3, <4>4, Zenon
    <3> QED
      BY <3>1, <3>2, Zenon
  <2>2. n + 1 \in 0 .. PIXELS
    BY <1>3, <1>8
  <2> QED
    BY <1>3, <2>1, <2>2, OutSpiRecord, Zenon
<1> QED
  BY <1>4, <1>5, <1>6, <1>7, <1>8

LEMMA FastStep ==
  ASSUME MainTyped, FastTyped, FastEdge, ccout_show' \in 0 .. 1
  PROVE  FastTyped'
<1>1. phase' \in 0 .. RATIO - 1
  <2>1. phase + 1 \in Nat /\ RATIO \in Nat \ {0}
    BY Consts DEF FastTyped
  <2> QED
    BY <2>1 DEF FastEdge
<1>2. reg_show_buffer' \in 0 .. 1
  BY DEF FastEdge, LatchBuffer, FastTyped
<1>3. /\ memaddr' \in (0 .. FULL - 1) \X (0 .. FULL - 1)
      /\ memq' \in (0 .. FULL - 1) \X (0 .. FULL - 1)
  <2>1. 0 \in 0 .. FULL - 1 /\ rdaddr \in 0 .. FULL - 1
    BY Lines, Consts DEF MainTyped
  <2> QED
    BY <2>1 DEF FastEdge, ReadMemories, FastTyped
<1>4. outspi' \in [Chan -> OutSpi]
  BY OutSpiType DEF FastEdge, FastTyped, MainTyped
<1> QED
  BY <1>1, <1>2, <1>3, <1>4 DEF FastTyped

LEMMA BlankingType == ASSUME MainTyped, Blanking PROVE spie_ctr' \in 0 .. BLANK /\ enablen' \in 0 .. 1
  BY Consts DEF Blanking, MainTyped

(* A frame starts with the first line, whatever the counters held.         *)
LEMMA StartFrameStep ==
  ASSUME MainTyped, Blanking, StartFrame
  PROVE  MainTyped' /\ Fetching(0)' /\ 0 \in 0 .. ROWS - 1
<1>1. Nowhere \in Source /\ Base(0) = 0 /\ HALF \in Nat /\ WORDS \in Nat /\ WORDS >= 1 /\ 0 \in 0 .. ROWS - 1
  BY Consts, Lines DEF Nowhere, Source
<1>2. MainTyped'
  BY <1>1, BlankingType, Consts DEF StartFrame, MainTyped
<1>3. Fetching(0)'
  BY <1>1 DEF StartFrame, Fetching, Passed
<1> QED
  BY <1>1, <1>2, <1>3

(* A line is fetched.                                                      *)
Fetch(q) == PutAddress \/ AwaitWord \/ TakeWord(q) \/ Advance

LEMMA FetchStep ==
  ASSUME MainTyped, Blanking, NEW q \in Source, Fetch(q), NEW r \in 0 .. ROWS - 1, Fetching(r)
  PROVE  MainTyped' /\ (Fetching(r) \/ Fetched(r))'
<1>1. /\ Base(r) \in Nat /\ Base(r) + WORDS <= HALF /\ HALF \in Nat /\ FULL = HALF + HALF
      /\ WORDS \in Nat /\ WORDS >= 1
  BY Lines, Consts
<1>2. spie_ctr' \in 0 .. BLANK /\ enablen' \in 0 .. 1
  BY BlankingType
<1>3. CASE PutAddress
  <2>1. rdaddr' \in 0 .. FULL - 1
    BY <1>1, <1>3 DEF PutAddress, Fetching, Passed
  <2>2. MainTyped'
    BY <1>2, <1>3, <2>1 DEF PutAddress, MainTyped
  <2>3. Fetching(r)'
    BY <1>3 DEF PutAddress, Fetching, Passed
  <2> QED
    BY <2>2, <2>3
<1>4. CASE AwaitWord
  <2>1. MainTyped'
    BY <1>2, <1>4 DEF AwaitWord, MainTyped
  <2>2. Fetching(r)'
    BY <1>4 DEF AwaitWord, Fetching, Passed
  <2> QED
    BY <2>1, <2>2
<1>5. CASE TakeWord(q)
  <2>1. readctr \in 0 .. 2 * WORDS - 1 /\ readctr' = readctr + 1 /\ databuf' = [databuf EXCEPT ![readctr] = q]
    BY <1>1, <1>5 DEF TakeWord, Fetching, Passed
  <2>2. MainTyped'
    <3>1. databuf' \in [Chan -> Source] /\ readctr' \in 0 .. 2 * WORDS
      BY <1>1, <2>1 DEF MainTyped, Chan
    <3> QED
      BY <1>2, <1>5, <3>1 DEF TakeWord, MainTyped
  <2>3. Passed' = Passed
    BY <1>5, <2>1 DEF TakeWord, Passed
  <2>4. Fetching(r)'
    BY <1>5, <2>3 DEF TakeWord, Fetching
  <2> QED
    BY <2>2, <2>4
<1>6. CASE Advance
  <2>1. MainTyped'
    BY <1>2, <1>6 DEF Advance, MainTyped
  <2>2. PICK k \in 0 .. 2 * WORDS - 1 : k = Passed /\ readctr = k + 1
    BY <1>6 DEF Advance, Fetching, Passed, MainTyped
  <2>3. /\ addr0 = Base(r) + (IF k < WORDS THEN k ELSE WORDS)
        /\ addr1 = HALF + Base(r) + (IF k < WORDS THEN 0 ELSE k - WORDS)
    BY <2>2 DEF Fetching
  <2>4. /\ addr0' = Base(r) + (IF k + 1 < WORDS THEN k + 1 ELSE WORDS)
        /\ addr1' = HALF + Base(r) + (IF k + 1 < WORDS THEN 0 ELSE (k + 1) - WORDS)
    BY <1>1, <1>6, <2>2, <2>3 DEF Advance
  <2>5. CASE readctr = 2 * WORDS
    <3>1. k + 1 = 2 * WORDS /\ lstate' = 2 /\ ~(k + 1 < WORDS) /\ (k + 1) - WORDS = WORDS
      BY <1>1, <1>6, <2>2, <2>5 DEF Advance
    <3> QED
      BY <2>1, <2>4, <3>1 DEF Fetched
  <2>6. CASE readctr # 2 * WORDS
    <3>1. lstate' = 1 /\ Passed' = k + 1 /\ k + 1 \in 0 .. 2 * WORDS - 1
      BY <1>1, <1>6, <2>2, <2>6 DEF Advance, Passed
    <3> QED
      BY <2>1, <2>4, <3>1 DEF Fetching
  <2> QED
    BY <2>5, <2>6
<1> QED
  BY <1>3, <1>4, <1>5, <1>6 DEF Fetch

(* A line is driven and sent, step by step.                                *)
Modulate(ready) == StartLine \/ AwaitChains(ready) \/ SendLine \/ CountStep

LEMMA ModulateStep ==
  ASSUME MainTyped, Blanking, NEW ready, Modulate(ready), NEW r \in 0 .. ROWS - 1, Fetched(r)
  PROVE  MainTyped' /\ Fetched(r)'
<1>1. spie_ctr' \in 0 .. BLANK /\ enablen' \in 0 .. 1 /\ WORDS \in Nat /\ LEVELS \in Nat
  BY BlankingType, Consts
<1>2. CASE StartLine
  <2>1. en_mux' \in 0 .. ROWS
    BY <1>2, LineEnds DEF StartLine
  <2>2. MainTyped'
    BY <1>1, <1>2, <2>1 DEF StartLine, MainTyped
  <2> QED
    BY <1>2, <2>2 DEF StartLine, Fetched
<1>3. CASE AwaitChains(ready)
  BY <1>1, <1>3 DEF AwaitChains, MainTyped, Fetched
<1>4. CASE SendLine
  <2>1. spi_data' \in [Chan -> Step]
    <3>1. pwm_ctr \in -1 .. LEVELS
      BY <1>1 DEF MainTyped
    <3> QED
      BY <1>4, <3>1 DEF SendLine, MainTyped, Step
  <2> QED
    BY <1>1, <1>4, <2>1 DEF SendLine, MainTyped, Fetched
<1>5. CASE CountStep
  BY <1>1, <1>5 DEF CountStep, MainTyped, Fetched
<1> QED
  BY <1>2, <1>3, <1>4, <1>5 DEF Modulate

(* The next line, or the end of the frame.                                 *)
LEMMA EndLineStep ==
  ASSUME MainTyped, Blanking, EndLine, NEW r \in 0 .. ROWS - 1, Fetched(r)
  PROVE  /\ MainTyped'
         /\ \/ lstate' = 0 /\ addr0' \in 0 .. HALF /\ addr1' \in HALF .. FULL
            \/ r + 1 \in 0 .. ROWS - 1 /\ Fetching(r + 1)' /\ rsubstate' = 0 /\ readctr' = 0
<1>1. /\ Base(r) \in Nat /\ Base(r) + WORDS <= HALF /\ HALF \in Nat /\ FULL = HALF + HALF
      /\ WORDS \in Nat /\ WORDS >= 1 /\ Base(r + 1) = Base(r) + WORDS
      /\ Base(r) + WORDS # HALF => r + 1 \in 0 .. ROWS - 1
  BY Lines, Consts
<1>2. MainTyped'
  BY BlankingType DEF EndLine, MainTyped
<1>3. rsubstate' = 0 /\ readctr' = 0 /\ addr0' = addr0 /\ addr1' = addr1
      /\ addr0 = Base(r) + WORDS /\ addr1 = HALF + Base(r) + WORDS
  BY DEF EndLine, Fetched
<1>4. CASE addr1 = FULL
  <2>1. lstate' = 0
    BY <1>4 DEF EndLine
  <2> QED
    BY <1>1, <1>2, <1>3, <2>1
<1>5. CASE addr1 # FULL
  <2>1. lstate' = 1 /\ r + 1 \in 0 .. ROWS - 1
    BY <1>1, <1>3, <1>5 DEF EndLine
  <2>2. Fetching(r + 1)'
    BY <1>1, <1>3, <2>1 DEF Fetching, Passed
  <2> QED
    BY <1>2, <1>3, <2>1, <2>2
<1> QED
  BY <1>4, <1>5

LEMMA SlowStep ==
  ASSUME IInv, NEW q \in Source, NEW ready, LedCtrlEdge(q, ready)
  PROVE  MainTyped' /\ AddrInv'
<1>1. Blanking /\ MainTyped
  BY DEF LedCtrlEdge, IInv
<1>2. CASE StartFrame
  BY <1>1, <1>2, StartFrameStep DEF AddrInv
<1>3. CASE Fetch(q)
  <2>1. PICK r \in 0 .. ROWS - 1 : Fetching(r)
    BY <1>3 DEF Fetch, PutAddress, AwaitWord, TakeWord, Advance, IInv, AddrInv, Fetched
  <2> QED
    BY <1>1, <1>3, <2>1, FetchStep DEF AddrInv
<1>4. CASE Modulate(ready)
  <2>1. PICK r \in 0 .. ROWS - 1 : Fetched(r)
    BY <1>4 DEF Modulate, StartLine, AwaitChains, SendLine, CountStep, IInv, AddrInv, Fetching
  <2> QED
    BY <1>1, <1>4, <2>1, ModulateStep DEF AddrInv
<1>5. CASE EndLine
  <2>1. PICK r \in 0 .. ROWS - 1 : Fetched(r)
    BY <1>5 DEF EndLine, IInv, AddrInv, Fetching
  <2> QED
    BY <1>1, <1>5, <2>1, EndLineStep DEF AddrInv
<1> QED
  BY <1>2, <1>3, <1>4, <1>5 DEF LedCtrlEdge, Fetch, Modulate

LEMMA ShownWord == ASSUME FastTyped PROVE lcin_q \in Source
  BY DEF FastTyped, lcin_q, Source

LEMMA NextIInv == ASSUME IInv, [Next]_vars PROVE IInv'
<1>1. CASE Between
  <2>1. UNCHANGED <<ledctrlVars, ccout_show>> /\ FastEdge
    BY <1>1 DEF Between
  <2>2. FastTyped'
    BY <2>1, FastStep DEF IInv, FastTyped
  <2>3. MainTyped' /\ AddrInv'
    BY <2>1 DEF ledctrlVars, mainVars, IInv, MainTyped, AddrInv, Fetching, Fetched, Passed
  <2> QED
    BY <2>2, <2>3 DEF IInv
<1>2. CASE Together
  <2>1. ccout_show' \in 0 .. 1
    BY <1>2, Consts DEF Together, IInv, FastTyped
  <2>2. FastTyped'
    BY <1>2, <2>1, FastStep DEF Together, IInv
  <2>3. MainTyped' /\ AddrInv'
    BY <1>2, SlowStep, ShownWord DEF Together, IInv
  <2> QED
    BY <2>2, <2>3 DEF IInv
<1>3. CASE UNCHANGED vars
  BY <1>3 DEF vars, ledctrlVars, mainVars, scanVars, IInv, MainTyped, FastTyped, AddrInv, Fetching, Fetched, Passed
<1> QED
  BY <1>1, <1>2, <1>3 DEF Next

(* The two address counters, the word counter and the step counter stay in *)
(* the ranges that ledctrl.vhd declares, although each has its own test    *)
(* for its last value.                                                     *)
THEOREM TypeCorrect == Spec => []TypeOK
<1>1. ASSUME IInv PROVE TypeOK
  <2>1. addr0 \in 0 .. HALF /\ addr1 \in HALF .. FULL
    <3>1. ASSUME NEW r \in 0 .. ROWS - 1, Fetching(r) \/ Fetched(r)
          PROVE  addr0 \in 0 .. HALF /\ addr1 \in HALF .. FULL
      <4>1. /\ Base(r) \in Nat /\ Base(r) + WORDS <= HALF /\ HALF \in Nat /\ FULL = HALF + HALF
            /\ WORDS \in Nat /\ WORDS >= 1
        BY Lines, Consts
      <4> QED
        BY <3>1, <4>1 DEF Fetching, Fetched
    <3> QED
      BY <1>1, <3>1 DEF IInv, AddrInv
  <2>2. \A c \in Chan : outspi[c].state \in 0 .. 2 /\ outspi[c].bitctr \in 0 .. PIXELS
    BY <1>1 DEF IInv, FastTyped, OutSpi
  <2> QED
    BY <1>1, <2>1, <2>2 DEF IInv, MainTyped, FastTyped, TypeOK
<1>2. IInv /\ [Next]_vars => IInv'
  BY NextIInv
<1> QED
  BY InitIInv, <1>1, <1>2, PTL DEF Spec

-----------------------------------------------------------------------------
(* The words of a line.  Filled: the first n words of line r + 1 are in.   *)
(* Piped: the address put out has reached the memory's address register by *)
(* the second fast edge, and the word its output by the second slow one.   *)
Filled(r, n) == \A c \in Chan : c < n => databuf[c] = <<reg_show_buffer, WordAt(r, c)>>

Shown(m) == m[reg_show_buffer + 1]

Piped(r) ==
  /\ rsubstate \in {1, 2} => rdaddr = WordAt(r, readctr)
  /\ rsubstate = 1 /\ phase # 1 => Shown(memaddr) = rdaddr
  /\ rsubstate = 2 => Shown(memaddr) = rdaddr /\ Shown(memq) = rdaddr

Filling(r) == Fetching(r) /\ Filled(r, readctr) /\ Piped(r)

Full(r) == Fetched(r) /\ Filled(r, 2 * WORDS)

WInv == lstate # 0 => \E r \in 0 .. ROWS - 1 : Filling(r) \/ Full(r)

(* Inside a frame the buffer shown is fixed, and the read ports lag.       *)
LEMMA ReadPorts ==
  ASSUME IInv, FastEdge, lstate # 0
  PROVE  /\ reg_show_buffer' = reg_show_buffer /\ reg_show_buffer \in 0 .. 1
         /\ Shown(memaddr)' = rdaddr /\ Shown(memq)' = Shown(memaddr)
<1>1. vertsync # 1
  BY DEF IInv, MainTyped
<1>2. reg_show_buffer' = reg_show_buffer /\ reg_show_buffer \in 0 .. 1
  BY <1>1 DEF FastEdge, LatchBuffer, IInv, FastTyped
<1>3. /\ memaddr' = <<IF reg_show_buffer = 0 THEN rdaddr ELSE 0,
                      IF reg_show_buffer = 1 THEN rdaddr ELSE 0>>
      /\ memq' = memaddr
  BY DEF FastEdge, ReadMemories
<1> QED
  BY <1>2, <1>3 DEF Shown

(* An edge of the fast clock alone.                                        *)
LEMMA BetweenWords == ASSUME IInv, WInv, Between PROVE WInv'
<1>1. UNCHANGED <<ledctrlVars, ccout_show>> /\ FastEdge /\ phase # 0
  BY DEF Between
<1>2. /\ lstate' = lstate /\ rsubstate' = rsubstate /\ readctr' = readctr /\ databuf' = databuf
      /\ addr0' = addr0 /\ addr1' = addr1 /\ rdaddr' = rdaddr
  BY <1>1 DEF ledctrlVars, mainVars
<1> SUFFICES ASSUME lstate # 0 PROVE \E r \in 0 .. ROWS - 1 : (Filling(r) \/ Full(r))'
  BY <1>2 DEF WInv
<1>3. PICK r \in 0 .. ROWS - 1 : Filling(r) \/ Full(r)
  BY DEF WInv
<1>4. /\ reg_show_buffer' = reg_show_buffer
      /\ Shown(memaddr)' = rdaddr /\ Shown(memq)' = Shown(memaddr)
  BY <1>1, ReadPorts
<1>5. CASE Filling(r)
  <2>1. Fetching(r)' /\ Filled(r, readctr)'
    BY <1>2, <1>4, <1>5 DEF Filling, Fetching, Passed, Filled
  <2>2. Piped(r)'
    BY <1>2, <1>4, <1>5 DEF Filling, Piped
  <2> QED
    BY <2>1, <2>2 DEF Filling
<1>6. CASE Full(r)
  BY <1>2, <1>4, <1>6 DEF Full, Fetched, Filled
<1> QED
  BY <1>3, <1>5, <1>6

(* A slow edge while a line is fetched.                                    *)
LEMMA FetchWords ==
  ASSUME IInv, RATIO >= 2, phase = 0, FastEdge, Blanking, Fetch(lcin_q),
         NEW r \in 0 .. ROWS - 1, Filling(r)
  PROVE  (Filling(r) \/ Full(r))'
<1>0. WORDS \in Nat /\ WORDS >= 1 /\ RATIO \in Nat
  BY Consts
<1>1. /\ reg_show_buffer' = reg_show_buffer /\ reg_show_buffer \in 0 .. 1
      /\ Shown(memaddr)' = rdaddr /\ Shown(memq)' = Shown(memaddr)
  BY ReadPorts DEF Filling, Fetching
<1>2. (Fetching(r) \/ Fetched(r))'
  BY FetchStep, ShownWord DEF IInv, Filling
<1>3. phase' = 1
  <2>1. (0 + 1) % RATIO = 1
    BY <1>0
  <2> QED
    BY <2>1 DEF FastEdge
<1>4. CASE PutAddress
  <2>1. lstate' = 1 /\ rsubstate' = 1 /\ readctr' = readctr /\ databuf' = databuf
    BY <1>4 DEF PutAddress
  <2>2. Filled(r, readctr)'
    BY <1>1, <2>1 DEF Filling, Filled
  <2>3. rdaddr' = WordAt(r, readctr)
    BY <1>0, <1>4 DEF PutAddress, Filling, Fetching, Passed, WordAt
  <2>4. Piped(r)'
    BY <1>3, <2>1, <2>3 DEF Piped
  <2> QED
    BY <1>2, <2>1, <2>2, <2>4 DEF Filling, Fetched
<1>5. CASE AwaitWord
  <2>1. /\ lstate' = 1 /\ rsubstate = 1 /\ rsubstate' = 2 /\ readctr' = readctr /\ databuf' = databuf
        /\ rdaddr' = rdaddr
    BY <1>5 DEF AwaitWord
  <2>2. Filled(r, readctr)'
    BY <1>1, <2>1 DEF Filling, Filled
  <2>3. rdaddr = WordAt(r, readctr) /\ Shown(memaddr) = rdaddr
    BY <2>1 DEF Filling, Piped
  <2>4. Piped(r)'
    BY <1>1, <2>1, <2>3 DEF Piped
  <2> QED
    BY <1>2, <2>1, <2>2, <2>4 DEF Filling, Fetched
<1>6. CASE TakeWord(lcin_q)
  <2>1. lstate' = 1 /\ rsubstate = 2 /\ rsubstate' = 3
    BY <1>6 DEF TakeWord
  <2>2. readctr \in Chan
    BY <1>0, <2>1 DEF Filling, Fetching, Passed, Chan
  <2>3. readctr' = readctr + 1 /\ databuf' = [databuf EXCEPT ![readctr] = lcin_q]
    BY <1>0, <1>6, <2>2 DEF TakeWord, Chan
  <2>4. lcin_q = <<reg_show_buffer, WordAt(r, readctr)>>
    BY <2>1 DEF Filling, Piped, lcin_q, Shown
  <2>5. ASSUME NEW c \in Chan, c < readctr + 1
        PROVE  databuf'[c] = <<reg_show_buffer, WordAt(r, c)>>
    <3>1. databuf \in [Chan -> Source]
      BY DEF IInv, MainTyped
    <3>2. CASE c = readctr
      BY <2>3, <2>4, <3>1, <3>2
    <3>3. CASE c # readctr
      <4>1. c < readctr
        BY <1>0, <2>2, <2>5, <3>3 DEF Chan
      <4> QED
        BY <2>3, <3>1, <3>3, <4>1 DEF Filling, Filled
    <3> QED
      BY <3>2, <3>3
  <2>6. Filled(r, readctr)'
    BY <1>1, <2>3, <2>5 DEF Filled
  <2>7. Piped(r)'
    BY <2>1 DEF Piped
  <2> QED
    BY <1>2, <2>1, <2>6, <2>7 DEF Filling, Fetched
<1>7. CASE Advance
  <2>1. readctr' = readctr /\ databuf' = databuf
    BY <1>7 DEF Advance
  <2>2. Filled(r, readctr)'
    BY <1>1, <2>1 DEF Filling, Filled
  <2>3. CASE readctr = 2 * WORDS
    <3>1. lstate' = 2 /\ Filled(r, 2 * WORDS)'
      BY <1>7, <2>1, <2>2, <2>3 DEF Advance, Filled
    <3> QED
      BY <1>2, <3>1 DEF Full, Fetching
  <2>4. CASE readctr # 2 * WORDS
    <3>1. lstate' = 1 /\ rsubstate' = 0
      BY <1>7, <2>4 DEF Advance
    <3> QED
      BY <1>2, <2>2, <3>1 DEF Filling, Fetched, Piped
  <2> QED
    BY <2>3, <2>4
<1> QED
  BY <1>4, <1>5, <1>6, <1>7 DEF Fetch

(* A slow edge at any other time.                                          *)
LEMMA TogetherWords == ASSUME IInv, WInv, RATIO >= 2, Together PROVE WInv'
<1>1. phase = 0 /\ LedCtrlEdge(lcin_q, Ready) /\ FastEdge /\ Blanking /\ MainTyped
  BY DEF Together, LedCtrlEdge, IInv
<1>2. CASE StartFrame
  <2>1. Fetching(0)' /\ 0 \in 0 .. ROWS - 1 /\ readctr' = 0 /\ rsubstate' = 0
    BY <1>1, <1>2, StartFrameStep DEF StartFrame
  <2>2. Filled(0, readctr)' /\ Piped(0)'
    BY <2>1 DEF Filled, Piped, Chan
  <2> QED
    BY <2>1, <2>2 DEF WInv, Filling
<1>3. CASE Fetch(lcin_q)
  <2>1. PICK r \in 0 .. ROWS - 1 : Filling(r)
    BY <1>3 DEF Fetch, PutAddress, AwaitWord, TakeWord, Advance, WInv, Full, Fetched
  <2> QED
    BY <1>1, <1>3, <2>1, FetchWords DEF WInv
<1>4. CASE Modulate(Ready)
  <2>1. lstate # 0 /\ lstate # 1 /\ databuf' = databuf
    BY <1>4 DEF Modulate, StartLine, AwaitChains, SendLine, CountStep
  <2>2. PICK r \in 0 .. ROWS - 1 : Full(r)
    BY <2>1 DEF WInv, Filling, Fetching
  <2>3. Fetched(r)'
    BY <1>1, <1>4, <2>2, ModulateStep DEF Full
  <2>4. reg_show_buffer' = reg_show_buffer
    BY <1>1, <2>1, ReadPorts
  <2>5. Filled(r, 2 * WORDS)'
    BY <2>1, <2>2, <2>4 DEF Full, Filled
  <2> QED
    BY <2>3, <2>5 DEF Full, WInv
<1>5. CASE EndLine
  <2>1. PICK r \in 0 .. ROWS - 1 : Fetched(r)
    BY <1>5 DEF EndLine, WInv, Filling, Fetching, Full
  <2>2. \/ lstate' = 0
        \/ r + 1 \in 0 .. ROWS - 1 /\ Fetching(r + 1)' /\ rsubstate' = 0 /\ readctr' = 0
    BY <1>1, <1>5, <2>1, EndLineStep
  <2>3. CASE r + 1 \in 0 .. ROWS - 1 /\ Fetching(r + 1)' /\ rsubstate' = 0 /\ readctr' = 0
    <3>1. Filled(r + 1, readctr)' /\ Piped(r + 1)'
      BY <2>3 DEF Filled, Piped, Chan
    <3> QED
      BY <2>3, <3>1 DEF WInv, Filling
  <2> QED
    BY <2>2, <2>3 DEF WInv
<1> QED
  BY <1>1, <1>2, <1>3, <1>4, <1>5 DEF LedCtrlEdge, Fetch, Modulate

LEMMA NextWInv == ASSUME IInv, WInv, RATIO >= 2, [Next]_vars PROVE WInv'
<1>1. CASE UNCHANGED vars
  BY <1>1 DEF vars, ledctrlVars, mainVars, scanVars, WInv, Filling, Full, Fetching, Fetched,
              Passed, Filled, Piped, Shown
<1> QED
  BY <1>1, BetweenWords, TogetherWords DEF Next

LEMMA WordsRight == ASSUME IInv, WInv PROVE LineWhole
<1> SUFFICES ASSUME lstate \in {2, 3}
             PROVE  Line # 0 /\ \A c \in Chan : databuf[c] = <<reg_show_buffer, WordOf(Line, c)>>
  BY DEF LineWhole
<1>1. PICK r \in 0 .. ROWS - 1 : Full(r)
  BY DEF WInv, Filling, Fetching
<1>2. Line = r + 1 /\ r \in Nat
  BY <1>1, LineEnds, Consts DEF Line, Full, Fetched
<1>3. ASSUME NEW c \in Chan PROVE WordOf(r + 1, c) = WordAt(r, c)
  <2>1. ((r + 1) - 1) * WORDS = Base(r)
    <3>1. (r + 1) - 1 = r
      BY <1>2
    <3> QED
      BY <3>1 DEF Base
  <2>2. Base(r) \in Nat /\ HALF \in Nat /\ WORDS \in Nat /\ c \in Nat
    BY Lines, Consts DEF Chan
  <2>3. HALF + Base(r) + c - WORDS = HALF + Base(r) + (c - WORDS)
    BY <2>2
  <2> QED
    BY <2>1, <2>3 DEF WordOf, WordAt
<1>4. ASSUME NEW c \in Chan PROVE c < 2 * WORDS
  BY Consts DEF Chan
<1> QED
  BY <1>1, <1>2, <1>3, <1>4 DEF Full, Filled

(* A line is modulated from its own words, all of one buffer: with two     *)
(* fast edges or more in a slow one, the two waits of LEDCTRL cover the    *)
(* two registers of the memory, whatever the size of the panel; a flip     *)
(* asked for at any time waits for the end of the frame.                   *)
THEOREM LineCorrect == ASSUME RATIO >= 2 PROVE Spec => []LineWhole
<1>1. Init => WInv
  BY DEF Init, LedCtrlInit, WInv
<1>2. IInv /\ WInv /\ [Next]_vars => IInv' /\ WInv'
  BY NextIInv, NextWInv
<1> QED
  BY InitIInv, WordsRight, <1>1, <1>2, PTL DEF Spec
-----------------------------------------------------------------------------
(* What the LEDs show.  Age: fast edges since the last slow one.           *)
(* Progress: fast edges since the OUTSPI of a chain took its word.         *)
Age == IF phase = 0 THEN RATIO - 1 ELSE phase - 1

Progress(c) == 2 * outspi[c].bitctr + outspi[c].state - 1

Idle(c) == outspi[c].state = 0

(* Chain c holds word w, all of it.                                        *)
Holds(c, w) == chain[c] = [word |-> w, bits |-> PIXELS]

(* The word of an OUTSPI at work is the one in spi_data; its bits so far   *)
(* are in the chain, and before the first the chain is what the LEDs show. *)
Shifter(c) ==
  /\ outspi[c].state = 2 => outspi[c].bitctr < PIXELS /\ outspi[c].outclk = 0
  /\ ~Idle(c) => outspi[c].tmpdata = spi_data[c]
  /\ ~Idle(c) /\ outspi[c].bitctr # 0 =>
       chain[c] = [word |-> spi_data[c], bits |-> outspi[c].bitctr]
  /\ ~Idle(c) /\ outspi[c].bitctr = 0 => Holds(c, led[c])
  /\ Idle(c) /\ datardy = 0 => Holds(c, spi_data[c])
  /\ Idle(c) /\ datardy = 1 => Holds(c, led[c])

(* Fast edges since datardy went up.                                       *)
Since == IF ssubstate = 2 THEN Age ELSE RATIO + Age

(* datardy is up for two slow periods: long enough for every OUTSPI to     *)
(* take the word, too short for one to take it twice.                      *)
Taken(c) ==
  /\ datardy = 1 => IF Since = 0 THEN Idle(c) ELSE ~Idle(c) /\ Progress(c) = Since - 1
  /\ datardy = 0 /\ ~Idle(c) => outspi[c].bitctr # 0

(* Pattern x is the next one to show after y.                              *)
After(y, x) ==
  \/ x.level >= 1 /\ y.level = x.level - 1 /\ y.src = x.src
  \/ x.level = 0 /\ y.level = LEVELS - 1

(* Open, the latch shows the chain; closed, the word before the last sent. *)
Latched(c) ==
  /\ latchn = 1 => led[c] = IF chain[c].bits = PIXELS THEN chain[c].word ELSE Mixed
  /\ latchn = 0 => led[c] = spi_data[c] \/ After(led[c], spi_data[c])

(* A step of the line has been sent.                                       *)
Sent == lstate = 3 /\ (ssubstate = 2 \/ pwm_ctr > 0)

Pattern(c) ==
  /\ Sent => spi_data[c] = [src |-> databuf[c],
                            level |-> IF ssubstate = 2 THEN pwm_ctr ELSE pwm_ctr - 1]
  /\ ~Sent => spi_data[c].level = LEVELS - 1
  /\ Sent \/ (lstate \in {0, 1, 4} /\ en_mux # 0) => spi_data[c].src[2] = WordOf(en_mux, c)

(* Where the main state machine has datardy and the latch.                 *)
Signals ==
  /\ datardy = 1 => lstate = 3 /\ ssubstate # 1
  /\ ssubstate = 2 => datardy = 1
  /\ datardy = 1 => pwm_ctr > 0 \/ ssubstate = 2
  /\ lstate = 3 /\ ssubstate = 1 => latchn = 1
  /\ latchn = 1 => lstate = 2 \/ (lstate = 1 /\ en_mux = 0) \/ (lstate = 3 /\ ~Sent) \/ ssubstate = 1
  /\ lstate = 3 => en_mux = Line
  /\ lstate = 4 => pwm_ctr = LEVELS

Unlit == \A c \in Chan : Idle(c) /\ led[c].level = LEVELS - 1

(* The blanking timer: it runs down in state 2 only, with the LEDs off,    *)
(* but for the first time, when there is nothing to see.                   *)
Blanked ==
  /\ spie_flag = 1 => lstate = 2 /\ (spie_ctr = BLANK \/ (spie_ctr = 0 /\ enablen = 1))
  /\ lstate \in {3, 4} => spie_ctr = BLANK
  /\ lstate \in {0, 1} => spie_ctr = BLANK \/ Unlit
  /\ lstate = 2 /\ spie_ctr < BLANK => enablen = 1 \/ Unlit
  /\ lstate = 3 /\ ~Sent /\ ssubstate = 0 => enablen = 1 \/ Unlit

(* While it runs down the chains finish.                                   *)
Finishing(c) ==
  /\ lstate = 2 /\ spie_flag = 0 /\ spie_ctr < BLANK /\ ~Idle(c) =>
       spie_ctr * RATIO + Age <= Progress(c)
  /\ lstate = 3 /\ ~Sent => Idle(c)
  /\ ssubstate = 1 => Idle(c)

NInv ==
  /\ Signals /\ Blanked
  /\ \A c \in Chan : Shifter(c) /\ Taken(c) /\ Latched(c) /\ Pattern(c) /\ Finishing(c)

(* What the board has: two slow periods are too short for a word, and the  *)
(* blanking time is long enough for one.                                   *)
Paced == RATIO \in 2 .. PIXELS + 1 /\ 2 * PIXELS < BLANK * RATIO

LEMMA AgeStep ==
  ASSUME IInv, Paced
  PROVE  /\ Age \in 0 .. RATIO - 1 /\ (phase = 0 <=> Age = RATIO - 1)
         /\ FastEdge => Age' = IF phase = 0 THEN 0 ELSE Age + 1
<1>1. phase \in 0 .. RATIO - 1 /\ RATIO \in Nat /\ RATIO >= 2 /\ PIXELS \in Nat
  BY Consts DEF IInv, FastTyped, Paced
<1>2. Age \in 0 .. RATIO - 1 /\ (phase = 0 <=> Age = RATIO - 1)
  BY <1>1 DEF Age
<1>3. ASSUME FastEdge PROVE Age' = IF phase = 0 THEN 0 ELSE Age + 1
  <2>1. phase' = (phase + 1) % RATIO
    BY <1>3 DEF FastEdge
  <2>2. CASE phase + 1 = RATIO
    <3>1. phase' = 0
      BY <1>1, <2>1, <2>2
    <3> QED
      BY <1>1, <2>2, <3>1 DEF Age
  <2>3. CASE phase + 1 # RATIO
    <3>1. phase' = phase + 1
      BY <1>1, <2>1, <2>3
    <3> QED
      BY <1>1, <3>1 DEF Age
  <2> QED
    BY <2>2, <2>3
<1> QED
  BY <1>2, <1>3

(* What an OUTSPI and its chain do at a fast edge.                         *)
LEMMA OutSpiMoves ==
  ASSUME NEW o \in OutSpi, NEW w \in Step, NEW rdy \in 0 .. 1, NEW n, n = OutSpiNext(o, w, rdy)
  PROVE  /\ o.state = 0 /\ rdy = 0 => n.state = 0 /\ n.outclk = 0
         /\ o.state = 0 /\ rdy = 1 => n.state = 1 /\ n.bitctr = 0 /\ n.outclk = 0 /\ n.tmpdata = w
         /\ o.state # 0 /\ o.bitctr = PIXELS => n.state = 0 /\ n.outclk = o.outclk
         /\ o.state = 1 /\ o.bitctr # PIXELS =>
              n.state = 2 /\ n.bitctr = o.bitctr /\ n.outclk = 0 /\ n.tmpdata = o.tmpdata
         /\ o.state = 2 /\ o.bitctr # PIXELS =>
              n.state = 1 /\ n.bitctr = o.bitctr + 1 /\ n.outclk = 1 /\ n.tmpdata = o.tmpdata
<1>1. PICK s \in 0 .. 2, b \in 0 .. PIXELS, k \in 0 .. 1, d \in Step :
        o = [state |-> s, bitctr |-> b, outclk |-> k, tmpdata |-> d]
  BY DEF OutSpi
<1>2. o.state = s /\ o.bitctr = b /\ o.outclk = k /\ o.tmpdata = d
  BY <1>1
<1>3. CASE s = 0 /\ rdy = 0
  <2>1. n = [o EXCEPT !.bitctr = 0, !.outclk = 0]
    BY <1>2, <1>3 DEF OutSpiNext
  <2>2. n.state = 0 /\ n.outclk = 0
    BY <1>1, <1>3, <2>1
  <2> QED
    BY <1>2, <1>3, <2>2
<1>4. CASE s = 0 /\ rdy = 1
  <2>1. n = [state |-> 1, bitctr |-> 0, outclk |-> 0, tmpdata |-> w]
    BY <1>2, <1>4 DEF OutSpiNext
  <2>2. n.state = 1 /\ n.bitctr = 0 /\ n.outclk = 0 /\ n.tmpdata = w
    BY <2>1
  <2> QED
    BY <1>2, <1>4, <2>2
<1>5. CASE s # 0 /\ b = PIXELS
  <2>1. n = [o EXCEPT !.state = 0]
    BY <1>2, <1>5 DEF OutSpiNext
  <2>2. n.state = 0 /\ n.outclk = k
    BY <1>1, <2>1
  <2> QED
    BY <1>2, <1>5, <2>2
<1>6. CASE s = 1 /\ b # PIXELS
  <2>1. n = [o EXCEPT !.state = 2, !.outclk = 0]
    BY <1>2, <1>6 DEF OutSpiNext
  <2>2. n.state = 2 /\ n.bitctr = b /\ n.outclk = 0 /\ n.tmpdata = d
    BY <1>1, <2>1
  <2> QED
    BY <1>2, <1>6, <2>2
<1>7. CASE s = 2 /\ b # PIXELS
  <2>1. n = [o EXCEPT !.state = 1, !.outclk = 1, !.bitctr = b + 1]
    BY <1>2, <1>7 DEF OutSpiNext
  <2>2. n.state = 1 /\ n.bitctr = b + 1 /\ n.outclk = 1 /\ n.tmpdata = d
    BY <1>1, <2>1
  <2> QED
    BY <1>2, <1>7, <2>2
<1> QED
  BY <1>3, <1>4, <1>5, <1>6, <1>7

LEMMA ChainMoves ==
  ASSUME IInv, FastEdge, NEW c \in Chan, Shifter(c)
  PROVE  /\ outspi'[c].bitctr \in 0 .. PIXELS /\ outspi'[c].state \in 0 .. 2
         /\ Idle(c) /\ datardy = 0 => Idle(c)' /\ chain'[c] = chain[c]
         /\ Idle(c) /\ datardy = 1 =>
              /\ ~Idle(c)' /\ outspi'[c].state = 1 /\ outspi'[c].bitctr = 0
              /\ outspi'[c].tmpdata = spi_data[c] /\ chain'[c] = chain[c]
         /\ ~Idle(c) /\ outspi[c].bitctr = PIXELS => Idle(c)' /\ chain'[c] = chain[c]
         /\ ~Idle(c) /\ outspi[c].bitctr # PIXELS =>
              /\ ~Idle(c)' /\ Progress(c)' = Progress(c) + 1 /\ outspi'[c].tmpdata = spi_data[c]
              /\ outspi'[c].state = 2 => outspi'[c].bitctr < PIXELS /\ outspi'[c].outclk = 0
              /\ \/ outspi'[c].bitctr = outspi[c].bitctr /\ chain'[c] = chain[c]
                 \/ /\ outspi'[c].bitctr = outspi[c].bitctr + 1
                    /\ chain'[c] = [word |-> spi_data[c], bits |-> outspi'[c].bitctr]
<1>1. outspi[c] \in OutSpi /\ spi_data[c] \in Step /\ datardy \in 0 .. 1 /\ PIXELS \in Nat /\ PIXELS >= 1
  BY Consts DEF IInv, MainTyped, FastTyped
<1>2. outspi'[c] = OutSpiNext(outspi[c], spi_data[c], datardy)
  BY DEF FastEdge
<1>3. chain'[c] = IF outspi[c].outclk = 0 /\ outspi'[c].outclk = 1
                    THEN [word |-> outspi[c].tmpdata, bits |-> outspi[c].bitctr + 1]
                    ELSE chain[c]
  BY DEF FastEdge, ShiftChains
<1>4. outspi'[c] \in OutSpi
  BY <1>1, <1>2, OutSpiType
<1> DEFINE o == outspi[c]
           n == outspi'[c]
<1>5. /\ o.state \in 0 .. 2 /\ o.bitctr \in 0 .. PIXELS /\ o.outclk \in 0 .. 1
      /\ n.state \in 0 .. 2 /\ n.bitctr \in 0 .. PIXELS /\ n.outclk \in 0 .. 1
  BY <1>1, <1>4 DEF OutSpi
<1>6. /\ o.state = 0 /\ datardy = 0 => n.state = 0 /\ n.outclk = 0
      /\ o.state = 0 /\ datardy = 1 => n.state = 1 /\ n.bitctr = 0 /\ n.outclk = 0 /\ n.tmpdata = spi_data[c]
      /\ o.state # 0 /\ o.bitctr = PIXELS => n.state = 0 /\ n.outclk = o.outclk
      /\ o.state = 1 /\ o.bitctr # PIXELS =>
           n.state = 2 /\ n.bitctr = o.bitctr /\ n.outclk = 0 /\ n.tmpdata = o.tmpdata
      /\ o.state = 2 /\ o.bitctr # PIXELS =>
           n.state = 1 /\ n.bitctr = o.bitctr + 1 /\ n.outclk = 1 /\ n.tmpdata = o.tmpdata
  BY <1>1, <1>2, OutSpiMoves
<1>7. /\ o.state = 2 => o.bitctr < PIXELS /\ o.outclk = 0
      /\ o.state # 0 => o.tmpdata = spi_data[c]
  BY DEF Shifter, Idle
<1>8. Progress(c) = 2 * o.bitctr + o.state - 1 /\ Progress(c)' = 2 * n.bitctr + n.state - 1
  BY DEF Progress
<1>9. chain'[c] = IF o.outclk = 0 /\ n.outclk = 1
                    THEN [word |-> o.tmpdata, bits |-> o.bitctr + 1]
                    ELSE chain[c]
  BY <1>3
<1>10. (Idle(c) <=> o.state = 0) /\ (Idle(c)' <=> n.state = 0)
  BY DEF Idle
<1>11. CASE o.state = 0
  BY <1>1, <1>5, <1>6, <1>9, <1>10, <1>11
<1>12. CASE o.state # 0 /\ o.bitctr = PIXELS
  BY <1>5, <1>6, <1>9, <1>10, <1>12
<1>13. CASE o.state = 1 /\ o.bitctr # PIXELS
  BY <1>1, <1>5, <1>6, <1>7, <1>8, <1>9, <1>10, <1>13
<1>14. CASE o.state = 2 /\ o.bitctr # PIXELS
  BY <1>1, <1>5, <1>6, <1>7, <1>8, <1>9, <1>10, <1>14
<1> QED
  BY <1>5, <1>11, <1>12, <1>13, <1>14

(* Nothing to send: an OUTSPI at work goes on, an idle one stays idle.     *)
LEMMA Resting ==
  ASSUME IInv, FastEdge, datardy = 0, datardy' = 0, spi_data' = spi_data,
         NEW c \in Chan, Shifter(c), Taken(c)
  PROVE  /\ Shifter(c)' /\ Taken(c)'
         /\ ~Idle(c)' => ~Idle(c) /\ Progress(c)' = Progress(c) + 1
<1>1. outspi[c].bitctr \in 0 .. PIXELS /\ PIXELS \in Nat
  BY Consts DEF IInv, FastTyped, OutSpi
<1>2. outspi'[c].bitctr \in 0 .. PIXELS
  BY ChainMoves
<1>3. CASE Idle(c)
  <2>1. Idle(c)' /\ chain'[c] = chain[c]
    BY <1>3, ChainMoves
  <2>2. Holds(c, spi_data[c])'
    BY <1>3, <2>1 DEF Shifter, Holds
  <2> QED
    BY <2>1, <2>2 DEF Shifter, Taken, Idle
<1>4. CASE ~Idle(c) /\ outspi[c].bitctr = PIXELS
  <2>1. Idle(c)' /\ chain'[c] = chain[c]
    BY <1>4, ChainMoves
  <2>2. chain[c] = [word |-> spi_data[c], bits |-> outspi[c].bitctr]
    BY <1>4 DEF Shifter, Taken
  <2>3. Holds(c, spi_data[c])'
    BY <1>4, <2>1, <2>2 DEF Holds
  <2> QED
    BY <2>1, <2>3 DEF Shifter, Taken, Idle
<1>5. CASE ~Idle(c) /\ outspi[c].bitctr # PIXELS
  <2>1. /\ ~Idle(c)' /\ Progress(c)' = Progress(c) + 1 /\ outspi'[c].tmpdata = spi_data[c]
        /\ outspi'[c].state = 2 => outspi'[c].bitctr < PIXELS /\ outspi'[c].outclk = 0
        /\ \/ outspi'[c].bitctr = outspi[c].bitctr /\ chain'[c] = chain[c]
           \/ /\ outspi'[c].bitctr = outspi[c].bitctr + 1
              /\ chain'[c] = [word |-> spi_data[c], bits |-> outspi'[c].bitctr]
    BY <1>5, ChainMoves
  <2>2. outspi[c].bitctr # 0 /\ chain[c] = [word |-> spi_data[c], bits |-> outspi[c].bitctr]
    BY <1>5 DEF Shifter, Taken
  <2>3. outspi'[c].bitctr # 0 /\ chain'[c] = [word |-> spi_data'[c], bits |-> outspi'[c].bitctr]
    BY <1>1, <2>1, <2>2
  <2> QED
    BY <1>5, <2>1, <2>3 DEF Shifter, Taken
<1> QED
  BY <1>3, <1>4, <1>5

(* datardy goes up: every OUTSPI is idle and takes the word at the next    *)
(* fast edge.                                                              *)
LEMMA Starting ==
  ASSUME IInv, FastEdge, datardy = 0, datardy' = 1, NEW c \in Chan, Shifter(c), Idle(c), Since' = 0,
         led[c] = spi_data[c], led' = led
  PROVE  Shifter(c)' /\ Taken(c)'
<1>1. Idle(c)' /\ chain'[c] = chain[c]
  BY ChainMoves
<1>2. Holds(c, led[c])'
  BY <1>1 DEF Shifter, Holds
<1> QED
  BY <1>1, <1>2 DEF Shifter, Taken, Idle

(* datardy is up, or has just gone down.                                   *)
LEMMA Working ==
  ASSUME IInv, Paced, FastEdge, datardy = 1, spi_data' = spi_data, led' = led, Since \in Nat,
         \/ datardy' = 1 /\ Since' = Since + 1 /\ Since < 2 * RATIO - 1
         \/ datardy' = 0 /\ Since = 2 * RATIO - 1,
         NEW c \in Chan, Shifter(c), Taken(c)
  PROVE  Shifter(c)' /\ Taken(c)'
<1>1. outspi[c].bitctr \in 0 .. PIXELS /\ outspi[c].state \in 0 .. 2 /\ PIXELS \in Nat /\ PIXELS >= 1
  BY Consts DEF IInv, FastTyped, OutSpi
<1>2. outspi'[c].bitctr \in 0 .. PIXELS /\ outspi'[c].state \in 0 .. 2
  BY ChainMoves
<1>3. RATIO \in Nat /\ RATIO >= 2 /\ RATIO <= PIXELS + 1
  BY Consts DEF Paced
<1>4. Progress(c) = 2 * outspi[c].bitctr + outspi[c].state - 1
      /\ Progress(c)' = 2 * outspi'[c].bitctr + outspi'[c].state - 1
  BY DEF Progress
<1>5. CASE Since = 0
  <2>1. Idle(c) /\ datardy' = 1 /\ Since' = 1
    BY <1>3, <1>5 DEF Taken
  <2>2. /\ ~Idle(c)' /\ outspi'[c].state = 1 /\ outspi'[c].bitctr = 0
        /\ outspi'[c].tmpdata = spi_data[c] /\ chain'[c] = chain[c]
    BY <2>1, ChainMoves
  <2>3. Progress(c)' = 0
    BY <1>4, <2>2
  <2>4. Holds(c, led[c])'
    BY <2>1, <2>2 DEF Shifter, Holds
  <2>5. Taken(c)'
    BY <2>1, <2>2, <2>3 DEF Taken
  <2> QED
    BY <2>2, <2>4, <2>5 DEF Shifter
<1>6. CASE Since # 0
  <2>1. ~Idle(c) /\ Progress(c) = Since - 1 /\ outspi[c].state # 0
    BY <1>6 DEF Taken, Idle
  <2>2. CASE outspi[c].bitctr = PIXELS
    <3>1. Since >= 2 * PIXELS + 1 /\ datardy' = 0
      BY <1>1, <1>3, <1>4, <2>1, <2>2
    <3>2. Idle(c)' /\ chain'[c] = chain[c]
      BY <2>1, <2>2, ChainMoves
    <3>3. Holds(c, spi_data[c])'
      BY <1>1, <2>1, <2>2, <3>2 DEF Shifter, Holds
    <3> QED
      BY <3>1, <3>2, <3>3 DEF Shifter, Taken, Idle
  <2>3. CASE outspi[c].bitctr # PIXELS
    <3>1. /\ ~Idle(c)' /\ Progress(c)' = Progress(c) + 1 /\ outspi'[c].tmpdata = spi_data[c]
          /\ outspi'[c].state = 2 => outspi'[c].bitctr < PIXELS /\ outspi'[c].outclk = 0
          /\ \/ outspi'[c].bitctr = outspi[c].bitctr /\ chain'[c] = chain[c]
             \/ /\ outspi'[c].bitctr = outspi[c].bitctr + 1
                /\ chain'[c] = [word |-> spi_data[c], bits |-> outspi'[c].bitctr]
      BY <2>1, <2>3, ChainMoves
    <3>2. Shifter(c)'
      <4>1. CASE outspi'[c].bitctr = outspi[c].bitctr /\ chain'[c] = chain[c]
        <5>1. outspi'[c].bitctr # 0 => chain'[c] = [word |-> spi_data[c], bits |-> outspi'[c].bitctr]
          BY <2>1, <4>1 DEF Shifter
        <5>2. outspi'[c].bitctr = 0 => Holds(c, led[c])'
          BY <2>1, <4>1 DEF Shifter, Holds
        <5> QED
          BY <3>1, <5>1, <5>2 DEF Shifter
      <4>2. CASE /\ outspi'[c].bitctr = outspi[c].bitctr + 1
                 /\ chain'[c] = [word |-> spi_data[c], bits |-> outspi'[c].bitctr]
        <5>1. outspi'[c].bitctr # 0
          BY <1>1, <4>2
        <5> QED
          BY <3>1, <4>2, <5>1 DEF Shifter
      <4> QED
        BY <3>1, <4>1, <4>2
    <3>3. datardy' = 0 => outspi'[c].bitctr # 0
      <4>1. SUFFICES ASSUME datardy' = 0 PROVE outspi'[c].bitctr # 0
        OBVIOUS
      <4>2. Progress(c)' = Since /\ Since >= 3
        BY <1>3, <2>1, <3>1, <4>1
      <4> QED
        BY <1>2, <1>4, <4>2
    <3>4. datardy' = 1 => Since' # 0 /\ Progress(c)' = Since' - 1
      BY <2>1, <3>1
    <3>5. Taken(c)'
      BY <3>1, <3>3, <3>4 DEF Taken
    <3> QED
      BY <3>2, <3>5
  <2> QED
    BY <2>2, <2>3
<1> QED
  BY <1>5, <1>6

(* The latch.                                                              *)
LEMMA LatchMoves ==
  ASSUME FastEdge, NEW c \in Chan, Latched(c),
         \/ latchn' = 1
         \/ latchn = 0 /\ spi_data'[c] = spi_data[c]
         \/ led[c] = spi_data'[c] \/ After(led[c], spi_data'[c]),
         latchn' \in 0 .. 1
  PROVE  Latched(c)' /\ (latchn' = 0 => led' = led)
<1>1. CASE latchn' = 1
  BY <1>1 DEF FastEdge, Outputs, Latched
<1>2. CASE latchn' = 0
  <2>1. led' = led
    BY <1>2 DEF FastEdge, Outputs
  <2>2. led'[c] = spi_data'[c] \/ After(led'[c], spi_data'[c])
    BY <1>2, <2>1 DEF Latched
  <2>3. Latched(c)'
    BY <1>2, <2>2 DEF Latched, After
  <2> QED
    BY <2>1, <2>3
<1> QED
  BY <1>1, <1>2

(* datardy is up only with the latch closed.                               *)
LEMMA ClosedWhileSent == ASSUME IInv, Signals, datardy = 1 PROVE lstate = 3 /\ Sent /\ latchn = 0
  BY Consts DEF IInv, MainTyped, Signals, Sent

(* A step while nothing is sent and the latch does not close.              *)
LEMMA RestingAll ==
  ASSUME IInv, NInv, FastEdge, datardy = 0, datardy' = 0, spi_data' = spi_data,
         latchn' \in 0 .. 1, latchn' = 1 \/ latchn = 0
  PROVE  /\ \A c \in Chan : Shifter(c)' /\ Taken(c)' /\ Latched(c)'
         /\ \A c \in Chan : ~Idle(c)' => ~Idle(c) /\ Progress(c)' = Progress(c) + 1
         /\ Unlit /\ ~Sent => Unlit'
<1>1. ASSUME NEW c \in Chan
      PROVE  /\ Shifter(c)' /\ Taken(c)' /\ Latched(c)' /\ (latchn' = 0 => led' = led)
             /\ ~Idle(c)' => ~Idle(c) /\ Progress(c)' = Progress(c) + 1
  <2>1. Shifter(c) /\ Taken(c) /\ Latched(c)
    BY DEF NInv
  <2> QED
    BY <2>1, Resting, LatchMoves
<1>2. ASSUME Unlit, ~Sent, NEW c \in Chan PROVE Idle(c)' /\ led'[c].level = LEVELS - 1
  <2>1. Idle(c)'
    BY <1>1, <1>2 DEF Unlit
  <2>2. CASE latchn' = 0
    BY <1>1, <1>2, <2>2 DEF Unlit
  <2>3. CASE latchn' = 1
    <3>1. chain'[c] = [word |-> spi_data[c], bits |-> PIXELS]
      BY <1>1, <2>1 DEF Shifter, Holds
    <3>2. led'[c] = spi_data[c]
      BY <1>1, <2>3, <3>1 DEF Latched
    <3> QED
      BY <1>2, <2>1, <3>2 DEF NInv, Pattern
  <2> QED
    BY <2>1, <2>2, <2>3
<1> QED
  BY <1>1, <1>2 DEF Unlit

(* An edge of the fast clock alone.                                        *)
LEMMA BetweenLeds == ASSUME IInv, Paced, NInv, Between PROVE NInv'
<1>1. UNCHANGED <<ledctrlVars, ccout_show>> /\ FastEdge /\ phase # 0
  BY DEF Between
<1>2. /\ lstate' = lstate /\ ssubstate' = ssubstate /\ addr1' = addr1 /\ pwm_ctr' = pwm_ctr
      /\ databuf' = databuf /\ spie_ctr' = spie_ctr /\ spie_flag' = spie_flag
      /\ latchn' = latchn /\ enablen' = enablen /\ en_mux' = en_mux
      /\ spi_data' = spi_data /\ datardy' = datardy
  BY <1>1 DEF ledctrlVars, mainVars
<1>3. Age \in Nat /\ Age < RATIO - 1 /\ Age' = Age + 1 /\ RATIO \in Nat
  BY <1>1, AgeStep, Consts
<1>4. Signals' /\ (Sent' <=> Sent)
  BY <1>2 DEF NInv, Signals, Sent, Line
<1>5. \A c \in Chan : Pattern(c)'
  BY <1>2, <1>4 DEF NInv, Pattern
<1>6. datardy \in 0 .. 1 /\ latchn \in 0 .. 1
  BY DEF IInv, MainTyped
<1>7. CASE datardy = 0
  <2>1. /\ \A c \in Chan : Shifter(c)' /\ Taken(c)' /\ Latched(c)'
        /\ \A c \in Chan : ~Idle(c)' => ~Idle(c) /\ Progress(c)' = Progress(c) + 1
        /\ Unlit /\ ~Sent => Unlit'
    BY <1>1, <1>2, <1>6, <1>7, RestingAll
  <2>2. Blanked'
    BY <1>2, <1>4, <2>1 DEF NInv, Blanked, Sent
  <2>3. ASSUME NEW c \in Chan PROVE Finishing(c)'
    <3>1. Finishing(c) /\ (~Idle(c)' => ~Idle(c) /\ Progress(c)' = Progress(c) + 1)
      BY <2>1 DEF NInv
    <3>2. PICK x \in Int : x = spie_ctr * RATIO
      BY <1>3 DEF IInv, MainTyped
    <3>3. Progress(c) \in Int
      BY DEF Progress, IInv, FastTyped, OutSpi
    <3>4. (spie_ctr * RATIO)' = x
      BY <1>2, <3>2
    <3>5. x + Age <= Progress(c) => x + Age' <= Progress(c) + 1
      BY <1>3, <3>2, <3>3
    <3> QED
      BY <1>2, <1>4, <3>1, <3>2, <3>4, <3>5 DEF Finishing
  <2> QED
    BY <1>4, <1>5, <2>1, <2>2, <2>3 DEF NInv
<1>8. CASE datardy = 1
  <2>1. lstate = 3 /\ Sent /\ latchn = 0
    BY <1>8, ClosedWhileSent DEF NInv
  <2>2. Since \in Nat /\ Since' = Since + 1 /\ Since < 2 * RATIO - 1
    BY <1>2, <1>3 DEF Since
  <2>3. ASSUME NEW c \in Chan PROVE Shifter(c)' /\ Taken(c)' /\ Latched(c)'
    <3>1. Shifter(c) /\ Taken(c) /\ Latched(c)
      BY DEF NInv
    <3>2. Latched(c)' /\ led' = led
      BY <1>1, <1>2, <2>1, <3>1, LatchMoves
    <3> QED
      BY <1>1, <1>2, <1>8, <2>2, <3>1, <3>2, Working
  <2>4. Blanked'
    BY <1>2, <1>4, <2>1 DEF NInv, Blanked
  <2>5. ssubstate # 1
    BY <1>8 DEF NInv, Signals
  <2>6. \A c \in Chan : Finishing(c)'
    BY <1>2, <1>4, <2>1, <2>5 DEF Finishing
  <2> QED
    BY <1>4, <1>5, <2>3, <2>4, <2>6 DEF NInv
<1> QED
  BY <1>6, <1>7, <1>8

(* A frame starts: no line is driven, and the latch opens.                 *)
LEMMA StartFrameLeds ==
  ASSUME IInv, NInv, FastEdge, Blanking, StartFrame PROVE NInv'
<1>1. /\ lstate = 0 /\ lstate' = 1 /\ ssubstate' = 0 /\ latchn' = 1 /\ en_mux' = 0
      /\ pwm_ctr' = pwm_ctr /\ spie_flag' = spie_flag /\ spi_data' = spi_data /\ datardy' = datardy
  BY DEF StartFrame
<1>2. ~Sent /\ ~Sent' /\ datardy = 0
  BY <1>1 DEF Sent, IInv, MainTyped, NInv, Signals
<1>3. /\ \A c \in Chan : Shifter(c)' /\ Taken(c)' /\ Latched(c)'
      /\ Unlit => Unlit'
  BY <1>1, <1>2, RestingAll
<1>4. Signals'
  BY <1>1, <1>2 DEF Signals
<1>5. spie_ctr = BLANK => spie_ctr' = BLANK
  BY <1>1, Consts DEF Blanking, NInv, Blanked
<1>6. Blanked'
  BY <1>1, <1>3, <1>5 DEF NInv, Blanked
<1>7. \A c \in Chan : Pattern(c)'
  BY <1>1, <1>2 DEF NInv, Pattern
<1>8. \A c \in Chan : Finishing(c)'
  BY <1>1, <1>2 DEF Finishing
<1> QED
  BY <1>3, <1>4, <1>6, <1>7, <1>8 DEF NInv

(* The words of the next line replace those of the line still lit.         *)
LEMMA FetchLeds ==
  ASSUME IInv, NInv, FastEdge, Blanking, NEW q, Fetch(q) PROVE NInv'
<1>1. /\ lstate = 1 /\ lstate' \in {1, 2} /\ ssubstate' = ssubstate /\ latchn' = latchn /\ en_mux' = en_mux
      /\ pwm_ctr' = pwm_ctr /\ spie_flag' = spie_flag /\ spi_data' = spi_data /\ datardy' = datardy
  BY DEF Fetch, PutAddress, AwaitWord, TakeWord, Advance
<1>2. ~Sent /\ ~Sent' /\ datardy = 0 /\ ssubstate = 0 /\ spie_flag = 0 /\ latchn \in 0 .. 1
      /\ spie_ctr \in 0 .. BLANK
  BY <1>1 DEF Sent, IInv, MainTyped, NInv, Signals, Blanked
<1>3. /\ \A c \in Chan : Shifter(c)' /\ Taken(c)' /\ Latched(c)'
      /\ Unlit => Unlit'
  BY <1>1, <1>2, RestingAll
<1>4. Signals'
  BY <1>1, <1>2 DEF NInv, Signals
<1>5. spie_ctr = BLANK => spie_ctr' = BLANK
  BY <1>2 DEF Blanking
<1>6. Blanked' /\ (lstate' = 2 /\ spie_ctr' < BLANK => Unlit')
  BY <1>1, <1>2, <1>3, <1>5, Consts DEF NInv, Blanked
<1>7. \A c \in Chan : Pattern(c)'
  BY <1>1, <1>2 DEF NInv, Pattern
<1>8. \A c \in Chan : Finishing(c)'
  BY <1>1, <1>2, <1>6 DEF Finishing, Unlit
<1> QED
  BY <1>3, <1>4, <1>6, <1>7, <1>8 DEF NInv

LEMMA EndLineLeds ==
  ASSUME IInv, NInv, FastEdge, Blanking, EndLine PROVE NInv'
<1>1. /\ lstate = 4 /\ lstate' \in {0, 1} /\ latchn' = latchn /\ en_mux' = en_mux
      /\ pwm_ctr' = pwm_ctr /\ spie_flag' = spie_flag /\ spi_data' = spi_data /\ datardy' = datardy
      /\ (ssubstate' = ssubstate \/ ssubstate' = 0)
  BY DEF EndLine
<1>2. /\ ~Sent /\ ~Sent' /\ datardy = 0 /\ ssubstate = 0 /\ spie_flag = 0 /\ latchn = 0
      /\ spie_ctr = BLANK
  BY <1>1 DEF Sent, IInv, MainTyped, NInv, Signals, Blanked
<1>3. \A c \in Chan : Shifter(c)' /\ Taken(c)' /\ Latched(c)'
  BY <1>1, <1>2, RestingAll
<1>4. Signals'
  BY <1>1, <1>2 DEF NInv, Signals
<1>5. Blanked'
  BY <1>1, <1>2, Consts DEF Blanking, Blanked
<1>6. \A c \in Chan : Pattern(c)'
  BY <1>1, <1>2 DEF NInv, Pattern
<1>7. \A c \in Chan : Finishing(c)'
  BY <1>1, <1>2 DEF Finishing
<1> QED
  BY <1>3, <1>4, <1>5, <1>6, <1>7 DEF NInv

(* The next line is driven, and the timer runs down with the LEDs off; by  *)
(* then every chain is through.                                            *)
LEMMA StartLineLeds ==
  ASSUME IInv, Paced, NInv, phase = 0, FastEdge, Blanking, StartLine PROVE NInv'
<1>1. /\ lstate = 2 /\ ssubstate' = ssubstate /\ latchn' = latchn /\ en_mux' = Line /\ Line' = Line
      /\ pwm_ctr' = 0 /\ spi_data' = spi_data /\ datardy' = datardy
      /\ spie_flag' = CASE spie_ctr = BLANK -> 1 [] spie_ctr = 0 -> 0 [] OTHER -> spie_flag
      /\ lstate' = IF spie_ctr = BLANK - 1 THEN 3 ELSE 2
  BY DEF StartLine, Line
<1>2. /\ ~Sent /\ ~Sent' /\ datardy = 0 /\ ssubstate = 0 /\ latchn \in 0 .. 1
      /\ spie_ctr \in 0 .. BLANK /\ BLANK \in Nat /\ BLANK >= 3 /\ spie_flag \in 0 .. 1
      /\ (spie_flag = 1 => spie_ctr = BLANK \/ (spie_ctr = 0 /\ enablen = 1))
      /\ (spie_ctr < BLANK => enablen = 1 \/ Unlit)
  BY <1>1, Consts DEF Sent, IInv, MainTyped, NInv, Signals, Blanked
<1>3. /\ \A c \in Chan : Shifter(c)' /\ Taken(c)' /\ Latched(c)'
      /\ \A c \in Chan : ~Idle(c)' => ~Idle(c) /\ Progress(c)' = Progress(c) + 1
      /\ Unlit => Unlit'
  BY <1>1, <1>2, RestingAll
<1>4. Signals'
  BY <1>1, <1>2 DEF Signals
<1>5. ASSUME NEW c \in Chan PROVE Pattern(c)'
  <2>1. lstate' \in {2, 3}
    BY <1>1
  <2>2. spi_data'[c].level = LEVELS - 1
    BY <1>1, <1>2 DEF NInv, Pattern
  <2> QED
    BY <1>2, <2>1, <2>2 DEF Pattern
<1>6. Age = RATIO - 1 /\ Age' = 0 /\ RATIO \in Nat /\ RATIO >= 2 /\ PIXELS \in Nat
  BY AgeStep, Consts DEF Paced
<1>7. ASSUME NEW c \in Chan, ~Idle(c)' PROVE Progress(c)' \in 0 .. 2 * PIXELS
  <2>1. outspi'[c].bitctr \in 0 .. PIXELS /\ outspi'[c].state \in 0 .. 2 /\ Shifter(c)'
    BY <1>3, ChainMoves DEF NInv
  <2>2. outspi'[c].state # 0 /\ (outspi'[c].state = 2 => outspi'[c].bitctr < PIXELS)
    BY <1>7, <2>1 DEF Shifter, Idle
  <2>3. Progress(c)' = 2 * outspi'[c].bitctr + outspi'[c].state - 1
    BY DEF Progress
  <2> QED
    BY <1>6, <2>1, <2>2, <2>3
<1>8. ASSUME NEW c \in Chan, ~Idle(c)', spie_flag = 0, spie_ctr < BLANK
      PROVE  (spie_ctr + 1) * RATIO <= Progress(c)'
  <2>1. spie_ctr * RATIO + Age <= Progress(c) /\ Progress(c)' = Progress(c) + 1
    BY <1>1, <1>3, <1>8 DEF NInv, Finishing
  <2>2. spie_ctr * RATIO \in Nat /\ (spie_ctr + 1) * RATIO = spie_ctr * RATIO + RATIO
    BY <1>2, <1>6, Products
  <2>3. Progress(c)' \in Nat /\ Progress(c) \in Int
    BY <1>7, <1>8 DEF Progress, IInv, FastTyped, OutSpi
  <2> QED
    BY <1>6, <2>1, <2>2, <2>3
<1>9. CASE spie_ctr = BLANK
  <2>1. lstate' = 2 /\ spie_flag' = 1 /\ (spie_ctr' = BLANK \/ (spie_ctr' = 0 /\ enablen' = 1))
    BY <1>1, <1>2, <1>9 DEF Blanking
  <2>2. Blanked'
    BY <1>2, <2>1 DEF Blanked
  <2>3. \A c \in Chan : Finishing(c)'
    BY <1>1, <1>2, <2>1 DEF Finishing
  <2> QED
    BY <1>3, <1>4, <1>5, <2>2, <2>3 DEF NInv
<1>10. CASE spie_ctr = 0
  <2>1. lstate' = 2 /\ spie_flag' = 0
    BY <1>1, <1>2, <1>10
  <2>2. \/ spie_flag = 1 /\ spie_ctr' = 0 /\ enablen' = 1
        \/ spie_flag = 0 /\ spie_ctr' = 1 /\ enablen' = enablen
    BY <1>2, <1>10 DEF Blanking
  <2>3. Blanked'
    BY <1>2, <1>3, <1>10, <2>1, <2>2 DEF Blanked
  <2>4. ASSUME NEW c \in Chan PROVE Finishing(c)'
    <3>1. ASSUME ~Idle(c)' PROVE spie_ctr' * RATIO + Age' <= Progress(c)'
      <4>1. Progress(c)' \in Nat
        BY <1>7, <3>1
      <4>2. CASE spie_flag = 1
        BY <1>6, <2>2, <4>1, <4>2
      <4>3. CASE spie_flag = 0
        <5>1. (0 + 1) * RATIO <= Progress(c)'
          BY <1>2, <1>8, <1>10, <3>1, <4>3
        <5> QED
          BY <1>6, <2>2, <4>1, <4>3, <5>1
      <4> QED
        BY <2>2, <4>2, <4>3
    <3> QED
      BY <1>1, <1>2, <2>1, <3>1 DEF Finishing
  <2> QED
    BY <1>3, <1>4, <1>5, <2>3, <2>4 DEF NInv
<1>11. CASE spie_ctr # BLANK /\ spie_ctr # 0
  <2>1. /\ spie_flag = 0 /\ spie_flag' = 0 /\ spie_ctr < BLANK
        /\ spie_ctr' = spie_ctr + 1 /\ enablen' = enablen
    BY <1>1, <1>2, <1>11 DEF Blanking
  <2>2. lstate' = 3 => spie_ctr' = BLANK
    BY <1>1, <1>2, <2>1
  <2>3. Blanked'
    BY <1>1, <1>2, <1>3, <2>1, <2>2 DEF Blanked
  <2>4. ASSUME NEW c \in Chan PROVE Finishing(c)'
    <3>1. ASSUME ~Idle(c)' PROVE spie_ctr' * RATIO + Age' <= Progress(c)' /\ lstate' = 2
      <4>1. PICK y : y = (spie_ctr + 1) * RATIO
        OBVIOUS
      <4>2. y <= Progress(c)' /\ Progress(c)' \in 0 .. 2 * PIXELS
        BY <1>7, <1>8, <2>1, <3>1, <4>1
      <4>3. y \in Nat
        <5>1. spie_ctr + 1 \in Nat
          BY <1>2
        <5> QED
          BY <1>6, <4>1, <5>1
      <4>4. spie_ctr' * RATIO + Age' <= Progress(c)'
        <5>1. spie_ctr' * RATIO = y
          BY <2>1, <4>1
        <5> QED
          BY <1>6, <4>2, <4>3, <5>1
      <4>5. lstate' # 3
        <5>1. SUFFICES ASSUME lstate' = 3 PROVE FALSE
          OBVIOUS
        <5>2. y = BLANK * RATIO
          BY <2>1, <2>2, <4>1, <5>1
        <5>3. 2 * PIXELS < y
          BY <5>2 DEF Paced
        <5> QED
          BY <1>6, <4>2, <4>3, <5>3
      <4> QED
        BY <1>1, <4>4, <4>5
    <3> QED
      BY <1>1, <1>2, <3>1 DEF Finishing
  <2> QED
    BY <1>3, <1>4, <1>5, <2>3, <2>4 DEF NInv
<1> QED
  BY <1>9, <1>10, <1>11

(* The latch opens when every chain is through.                            *)
LEMMA AwaitChainsLeds ==
  ASSUME IInv, Paced, NInv, phase = 0, FastEdge, Blanking, AwaitChains(Ready) PROVE NInv'
<1>1. /\ lstate = 3 /\ ssubstate = 0 /\ datardy' = 0 /\ en_mux' = en_mux /\ Line' = Line
      /\ pwm_ctr' = pwm_ctr /\ spi_data' = spi_data /\ databuf' = databuf /\ spie_flag' = spie_flag
      /\ \/ pwm_ctr = LEVELS /\ lstate' = 4 /\ ssubstate' = 0 /\ latchn' = latchn
         \/ pwm_ctr # LEVELS /\ Ready /\ lstate' = 3 /\ ssubstate' = 1 /\ latchn' = 1
         \/ pwm_ctr # LEVELS /\ ~Ready /\ lstate' = 3 /\ ssubstate' = 0 /\ latchn' = latchn
  BY DEF AwaitChains, Line
<1>2. /\ spie_ctr = BLANK /\ spie_flag = 0 /\ en_mux = Line /\ pwm_ctr \in 0 .. LEVELS
      /\ LEVELS \in Nat /\ LEVELS >= 2 /\ (Sent <=> pwm_ctr > 0) /\ (Sent => latchn = 0)
      /\ latchn \in 0 .. 1 /\ datardy \in 0 .. 1
  BY <1>1, Consts DEF Sent, IInv, MainTyped, NInv, Signals, Blanked
<1>3. spie_ctr' = BLANK
  BY <1>2, Consts DEF Blanking
<1>4. Ready <=> \A c \in Chan : Idle(c)
  BY DEF Ready, Idle
<1>5. \A c \in Chan : ~Sent => Idle(c)
  BY <1>1 DEF NInv, Finishing
<1>6. datardy = 1 => Sent /\ ~Ready /\ Since = 2 * RATIO - 1 /\ Since \in Nat
  <2>1. SUFFICES ASSUME datardy = 1 PROVE Sent /\ ~Ready /\ Since = 2 * RATIO - 1 /\ Since \in Nat
    OBVIOUS
  <2>2. Sent
    BY <2>1, ClosedWhileSent DEF NInv
  <2>3. Since = 2 * RATIO - 1 /\ Since # 0 /\ Since \in Nat
    <3>1. Age = RATIO - 1 /\ RATIO \in Nat /\ RATIO >= 2
      BY AgeStep, Consts DEF Paced
    <3> QED
      BY <1>1, <3>1 DEF Since
  <2>4. 0 \in Chan
    BY Consts DEF Chan
  <2>5. ~Idle(0)
    BY <2>1, <2>3, <2>4 DEF NInv, Taken
  <2> QED
    BY <1>4, <2>2, <2>3, <2>4, <2>5
<1>7. /\ \A c \in Chan : Shifter(c)' /\ Taken(c)' /\ Latched(c)'
      /\ datardy = 0 => \A c \in Chan : ~Idle(c)' => ~Idle(c)
  <2>1. CASE datardy = 0
    BY <1>1, <1>2, <2>1, RestingAll
  <2>2. CASE datardy = 1
    <3>1. latchn = 0 /\ latchn' = 0
      BY <1>1, <1>2, <1>6, <2>2
    <3>2. ASSUME NEW c \in Chan PROVE Shifter(c)' /\ Taken(c)' /\ Latched(c)'
      <4>1. Shifter(c) /\ Taken(c) /\ Latched(c)
        BY DEF NInv
      <4>2. Latched(c)' /\ led' = led
        BY <1>1, <3>1, <4>1, LatchMoves
      <4> QED
        BY <1>1, <1>6, <2>2, <4>1, <4>2, Working
    <3> QED
      BY <2>2, <3>2
  <2> QED
    BY <1>2, <2>1, <2>2
<1>8. Sent' <=> lstate' = 3 /\ Sent
  BY <1>1, <1>2 DEF Sent
<1>9. Signals'
  BY <1>1, <1>2, <1>8 DEF Signals
<1>10. ~Ready => Sent
  BY <1>4, <1>5
<1>11. Blanked'
  BY <1>1, <1>2, <1>3, <1>8, <1>10 DEF Blanked
<1>12. ASSUME NEW c \in Chan PROVE Pattern(c)'
  <2>1. Pattern(c)
    BY DEF NInv
  <2>2. Sent => spi_data[c] = [src |-> databuf[c], level |-> pwm_ctr - 1]
    BY <1>1, <2>1 DEF Pattern
  <2>3. Sent' => spi_data'[c] = [src |-> databuf'[c], level |-> IF ssubstate' = 2 THEN pwm_ctr' ELSE pwm_ctr' - 1]
    BY <1>1, <1>8, <2>2
  <2>4. ~Sent' => spi_data'[c].level = LEVELS - 1
    <3>1. CASE Sent
      <4>1. lstate' = 4 => spi_data[c].level = pwm_ctr - 1 /\ pwm_ctr = LEVELS
        BY <1>1, <2>2, <3>1
      <4> QED
        BY <1>1, <1>8, <3>1, <4>1
    <3>2. CASE ~Sent
      BY <1>1, <2>1, <3>2 DEF Pattern
    <3> QED
      BY <3>1, <3>2
  <2>5. Sent' \/ lstate' \in {0, 1, 4} => Sent
    BY <1>1, <1>2, <1>8
  <2>6. Sent => spi_data'[c].src[2] = WordOf(en_mux', c)
    BY <1>1, <2>1 DEF Pattern
  <2> QED
    BY <2>3, <2>4, <2>5, <2>6 DEF Pattern
<1>13. ASSUME NEW c \in Chan PROVE Finishing(c)'
  <2>1. datardy = 0 /\ (~Sent \/ Ready) => Idle(c)'
    BY <1>4, <1>5, <1>7
  <2>2. lstate' = 3 /\ ~Sent' => Idle(c)'
    BY <1>2, <1>6, <1>8, <2>1
  <2>3. ssubstate' = 1 => Idle(c)'
    BY <1>1, <1>2, <1>6, <2>1
  <2> QED
    BY <1>1, <2>2, <2>3 DEF Finishing
<1> QED
  BY <1>7, <1>9, <1>11, <1>12, <1>13 DEF NInv

(* The next pattern of the line; what the LEDs show is the one before.     *)
LEMMA SendLineLeds ==
  ASSUME IInv, Paced, WInv, NInv, phase = 0, FastEdge, Blanking, SendLine PROVE NInv'
<1>1. /\ lstate = 3 /\ ssubstate = 1 /\ lstate' = 3 /\ ssubstate' = 2 /\ datardy' = 1 /\ latchn' = 0
      /\ en_mux' = en_mux /\ Line' = Line /\ spie_flag' = 0 /\ pwm_ctr' = pwm_ctr /\ databuf' = databuf
      /\ spi_data' = [c \in Chan |-> [src |-> databuf[c], level |-> pwm_ctr]]
  BY DEF SendLine, Line
<1>2. /\ spie_ctr = BLANK /\ spie_flag = 0 /\ en_mux = Line /\ pwm_ctr \in 0 .. LEVELS - 1
      /\ LEVELS \in Nat /\ LEVELS >= 2 /\ (Sent <=> pwm_ctr > 0) /\ Sent'
      /\ latchn = 1 /\ datardy = 0
  BY <1>1, Consts DEF Sent, IInv, MainTyped, NInv, Signals, Blanked
<1>3. spie_ctr' = BLANK
  BY <1>2, Consts DEF Blanking
<1>4. Since' = 0
  BY <1>1, AgeStep DEF Since
<1>5. ASSUME NEW c \in Chan PROVE Shifter(c)' /\ Taken(c)' /\ Latched(c)'
  <2>1. Shifter(c) /\ Taken(c) /\ Latched(c) /\ Pattern(c) /\ Idle(c)
    BY <1>1 DEF NInv, Finishing
  <2>2. led[c] = spi_data[c]
    <3>1. chain[c] = [word |-> spi_data[c], bits |-> PIXELS]
      BY <1>2, <2>1 DEF Shifter, Holds
    <3> QED
      BY <1>2, <2>1, <3>1 DEF Latched
  <2>3. After(led[c], spi_data'[c])
    <3>1. spi_data'[c] = [src |-> databuf[c], level |-> pwm_ctr]
      BY <1>1
    <3>2. spi_data'[c].level = pwm_ctr /\ spi_data'[c].src = databuf[c]
      BY <3>1
    <3>3. CASE pwm_ctr = 0
      <4>1. led[c].level = LEVELS - 1
        BY <1>2, <2>1, <2>2, <3>3 DEF Pattern
      <4> QED
        BY <3>2, <3>3, <4>1 DEF After
    <3>4. CASE pwm_ctr > 0
      <4>1. spi_data[c] = [src |-> databuf[c], level |-> pwm_ctr - 1]
        BY <1>1, <1>2, <2>1, <3>4 DEF Pattern
      <4>2. led[c].level = pwm_ctr - 1 /\ led[c].src = databuf[c]
        BY <2>2, <4>1
      <4>3. pwm_ctr >= 1
        BY <1>2, <3>4
      <4> QED
        BY <3>2, <4>2, <4>3 DEF After
    <3> QED
      BY <1>2, <3>3, <3>4
  <2>4. Latched(c)' /\ led' = led
    BY <1>1, <2>1, <2>3, LatchMoves
  <2> QED
    BY <1>1, <1>2, <1>4, <2>1, <2>2, <2>4, Starting
<1>6. Signals'
  BY <1>1, <1>2 DEF Signals
<1>7. Blanked'
  BY <1>1, <1>2, <1>3 DEF Blanked
<1>8. ASSUME NEW c \in Chan PROVE Pattern(c)'
  <2>1. databuf[c] = <<reg_show_buffer, WordOf(Line, c)>>
    BY <1>1, WordsRight DEF LineWhole
  <2>2. spi_data'[c] = [src |-> databuf'[c], level |-> pwm_ctr']
    BY <1>1
  <2>3. spi_data'[c].src[2] = WordOf(en_mux', c)
    BY <1>1, <1>2, <2>1, <2>2
  <2> QED
    BY <1>1, <1>2, <2>2, <2>3 DEF Pattern
<1>9. \A c \in Chan : Finishing(c)'
  BY <1>1, <1>2 DEF Finishing
<1> QED
  BY <1>5, <1>6, <1>7, <1>8, <1>9 DEF NInv

LEMMA CountStepLeds ==
  ASSUME IInv, Paced, NInv, phase = 0, FastEdge, Blanking, CountStep PROVE NInv'
<1>1. /\ lstate = 3 /\ ssubstate = 2 /\ lstate' = 3 /\ ssubstate' = 0 /\ datardy' = datardy /\ latchn' = latchn
      /\ en_mux' = en_mux /\ Line' = Line /\ spie_flag' = spie_flag /\ pwm_ctr' = pwm_ctr + 1
      /\ databuf' = databuf /\ spi_data' = spi_data
  BY DEF CountStep, Line
<1>2. /\ spie_ctr = BLANK /\ spie_flag = 0 /\ en_mux = Line /\ pwm_ctr \in 0 .. LEVELS - 1
      /\ LEVELS \in Nat /\ LEVELS >= 2 /\ datardy = 1
  BY <1>1, Consts DEF IInv, MainTyped, NInv, Signals, Blanked
<1>3. Sent /\ Sent' /\ latchn = 0
  BY <1>1, <1>2, ClosedWhileSent DEF NInv, Sent
<1>4. spie_ctr' = BLANK
  BY <1>2, Consts DEF Blanking
<1>5. Since \in Nat /\ Since' = Since + 1 /\ Since < 2 * RATIO - 1
  <2>1. Age = RATIO - 1 /\ Age' = 0 /\ RATIO \in Nat /\ RATIO >= 2
    BY AgeStep, Consts DEF Paced
  <2> QED
    BY <1>1, <2>1 DEF Since
<1>6. ASSUME NEW c \in Chan PROVE Shifter(c)' /\ Taken(c)' /\ Latched(c)'
  <2>1. Shifter(c) /\ Taken(c) /\ Latched(c)
    BY DEF NInv
  <2>2. Latched(c)' /\ led' = led
    BY <1>1, <1>3, <2>1, LatchMoves
  <2> QED
    BY <1>1, <1>2, <1>5, <2>1, <2>2, Working
<1>7. Signals'
  BY <1>1, <1>2, <1>3 DEF Signals
<1>8. Blanked'
  BY <1>1, <1>2, <1>3, <1>4 DEF Blanked
<1>9. ASSUME NEW c \in Chan PROVE Pattern(c)'
  <2>1. Pattern(c) /\ pwm_ctr' - 1 = pwm_ctr
    BY <1>1, <1>2 DEF NInv
  <2> QED
    BY <1>1, <1>3, <2>1 DEF Pattern
<1>10. \A c \in Chan : Finishing(c)'
  BY <1>1, <1>3 DEF Finishing
<1> QED
  BY <1>6, <1>7, <1>8, <1>9, <1>10 DEF NInv

LEMMA NextNInv == ASSUME IInv, WInv, NInv, Paced, [Next]_vars PROVE NInv'
<1>1. CASE UNCHANGED vars
  BY <1>1 DEF vars, ledctrlVars, mainVars, scanVars, NInv, Signals, Blanked, Shifter, Taken, Latched,
              Pattern, Finishing, Unlit, Sent, Since, Age, Idle, Progress, Holds, Line
<1>2. CASE Together
  <2>1. phase = 0 /\ FastEdge /\ Blanking
    BY <1>2 DEF Together, LedCtrlEdge
  <2>2. \/ StartFrame \/ Fetch(lcin_q) \/ StartLine \/ AwaitChains(Ready) \/ SendLine
        \/ CountStep \/ EndLine
    BY <1>2 DEF Together, LedCtrlEdge, Fetch
  <2> QED
    BY <2>1, <2>2, StartFrameLeds, FetchLeds, StartLineLeds, AwaitChainsLeds, SendLineLeds,
       CountStepLeds, EndLineLeds
<1> QED
  BY <1>1, <1>2, BetweenLeds DEF Next

LEMMA InitNInv == ASSUME Init PROVE NInv
<1>1. /\ lstate = 0 /\ ssubstate = 0 /\ spie_ctr = 0 /\ spie_flag = 0 /\ latchn = 0 /\ en_mux = 0
      /\ datardy = 0 /\ Dark.level = LEVELS - 1
  BY DEF Init, LedCtrlInit, Dark
<1>2. ASSUME NEW c \in Chan
      PROVE  /\ spi_data[c] = Dark /\ Idle(c) /\ chain[c] = [word |-> Dark, bits |-> PIXELS] /\ led[c] = Dark
  BY DEF Init, LedCtrlInit, Idle
<1>3. Signals /\ Blanked /\ ~Sent
  BY <1>1, <1>2 DEF Signals, Blanked, Unlit, Sent
<1>4. ASSUME NEW c \in Chan PROVE Shifter(c) /\ Taken(c) /\ Latched(c) /\ Pattern(c) /\ Finishing(c)
  BY <1>1, <1>2, <1>3 DEF Shifter, Taken, Latched, Pattern, Finishing, Holds, Idle
<1> QED
  BY <1>3, <1>4 DEF NInv

(* A pattern shown before one that belongs to the line driven belongs to   *)
(* it, or is dark.                                                         *)
LEMMA OwnPattern ==
  ASSUME NEW c \in Chan, Latched(c), latchn = 0, spi_data[c].src[2] = WordOf(en_mux, c),
         spi_data[c].level \in 0 .. LEVELS - 1
  PROVE  \/ led[c].level = LEVELS - 1
         \/ led[c].level \in 0 .. LEVELS - 2 /\ led[c].src[2] = WordOf(en_mux, c)
<1>1. LEVELS \in Nat /\ LEVELS >= 2
  BY Consts
<1>2. led[c] = spi_data[c] \/ After(led[c], spi_data[c])
  BY DEF Latched
<1>3. CASE led[c] = spi_data[c]
  BY <1>1, <1>3
<1>4. CASE After(led[c], spi_data[c])
  BY <1>1, <1>4 DEF After
<1> QED
  BY <1>2, <1>3, <1>4

LEMMA NoGhostSeen == ASSUME IInv, NInv PROVE NoGhost
<1> SUFFICES ASSUME NEW r \in 1 .. ROWS, Lit(r), ~(lstate = 2 /\ spie_ctr = BLANK), NEW c \in Chan
             PROVE  \/ led[c].level = LEVELS - 1
                    \/ led[c].level \in 0 .. LEVELS - 2 /\ led[c].src[2] = WordOf(r, c)
  BY DEF NoGhost
<1>1. /\ enablen = 0 /\ en_mux = r /\ r # 0 /\ lstate \in 0 .. 4 /\ ssubstate \in 0 .. 2 /\ latchn \in 0 .. 1
      /\ spie_ctr \in 0 .. BLANK /\ pwm_ctr \in 0 .. LEVELS /\ LEVELS \in Nat /\ LEVELS >= 2
      /\ (lstate # 3 => ssubstate = 0) /\ (ssubstate # 0 => pwm_ctr < LEVELS)
  BY Consts DEF Lit, IInv, MainTyped
<1>2. Signals /\ Blanked /\ Shifter(c) /\ Latched(c) /\ Pattern(c) /\ Finishing(c)
  BY DEF NInv
<1>3. CASE lstate = 2
  BY <1>1, <1>2, <1>3, Consts DEF Blanked, Unlit
<1>4. CASE lstate \in {0, 1, 4}
  <2>1. latchn = 0 /\ ~Sent
    BY <1>1, <1>2, <1>4 DEF Signals, Sent
  <2>2. spi_data[c].src[2] = WordOf(en_mux, c) /\ spi_data[c].level \in 0 .. LEVELS - 1
    BY <1>1, <1>2, <1>4, <2>1 DEF Pattern
  <2> QED
    BY <1>1, <1>2, <2>1, <2>2, OwnPattern
<1>5. CASE lstate = 3 /\ Sent
  <2>1. /\ spi_data[c].src[2] = WordOf(en_mux, c)
        /\ spi_data[c].level = IF ssubstate = 2 THEN pwm_ctr ELSE pwm_ctr - 1
    <3>1. spi_data[c] = [src |-> databuf[c], level |-> IF ssubstate = 2 THEN pwm_ctr ELSE pwm_ctr - 1]
      BY <1>2, <1>5 DEF Pattern
    <3> QED
      BY <1>2, <1>5, <3>1 DEF Pattern
  <2>2. spi_data[c].level \in 0 .. LEVELS - 1
    BY <1>1, <1>5, <2>1 DEF Sent
  <2>3. CASE latchn = 0
    BY <1>1, <1>2, <2>1, <2>2, <2>3, OwnPattern
  <2>4. CASE latchn = 1
    <3>1. ssubstate = 1 /\ datardy = 0 /\ Idle(c)
      BY <1>1, <1>2, <1>5, <2>4 DEF Signals, Finishing, IInv, MainTyped
    <3>2. chain[c] = [word |-> spi_data[c], bits |-> PIXELS]
      BY <1>2, <3>1 DEF Shifter, Holds
    <3>3. led[c] = spi_data[c]
      BY <1>2, <2>4, <3>2 DEF Latched
    <3> QED
      BY <1>1, <2>1, <2>2, <3>3
  <2> QED
    BY <1>1, <2>3, <2>4
<1>6. CASE lstate = 3 /\ ~Sent
  <2>1. CASE ssubstate = 0
    BY <1>1, <1>2, <1>6, <2>1 DEF Blanked, Unlit
  <2>2. CASE ssubstate = 1
    <3>1. latchn = 1 /\ datardy = 0 /\ Idle(c) /\ spi_data[c].level = LEVELS - 1
      BY <1>2, <1>6, <2>2 DEF Signals, Finishing, Pattern, IInv, MainTyped
    <3>2. chain[c] = [word |-> spi_data[c], bits |-> PIXELS]
      BY <1>2, <3>1 DEF Shifter, Holds
    <3>3. led[c] = spi_data[c]
      BY <1>2, <3>1, <3>2 DEF Latched
    <3> QED
      BY <3>1, <3>3
  <2> QED
    BY <1>1, <1>6, <2>1, <2>2 DEF Sent
<1> QED
  BY <1>1, <1>3, <1>4, <1>5, <1>6

(* What a step may do to the LEDs of a chain.                              *)
LEMMA LedMoves ==
  ASSUME IInv, WInv, NInv, Paced, Next, NEW c \in Chan, led'[c] # led[c]
  PROVE  (led'[c] = Mixed /\ en_mux' = 0) \/ Follows(led[c], led'[c])
<1>1. FastEdge /\ NInv' /\ IInv'
  BY NextNInv, NextIInv DEF Next, Between, Together
<1>2. latchn' = 1
  BY <1>1 DEF FastEdge, Outputs
<1>3. /\ Shifter(c) /\ Taken(c) /\ Latched(c) /\ Pattern(c)
      /\ Shifter(c)' /\ Taken(c)' /\ Latched(c)'
  BY <1>1 DEF NInv
<1>4. datardy' = 0 /\ datardy = 0 /\ spi_data' = spi_data
  <2>1. datardy' = 0
    <3>1. datardy' = 1 => latchn' = 0
      <4>1. IInv' /\ Signals' /\ datardy' = 1 => latchn' = 0
        BY <1>1, Consts DEF IInv, MainTyped, Signals, Sent
      <4> QED
        BY <1>1, <4>1 DEF NInv
    <3> QED
      BY <1>1, <1>2, <3>1 DEF IInv, MainTyped
  <2>2. datardy = 0
    <3>1. SUFFICES ASSUME datardy = 1 PROVE FALSE
      BY DEF IInv, MainTyped
    <3>2. lstate = 3 /\ Sent /\ latchn = 0 /\ ssubstate # 1
      BY <3>1, ClosedWhileSent DEF NInv, Signals
    <3>3. AwaitChains(Ready) /\ Together
      BY <1>2, <2>1, <3>1, <3>2 DEF Next, Between, Together, ledctrlVars, mainVars, LedCtrlEdge, StartFrame,
         PutAddress, AwaitWord, TakeWord, Advance, StartLine, SendLine, CountStep, EndLine
    <3>4. Ready
      BY <1>2, <3>2, <3>3 DEF AwaitChains
    <3>5. Since # 0
      <4>1. Age = RATIO - 1 /\ RATIO \in Nat /\ RATIO >= 2 /\ ssubstate = 0
        BY <3>3, AgeStep, Consts DEF Paced, Together, AwaitChains
      <4> QED
        BY <4>1 DEF Since
    <3> QED
      BY <1>3, <3>1, <3>4, <3>5 DEF Taken, Ready, Idle
  <2>3. spi_data' = spi_data
    BY <1>2 DEF Next, Between, Together, ledctrlVars, mainVars, LedCtrlEdge, StartFrame, PutAddress,
       AwaitWord, TakeWord, Advance, StartLine, AwaitChains, SendLine, CountStep, EndLine
  <2> QED
    BY <2>1, <2>2, <2>3
<1>5. PIXELS \in Nat /\ LEVELS \in Nat /\ LEVELS >= 2 /\ spi_data[c].level \in -1 .. LEVELS
  BY Consts DEF IInv, MainTyped, Step
<1>6. chain'[c] = [word |-> spi_data[c], bits |-> chain'[c].bits] /\ (Idle(c)' => chain'[c].bits = PIXELS)
      /\ led'[c] = IF chain'[c].bits = PIXELS THEN spi_data[c] ELSE Mixed
  <2>1. CASE Idle(c)'
    <3>1. chain'[c] = [word |-> spi_data[c], bits |-> PIXELS]
      BY <1>3, <1>4, <2>1 DEF Shifter, Holds
    <3> QED
      BY <1>2, <1>3, <3>1 DEF Latched
  <2>2. CASE ~Idle(c)'
    <3>1. chain'[c] = [word |-> spi_data[c], bits |-> outspi'[c].bitctr]
      BY <1>3, <1>4, <2>2 DEF Shifter, Taken
    <3> QED
      BY <1>2, <1>3, <2>2, <3>1 DEF Latched
  <2> QED
    BY <2>1, <2>2
<1>7. CASE latchn = 1
  <2>1. led[c] = spi_data[c] \/ (led[c] = Mixed /\ ~Idle(c))
    <3>1. CASE Idle(c)
      <4>1. chain[c] = [word |-> spi_data[c], bits |-> PIXELS]
        BY <1>3, <1>4, <3>1 DEF Shifter, Holds
      <4> QED
        BY <1>3, <1>7, <4>1 DEF Latched
    <3>2. CASE ~Idle(c)
      <4>1. chain[c] = [word |-> spi_data[c], bits |-> outspi[c].bitctr]
        BY <1>3, <1>4, <3>2 DEF Shifter, Taken
      <4> QED
        BY <1>3, <1>7, <3>2, <4>1 DEF Latched
    <3> QED
      BY <3>1, <3>2
  <2>2. CASE led[c] = Mixed /\ ~Idle(c)
    <3>1. led'[c] = spi_data[c]
      BY <1>6, <2>2
    <3>2. ~Sent
      BY <1>7, <2>2 DEF NInv, Signals, Finishing, Sent
    <3> QED
      BY <1>3, <2>2, <3>1, <3>2 DEF Pattern, Follows
  <2>3. CASE led[c] = spi_data[c]
    <3>1. led'[c] = Mixed /\ ~Idle(c)' /\ chain'[c].bits # PIXELS
      BY <1>6, <2>3
    <3>2. ~Idle(c) /\ outspi'[c].bitctr # PIXELS /\ outspi'[c].bitctr \in 0 .. PIXELS
      <4>1. FastEdge
        BY <1>1
      <4>2. chain'[c] = [word |-> spi_data[c], bits |-> outspi'[c].bitctr]
        BY <1>3, <1>4, <3>1 DEF Shifter, Taken
      <4> QED
        BY <1>3, <1>4, <3>1, <4>1, <4>2, ChainMoves
    <3>3. /\ outspi[c].bitctr # PIXELS
          /\ chain[c] = [word |-> spi_data[c], bits |-> outspi[c].bitctr]
      BY <1>1, <1>3, <1>4, <3>1, <3>2, ChainMoves DEF Shifter, Taken
    <3>4. led[c] = Mixed
      BY <1>3, <1>7, <3>3 DEF Latched
    <3> QED
      BY <3>1, <3>4
  <2> QED
    BY <2>1, <2>2, <2>3
<1>8. CASE latchn = 0
  <2>1. StartFrame \/ (AwaitChains(Ready) /\ Ready)
    BY <1>2, <1>8 DEF Next, Between, Together, ledctrlVars, mainVars, LedCtrlEdge, StartFrame, PutAddress,
       AwaitWord, TakeWord, Advance, StartLine, AwaitChains, SendLine, CountStep, EndLine
  <2>2. led[c] = spi_data[c] \/ After(led[c], spi_data[c])
    BY <1>3, <1>8 DEF Latched
  <2>3. CASE led'[c] = spi_data[c]
    <3>1. After(led[c], spi_data[c])
      BY <2>2, <2>3
    <3> QED
      BY <1>5, <2>3, <3>1 DEF After, Follows
  <2>4. CASE led'[c] = Mixed /\ led'[c] # spi_data[c]
    <3>1. ~Idle(c)'
      BY <1>6, <2>4
    <3>2. ~Idle(c)
      BY <1>1, <1>3, <1>4, <3>1, ChainMoves
    <3>3. ~Ready
      BY <3>2 DEF Ready, Idle
    <3>4. en_mux' = 0
      BY <2>1, <3>3 DEF StartFrame
    <3> QED
      BY <2>4, <3>4
  <2> QED
    BY <1>6, <2>3, <2>4
<1> QED
  BY <1>7, <1>8 DEF IInv, MainTyped

(* A lit line shows its own pixels or nothing: the latch opens only when   *)
(* every chain holds the whole of a pattern of the line driven, and while  *)
(* the next line is fetched and its drivers switched the blanking time     *)
(* covers what is left in the chains.                                      *)
THEOREM GhostFree == ASSUME Paced PROVE Spec => []NoGhost
<1>1. RATIO >= 2
  BY Consts DEF Paced
<1>2. Init => WInv
  BY DEF Init, LedCtrlInit, WInv
<1>3. IInv /\ WInv /\ NInv /\ [Next]_vars => IInv' /\ WInv' /\ NInv'
  BY <1>1, NextIInv, NextWInv, NextNInv
<1> QED
  BY InitIInv, InitNInv, NoGhostSeen, <1>2, <1>3, PTL DEF Spec

(* The LEDs of a chain take the patterns of a line one after the other,    *)
(* none left out, none twice, and a half shifted one only at the start of  *)
(* a frame, while no line is driven.                                       *)
THEOREM OrderCorrect == ASSUME Paced PROVE Spec => StepsInOrder
<1> DEFINE P == \A c \in Chan : led'[c] # led[c] =>
                  (led'[c] = Mixed /\ en_mux' = 0) \/ Follows(led[c], led'[c])
<1>1. RATIO >= 2
  BY Consts DEF Paced
<1>2. Init => WInv
  BY DEF Init, LedCtrlInit, WInv
<1>3. IInv /\ WInv /\ NInv /\ [Next]_vars => IInv' /\ WInv' /\ NInv'
  BY <1>1, NextIInv, NextWInv, NextNInv
<1>4. IInv /\ WInv /\ NInv /\ [Next]_vars => [P]_vars
  BY LedMoves
<1>5. StepsInOrder <=> [][P]_vars
  BY PTL DEF StepsInOrder
<1> QED
  BY InitIInv, InitNInv, <1>2, <1>3, <1>4, <1>5, PTL DEF Spec
=============================================================================
