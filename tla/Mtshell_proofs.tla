--------------------------- MODULE Mtshell_proofs ---------------------------
(***************************************************************************)
(* The shell, for every buffer size and every alphabet: types, the line    *)
(* and its picture on the screen, the words of the line, the one script at *)
(* a time of a user who is not hasty, and what Lua makes of the line that  *)
(* is typed to it.                                                         *)
(***************************************************************************)
EXTENDS Mtshell, TLAPS, WellFoundedInduction, FiniteSetTheorems

(* The line begins with no space and has no two in a row, and is longer    *)
(* than COM_BUF_LEN by a space at its end only.                            *)
Spaced ==
  /\ line # << >> => line[1] # Space
  /\ \A k \in 1 .. Len(line) : k + 1 <= Len(line) /\ line[k] = Space => line[k + 1] # Space
  /\ Len(line) > COM_BUF_LEN => line[Len(line)] = Space

LineOK ==
  /\ line \in Seq(Letter \cup {Space}) /\ Len(line) <= COM_BUF_LEN + 1
  /\ shown = line /\ Spaced

(* A thread that was handed to the kernel has started, or no key is there  *)
(* to be read before it does.                                              *)
Started ==
  /\ clashes = 0 /\ Len(input) <= 1
  /\ script.st = "ready" => input = << >>
  /\ Live => thread_created \/ script.st = "ready"

ScriptOK ==
  /\ thread_created \in BOOLEAN /\ clashes \in Nat
  /\ script.kind \in {"none", "file", "luai"}
  /\ script.st \in {"ready", "running", "got", "ended"}

LuaOK ==
  /\ buffer \in [0 .. MAXINPUT - 1 -> Printable \cup {Newline, Nul}]
  /\ i \in 0 .. MAXINPUT

InputOK == input \in Seq(Key) /\ Len(input) <= AHEAD

IInv == InputOK /\ LineOK /\ ScriptOK /\ LuaOK

LEMMA Consts ==
  /\ COM_BUF_LEN \in Nat /\ COM_BUF_LEN >= 1 /\ MAXINPUT \in Nat /\ MAXINPUT >= 1 /\ AHEAD \in Nat /\ AHEAD >= 1
  /\ Space \notin Letter /\ "A" \notin Letter /\ Letter \cap Control = {}
  BY ShellAssumption

LEMMA InitIInv == Init => IInv
<1> SUFFICES ASSUME Init PROVE IInv
  OBVIOUS
<1>1. Len(<< >>) = 0 /\ << >> \in Seq(Key) /\ << >> \in Seq(Letter \cup {Space})
  OBVIOUS
<1>2. InputOK
  BY <1>1, Consts DEF Init, InputOK
<1>3. LineOK
  BY <1>1, Consts DEF Init, LineOK, Spaced
<1>4. ScriptOK /\ LuaOK
  BY Consts DEF Init, ScriptOK, NoScript, LuaOK, Empty
<1> QED
  BY <1>2, <1>3, <1>4 DEF IInv

-----------------------------------------------------------------------------
(* The line editor, key by key.                                            *)

(* A character at the end.                                                 *)
LEMMA Stored ==
  ASSUME LineOK, NEW k \in Letter \cup {Space}, Store(k), Len(line) <= COM_BUF_LEN,
         k = Space => line # << >> /\ Last(line) # Space,
         k # Space => Len(line) < COM_BUF_LEN
  PROVE  LineOK'
<1> DEFINE n == Len(line)
<1>1. line \in Seq(Letter \cup {Space}) /\ n \in Nat /\ COM_BUF_LEN \in Nat
  BY Consts DEF LineOK
<1>2. /\ line' = Append(line, k) /\ shown' = line'
      /\ line' \in Seq(Letter \cup {Space}) /\ Len(line') = n + 1 /\ line'[n + 1] = k
      /\ \A j \in 1 .. n : line'[j] = line[j]
  BY <1>1 DEF Store, LineOK
<1>3. line # << >> => n >= 1 /\ Last(line) = line[n]
  BY <1>1 DEF Last
<1>4. line' # << >> => line'[1] # Space
  <2>1. CASE n = 0
    BY <2>1, <1>1, <1>2
  <2>2. CASE n # 0
    <3>1. 1 \in 1 .. n /\ line # << >>
      BY <2>2, <1>1
    <3> QED
      BY <3>1, <1>2 DEF LineOK, Spaced
  <2> QED
    BY <2>1, <2>2
<1>5. ASSUME NEW j \in 1 .. Len(line'), j + 1 <= Len(line'), line'[j] = Space
      PROVE  line'[j + 1] # Space
  <2>1. j \in 1 .. n
    BY <1>1, <1>2, <1>5
  <2>2. line[j] = Space
    BY <2>1, <1>2, <1>5
  <2>3. CASE j = n
    BY <2>1, <2>2, <2>3, <1>1, <1>2, <1>3
  <2>4. CASE j # n
    <3>1. j + 1 \in 1 .. n /\ j + 1 <= n
      BY <2>1, <2>4, <1>1
    <3>2. line[j + 1] # Space
      BY <3>1, <2>1, <2>2 DEF LineOK, Spaced
    <3> QED
      BY <3>1, <3>2, <1>2
  <2> QED
    BY <2>3, <2>4
<1>6. Len(line') > COM_BUF_LEN => line'[Len(line')] = Space
  BY <1>1, <1>2
<1> QED
  BY <1>1, <1>2, <1>4, <1>5, <1>6 DEF LineOK, Spaced

(* A character taken from the end.                                         *)
LEMMA Erased ==
  ASSUME LineOK, line # << >>, line' = Front(line), shown' = Front(shown)
  PROVE  LineOK'
<1> DEFINE n == Len(line)
<1>1. line \in Seq(Letter \cup {Space}) /\ n \in Nat /\ n >= 1 /\ COM_BUF_LEN \in Nat /\ n <= COM_BUF_LEN + 1
  BY Consts DEF LineOK
<1>2. n - 1 \in Nat /\ n - 1 <= COM_BUF_LEN /\ n - 1 <= n
  BY <1>1
<1>3. /\ line' = SubSeq(line, 1, n - 1) /\ shown' = line'
  BY DEF Front, LineOK
<1> HIDE DEF n
<1>4. /\ line' \in Seq(Letter \cup {Space}) /\ Len(line') = n - 1
      /\ \A j \in 1 .. (n - 1) : line'[j] = line[j]
  <2>1. n - 1 <= Len(line)
    BY <1>2 DEF n
  <2>2. \A j \in 1 .. (n - 1) : j \in 1 .. Len(line)
    BY <1>1 DEF n
  <2> QED
    BY <1>1, <1>2, <1>3, <2>1, <2>2
<1> USE DEF n
<1>5. line' # << >> => line'[1] # Space
  <2>1. CASE n = 1
    BY <2>1, <1>4
  <2>2. CASE n # 1
    <3>1. 1 \in 1 .. (n - 1)
      <4>1. \A m \in Nat : m >= 1 /\ m # 1 => 1 \in 1 .. (m - 1)
        OBVIOUS
      <4> QED
        BY <2>2, <4>1, <1>1
    <3> QED
      BY <3>1, <1>4 DEF LineOK, Spaced
  <2> QED
    BY <2>1, <2>2
<1>6. ASSUME NEW j \in 1 .. Len(line'), j + 1 <= Len(line'), line'[j] = Space
      PROVE  line'[j + 1] # Space
  <2>1. j \in 1 .. (n - 1) /\ j + 1 \in 1 .. (n - 1) /\ j \in 1 .. n /\ j + 1 <= n
    BY <1>1, <1>4, <1>6
  <2>2. line[j] = Space
    BY <2>1, <1>4, <1>6
  <2>3. line[j + 1] # Space
    BY <2>1, <2>2 DEF LineOK, Spaced
  <2> QED
    BY <2>1, <2>3, <1>4
<1>7. Len(line') <= COM_BUF_LEN + 1 /\ ~(Len(line') > COM_BUF_LEN)
  BY <1>1, <1>2, <1>4
<1> QED
  BY <1>3, <1>4, <1>5, <1>6, <1>7 DEF LineOK, Spaced

LEMMA Emptied ==
  ASSUME LineOK, line' = << >>, shown' = << >>
  PROVE  LineOK'
<1>1. << >> \in Seq(Letter \cup {Space}) /\ Len(<< >>) = 0
  OBVIOUS
<1> QED
  BY <1>1, Consts DEF LineOK, Spaced

(* Which code a key reaches.                                               *)
LEMMA Dispatch ==
  ASSUME ShellKey, NEW k, k = Head(input)
  PROVE  /\ k = Space => SpaceKey
         /\ k \in Letter => LetterKey(k)
         /\ k = "erase" => EraseKey
         /\ k \in {"kill", "ctrl-p", "A"} => ClearLine
         /\ k = Newline => EnterKey
         /\ k \notin Letter \cup {Space, "erase", "kill", "ctrl-p", "A", Newline} => UNCHANGED shellVars
<1>1. (CASE k = Space -> SpaceKey
        [] k \in Letter -> LetterKey(k)
        [] k = "erase" -> EraseKey
        [] k \in {"kill", "ctrl-p", "A"} -> ClearLine
        [] k = Newline -> EnterKey
        [] OTHER -> UNCHANGED shellVars)
  BY DEF ShellKey
<1>2. /\ Letter \cap {Space, "erase", "kill", "ctrl-p", "A", Newline} = {}
      /\ Space \notin {"erase", "kill", "ctrl-p", "A", Newline}
      /\ Newline \notin {"erase", "kill", "ctrl-p", "A"}
  BY ShellAssumption DEF Control, Space, Newline
<1>3. k \in Letter => k \notin {Space, "erase", "kill", "ctrl-p", "A", Newline}
  BY <1>2
<1>4. k = Space => SpaceKey
  BY <1>1, <1>2, <1>3
<1>5. k \in Letter => LetterKey(k)
  BY <1>1, <1>2, <1>3
<1>6. k = "erase" => EraseKey
  BY <1>1, <1>2, <1>3
<1>7. k \in {"kill", "ctrl-p", "A"} => ClearLine
  BY <1>1, <1>2, <1>3
<1>8. k = Newline => EnterKey
  BY <1>1, <1>2, <1>3
<1>9. k \notin Letter \cup {Space, "erase", "kill", "ctrl-p", "A", Newline} => UNCHANGED shellVars
  BY <1>1, <1>2, <1>3
<1> QED
  BY <1>4, <1>5, <1>6, <1>7, <1>8, <1>9

LEMMA ShellKeyLine == ASSUME IInv, ShellKey PROVE LineOK'
<1> DEFINE k == Head(input)
<1>1. k \in Key /\ LineOK
  BY DEF IInv, InputOK, ShellKey
<1>2. CASE k = Space
  <2>1. SpaceKey
    BY <1>2, Dispatch
  <2>2. CASE line = << >> \/ Len(line) > COM_BUF_LEN \/ Last(line) = Space
    BY <2>1, <2>2, <1>1 DEF SpaceKey, shellVars, LineOK, Spaced
  <2>3. CASE ~(line = << >> \/ Len(line) > COM_BUF_LEN \/ Last(line) = Space)
    <3>1. Store(Space) /\ Len(line) <= COM_BUF_LEN
      BY <2>1, <2>3, Consts DEF SpaceKey, IInv, LineOK
    <3> QED
      BY <3>1, <2>3, <1>1, Stored
  <2> QED
    BY <2>2, <2>3
<1>3. CASE k \in Letter
  <2>1. LetterKey(k) /\ k # Space
    BY <1>3, Consts, Dispatch
  <2>2. CASE Len(line) < COM_BUF_LEN
    <3>1. Store(k) /\ Len(line) <= COM_BUF_LEN
      BY <2>1, <2>2, Consts DEF LetterKey, IInv, LineOK
    <3> QED
      BY <3>1, <2>1, <2>2, <1>1, <1>3, Stored
  <2>3. CASE ~(Len(line) < COM_BUF_LEN)
    BY <2>1, <2>3, <1>1 DEF LetterKey, shellVars, LineOK, Spaced
  <2> QED
    BY <2>2, <2>3
<1>4. CASE k = "erase"
  <2>1. EraseKey
    BY <1>4, Dispatch
  <2>2. CASE line = << >>
    BY <2>1, <2>2, <1>1 DEF EraseKey, shellVars, LineOK, Spaced
  <2>3. CASE line # << >>
    BY <2>1, <2>3, <1>1, Erased DEF EraseKey
  <2> QED
    BY <2>2, <2>3
<1>5. CASE k \in {"kill", "ctrl-p", "A"}
  <2>1. ClearLine
    BY <1>5, Dispatch
  <2>2. line' = << >> /\ shown' = SubSeq(line, 1, 0)
    <3>1. Len(line) \in Nat
      BY <1>1 DEF LineOK
    <3>2. Len(line) - Len(line) = 0
      BY <3>1
    <3> QED
      BY <2>1, <3>2, <1>1 DEF ClearLine, LineOK
  <2>3. SubSeq(line, 1, 0) = << >>
    BY <1>1 DEF LineOK
  <2> QED
    BY <2>2, <2>3, <1>1, Emptied
<1>6. CASE k = Newline
  <2>1. EnterKey
    BY <1>6, Dispatch
  <2> QED
    BY <2>1, <1>1, Emptied DEF EnterKey
<1>7. CASE k \notin Letter \cup {Space, "erase", "kill", "ctrl-p", "A", Newline}
  <2>1. UNCHANGED shellVars
    BY <1>7, Dispatch
  <2> QED
    BY <2>1, <1>1 DEF shellVars, LineOK, Spaced
<1> QED
  BY <1>2, <1>3, <1>4, <1>5, <1>6, <1>7

-----------------------------------------------------------------------------
(* The keys, the script and the line of Lua.                               *)

LEMMA NewLineType == ASSUME NewLuaLine PROVE LuaOK'
  BY Consts DEF NewLuaLine, Empty, LuaOK

LEMMA CommandType ==
  ASSUME ScriptOK, LuaOK, NEW s, call_command(s)
  PROVE  ScriptOK' /\ LuaOK'
<1>1. ASSUME NEW kind \in {"file", "luai"}, NEW arg, StartScript(kind, arg)
      PROVE  ScriptOK' /\ LuaOK'
  <2>1. LuaOK'
    BY <1>1, NewLineType DEF StartScript
  <2>2. clashes' = clashes + 1 \/ clashes' = clashes
    BY <1>1 DEF StartScript
  <2>3. clashes' \in Nat
    BY <2>2 DEF ScriptOK
  <2>4. script'.kind = kind /\ script'.st = "ready" /\ thread_created' = FALSE
    BY <1>1 DEF StartScript
  <2> QED
    BY <2>1, <2>3, <2>4 DEF ScriptOK
<1>2. \/ StartScript("file", get_arg(s, 1)) \/ StartScript("luai", << >>)
      \/ UNCHANGED <<thread_created, script, clashes, luaVars>>
  <2>1. LuaName # LuaiName
    BY ShellAssumption
  <2> QED
    BY <2>1 DEF call_command
<1>3. CASE UNCHANGED <<thread_created, script, clashes, luaVars>>
  BY <1>3 DEF ScriptOK, LuaOK, luaVars
<1> QED
  BY <1>1, <1>2, <1>3

(* One key leaves the queue.                                               *)
LEMMA KeyTaken ==
  ASSUME InputOK, input # << >>, input' = Tail(input)
  PROVE  /\ InputOK' /\ Head(input) \in Key
         /\ Len(input) <= 1 => input' = << >>
<1>1. input \in Seq(Key) /\ Len(input) \in Nat /\ Len(input) <= AHEAD /\ AHEAD \in Nat
  BY Consts DEF InputOK
<1>2. input' \in Seq(Key) /\ Len(input') = Len(input) - 1 /\ Head(input) \in Key
  BY <1>1
<1>3. Len(input') <= AHEAD
  BY <1>1, <1>2
<1>4. ASSUME Len(input) <= 1 PROVE input' = << >>
  <2>1. Len(input') = 0
    BY <1>1, <1>2, <1>4
  <2> QED
    BY <2>1, <1>2
<1> QED
  BY <1>2, <1>3, <1>4 DEF InputOK

LEMMA LuaKeyType ==
  ASSUME LuaOK, i < MAXINPUT, NEW k \in Key, LuaKey(k)
  PROVE  LuaOK'
<1>1. i \in 0 .. (MAXINPUT - 1) /\ MAXINPUT \in Nat /\ i \in Nat
  BY Consts DEF LuaOK
<1>2. buffer' \in [0 .. MAXINPUT - 1 -> Printable \cup {Newline, Nul}]
  BY <1>1 DEF LuaOK, LuaKey
<1>3. i + 1 \in 0 .. MAXINPUT /\ (i # 0 => i - 1 \in 0 .. MAXINPUT) /\ 0 \in 0 .. MAXINPUT /\ i \in 0 .. MAXINPUT
  BY <1>1
<1>4. i' \in {i, 0, i + 1} \/ (i # 0 /\ i' = i - 1)
  BY DEF LuaKey, Newline
<1> QED
  BY <1>2, <1>3, <1>4 DEF LuaOK

LEMMA NextIInv == ASSUME IInv, [Next]_vars PROVE IInv'
<1>1. CASE ThreadStarts
  BY <1>1 DEF ThreadStarts, IInv, InputOK, LineOK, Spaced, ScriptOK, LuaOK, shellVars, luaVars
<1>2. CASE ThreadEnds
  BY <1>2 DEF ThreadEnds, IInv, InputOK, LineOK, Spaced, ScriptOK, LuaOK, shellVars, luaVars
<1>3. CASE ShellKey
  <2>1. LineOK' /\ InputOK'
    BY <1>3, ShellKeyLine, KeyTaken DEF ShellKey, IInv
  <2>2. ScriptOK' /\ LuaOK'
    <3>1. call_command(CommandLine) \/ UNCHANGED <<thread_created, script, clashes, luaVars>>
      BY <1>3 DEF ShellKey
    <3>2. CASE call_command(CommandLine)
      BY <3>2, CommandType DEF IInv
    <3>3. CASE UNCHANGED <<thread_created, script, clashes, luaVars>>
      BY <3>3 DEF IInv, ScriptOK, LuaOK, luaVars
    <3> QED
      BY <3>1, <3>2, <3>3
  <2> QED
    BY <2>1, <2>2 DEF IInv
<1>4. CASE LuaGetsKey
  <2>1. InputOK' /\ Head(input) \in Key
    BY <1>4, KeyTaken DEF LuaGetsKey, IInv
  <2>2. LineOK'
    BY <1>4 DEF LuaGetsKey, IInv, LineOK, Spaced, shellVars
  <2>3. LuaOK'
    <3>1. CASE Head(input) = "ctrl-c"
      BY <1>4, <3>1, NewLineType DEF LuaGetsKey
    <3>2. CASE Head(input) # "ctrl-c"
      BY <1>4, <2>1, <3>2, LuaKeyType DEF LuaGetsKey, LuaReads, IInv
    <3> QED
      BY <3>1, <3>2
  <2>4. ScriptOK'
    <3>1. \E st \in {"ended", "got", "running"} : script' = [script EXCEPT !.st = st]
      BY <1>4 DEF LuaGetsKey
    <3>2. script'.kind \in {"none", "file", "luai"} /\ script'.st \in {"ready", "running", "got", "ended"}
      BY <1>4, <3>1 DEF IInv, ScriptOK
    <3> QED
      BY <1>4, <3>2 DEF LuaGetsKey, IInv, ScriptOK
  <2> QED
    BY <2>1, <2>2, <2>3, <2>4 DEF IInv
<1>5. CASE LuaRunsLine
  <2>1. LuaOK'
    BY <1>5, NewLineType DEF LuaRunsLine
  <2>2. InputOK' /\ LineOK' /\ ScriptOK'
    BY <1>5 DEF LuaRunsLine, IInv, InputOK, LineOK, Spaced, ScriptOK, shellVars
  <2> QED
    BY <2>1, <2>2 DEF IInv
<1>6. ASSUME NEW k \in Key, Type(k) PROVE IInv'
  <2>1. InputOK'
    <3>1. input \in Seq(Key) /\ Len(input) \in Nat /\ AHEAD \in Nat /\ Len(input) < AHEAD
      BY <1>6, Consts DEF IInv, InputOK, Type
    <3>2. input' \in Seq(Key) /\ Len(input') = Len(input) + 1
      BY <1>6, <3>1 DEF Type
    <3>3. Len(input') <= AHEAD
      BY <3>1, <3>2
    <3> QED
      BY <3>2, <3>3 DEF InputOK
  <2>2. LineOK' /\ ScriptOK' /\ LuaOK'
    BY <1>6 DEF Type, IInv, LineOK, Spaced, ScriptOK, LuaOK, shellVars, luaVars
  <2> QED
    BY <2>1, <2>2 DEF IInv
<1>7. CASE UNCHANGED vars
  BY <1>7 DEF vars, IInv, InputOK, LineOK, Spaced, ScriptOK, LuaOK
<1> QED
  BY <1>1, <1>2, <1>3, <1>4, <1>5, <1>6, <1>7 DEF Next

(* Whatever keys come, line, screen, script record and Lua's buffer fit    *)
(* together: the inductive invariant.                                      *)
THEOREM Invariant == Spec => []IInv
<1>1. IInv /\ [Next]_vars => IInv'
  BY NextIInv
<1> QED
  BY InitIInv, <1>1, PTL DEF Spec

(* Types, among them the bounds of the two line buffers: the shell's line  *)
(* never outgrows its buffer by more than the space that Enter takes off,  *)
(* and Lua's index stays in [0, MAXINPUT].                                 *)
THEOREM TypeCorrect == Spec => []TypeOK
<1>1. IInv => TypeOK
  BY DEF IInv, InputOK, LineOK, ScriptOK, LuaOK, TypeOK
<1> QED
  BY Invariant, <1>1, PTL

(* The screen shows the line the shell will run, whatever keys built it.   *)
THEOREM ScreenCorrect == Spec => []ScreenIsLine
<1>1. IInv => ScreenIsLine
  BY DEF IInv, LineOK, ScreenIsLine
<1> QED
  BY Invariant, <1>1, PTL

(* "Don't allow continuous or begin space(' ')", while the line is typed.  *)
THEOREM SpacedCorrect == Spec => []Spaced
<1>1. IInv => Spaced
  BY DEF IInv, LineOK
<1> QED
  BY Invariant, <1>1, PTL

-----------------------------------------------------------------------------
(* One script at a time.                                                   *)

LEMMA NextStarted ==
  ASSUME ~Hasty, IInv, Started, [Next]_vars
  PROVE  Started'
<1>1. CASE ThreadStarts
  <2>1. /\ thread_created' = TRUE /\ UNCHANGED <<input, clashes>>
        /\ script' = [script EXCEPT !.st = IF script.kind = "file" /\ script.arg = << >>
                                           THEN "ended" ELSE "running"]
    BY <1>1 DEF ThreadStarts
  <2>2. script'.st = "ready" => script.st = "ready"
    BY <2>1
  <2> QED
    BY <2>1, <2>2 DEF Started
<1>2. CASE ThreadEnds
  <2>1. /\ UNCHANGED <<input, clashes, thread_created>> /\ script.st = "running"
        /\ script' = [script EXCEPT !.st = "ended"]
    BY <1>2 DEF ThreadEnds
  <2>2. script'.st # "ready"
    BY <2>1
  <2>3. Live
    BY <2>1 DEF Live
  <2> QED
    BY <2>1, <2>2, <2>3 DEF Started
<1>3. CASE ShellKey
  <2>1. input # << >> /\ input' = << >> /\ script.st # "ready"
    BY <1>3, KeyTaken DEF ShellKey, IInv, Started
  <2>2. Len(input') <= 1
    BY <2>1
  <2>3. \/ \E kind, arg : StartScript(kind, arg)
        \/ UNCHANGED <<thread_created, script, clashes, luaVars>>
    <3>1. LuaName # LuaiName
      BY ShellAssumption
    <3> QED
      BY <1>3, <3>1 DEF ShellKey, call_command
  <2>4. ASSUME NEW kind, NEW arg, StartScript(kind, arg) PROVE Started'
    <3>1. clashes' = 0
      BY <2>1, <2>4 DEF StartScript, Started
    <3>2. script'.st = "ready"
      BY <2>4 DEF StartScript
    <3> QED
      BY <2>1, <2>2, <3>1, <3>2 DEF Started
  <2>5. CASE UNCHANGED <<thread_created, script, clashes, luaVars>>
    BY <2>1, <2>2, <2>5 DEF Started, Live
  <2> QED
    BY <2>3, <2>4, <2>5
<1>4. CASE LuaGetsKey
  <2>1. /\ input' = << >> /\ script.st = "running" /\ UNCHANGED <<thread_created, clashes>>
    BY <1>4, KeyTaken DEF LuaGetsKey, LuaReads, IInv, Started
  <2>2. \E st \in {"ended", "got", "running"} : script' = [script EXCEPT !.st = st]
    BY <1>4 DEF LuaGetsKey
  <2>3. script'.st # "ready"
    BY <2>1, <2>2
  <2>4. thread_created
    BY <2>1 DEF Started, Live
  <2>5. Len(input') <= 1
    BY <2>1
  <2> QED
    BY <2>1, <2>3, <2>4, <2>5 DEF Started
<1>5. CASE LuaRunsLine
  <2>1. /\ script.st = "got" /\ script' = [script EXCEPT !.st = "running"]
        /\ UNCHANGED <<input, thread_created, clashes>>
    BY <1>5 DEF LuaRunsLine
  <2>2. thread_created /\ script'.st # "ready"
    BY <2>1 DEF Started, Live
  <2> QED
    BY <2>1, <2>2 DEF Started
<1>6. ASSUME NEW k \in Key, Type(k) PROVE Started'
  <2>1. /\ input = << >> /\ script.st # "ready" /\ input' = Append(input, k)
        /\ UNCHANGED <<script, thread_created, clashes>>
    BY <1>6 DEF Type
  <2>2. Len(input') = 1
    BY <2>1
  <2> QED
    BY <2>1, <2>2 DEF Started, Live
<1>7. CASE UNCHANGED vars
  BY <1>7 DEF vars, Started, Live
<1> QED
  BY <1>1, <1>2, <1>3, <1>4, <1>5, <1>6, <1>7 DEF Next

(* With a user who lets a script start before typing on, l_ti is handed to *)
(* the kernel only when the thread that used it has ended or was deleted.  *)
THEOREM OneScriptCorrect == ASSUME ~Hasty PROVE Spec => []OneScript
<1>1. Init => IInv /\ Started
  <2>1. Len(<< >>) = 0
    OBVIOUS
  <2> QED
    BY <2>1, InitIInv DEF Init, Started, Live, NoScript
<1>2. IInv /\ Started /\ [Next]_vars => IInv' /\ Started'
  BY NextIInv, NextStarted
<1>3. Started => OneScript
  BY DEF Started, OneScript
<1> QED
  BY <1>1, <1>2, <1>3, PTL DEF Spec

-----------------------------------------------------------------------------
(* The words of a line.                                                    *)

LEMMA LeastOf ==
  ASSUME NEW T, T \subseteq Nat, T # {}
  PROVE  \E x \in T : \A y \in T : x <= y
<1> DEFINE R == OpToRel(<, Nat)
<1>1. IsWellFoundedOn(R, Nat)
  BY NatLessThanWellFounded
<1> HIDE DEF R
<1>2. PICK x \in T : \A y \in T : ~(<<y, x>> \in R)
  BY <1>1, WFMin, Zenon
<1>3. ASSUME NEW y \in T, y < x PROVE FALSE
  <2>1. <<y, x>> \in R
    BY <1>3 DEF R, OpToRel
  <2> QED
    BY <2>1, <1>2
<1> QED
  BY <1>3

LEMMA GreatestOf ==
  ASSUME NEW n \in Nat, NEW T, T \subseteq 0 .. n, T # {}
  PROVE  \E x \in T : \A y \in T : y <= x
<1> DEFINE U == {n - y : y \in T}
<1>1. U \subseteq Nat /\ U # {}
  <2>1. \A y \in T : n - y \in Nat
    OBVIOUS
  <2>2. PICK y \in T : TRUE
    OBVIOUS
  <2>3. n - y \in U
    BY <2>2
  <2> QED
    BY <2>1, <2>3
<1>2. PICK u \in U : \A w \in U : u <= w
  <2> HIDE DEF U
  <2> QED
    BY <1>1, LeastOf
<1>3. PICK x \in T : u = n - x
  BY <1>2
<1>4. ASSUME NEW y \in T PROVE y <= x
  <2>1. n - x <= n - y
    BY <1>2, <1>3
  <2>2. x \in 0 .. n /\ y \in 0 .. n
    BY <1>3
  <2> QED
    BY <2>1, <2>2
<1> QED
  BY <1>3, <1>4

(* The members of a set of positive numbers are counted off one by one.    *)
LEMMA Counted ==
  ASSUME NEW m \in Nat, NEW E, E \subseteq 1 .. m, NEW n \in Nat
  PROVE  /\ IsFiniteSet(E) /\ Cardinality(E) \in Nat
         /\ (n < Cardinality(E)) = (\E k \in E : Cardinality({j \in E : j < k}) = n)
<1> DEFINE C(k) == Cardinality({j \in E : j < k})
<1>0. \A j \in E : j \in Nat /\ 1 <= j /\ j <= m
  OBVIOUS
<1>1. IsFiniteSet(E) /\ Cardinality(E) \in Nat
  <2>1. IsFiniteSet(1 .. m)
    BY FS_Interval
  <2>2. IsFiniteSet(E)
    BY <2>1, FS_Subset
  <2> QED
    BY <2>2, FS_CardinalityType
<1>2. ASSUME NEW k PROVE IsFiniteSet({j \in E : j < k}) /\ C(k) \in Nat /\ C(k) <= Cardinality(E)
  <2>1. {j \in E : j < k} \in SUBSET E
    OBVIOUS
  <2>2. IsFiniteSet({j \in E : j < k}) /\ C(k) <= Cardinality(E)
    BY <1>1, <2>1, FS_Subset
  <2> QED
    BY <2>2, FS_CardinalityType
<1>3. ASSUME NEW k \in E PROVE C(k) < Cardinality(E)
  <2>1. {j \in E : j < k} \in SUBSET E /\ k \notin {j \in E : j < k} /\ k \in E
    OBVIOUS
  <2>2. C(k) # Cardinality(E)
    BY <1>1, <2>1, FS_Subset
  <2> QED
    BY <2>2, <1>1, <1>2
<1>4. ASSUME n < Cardinality(E) PROVE \E k \in E : C(k) = n
  <2> DEFINE T == {k \in 1 .. m + 1 : C(k) > n}
  <2>1. m + 1 \in T
    <3>0. \A j \in E : j < m + 1
      BY <1>0
    <3>1. {j \in E : j < m + 1} = E
      BY <3>0, Zenon
    <3>2. m + 1 \in 1 .. m + 1
      OBVIOUS
    <3> QED
      BY <3>1, <3>2, <1>4
  <2>2. T \subseteq Nat
    OBVIOUS
  <2>3. PICK x \in T : \A y \in T : x <= y
    <3> HIDE DEF T
    <3> QED
      BY <2>1, <2>2, LeastOf
  <2>4. x \in 1 .. m + 1 /\ C(x) > n
    BY <2>3
  <2>5. C(1) = 0
    <3>0. \A j \in E : ~(j < 1)
      BY <1>0
    <3>1. {j \in E : j < 1} = {}
      BY <3>0
    <3> QED
      BY <3>1, FS_EmptySet
  <2>6. x # 1
    <3>1. C(x) # 0
      <4>1. C(x) \in Nat
        BY <1>2
      <4> HIDE DEF C
      <4> QED
        BY <4>1, <2>4
    <3> QED
      BY <3>1, <2>5
  <2> DEFINE z == x - 1
  <2>7. z \in 1 .. m /\ z < x /\ z + 1 = x
    BY <2>4, <2>6
  <2>8. ~(C(z) > n)
    <3>1. z \notin T
      <4> HIDE DEF T, z
      <4>1. z \in T => x <= z
        BY <2>3
      <4> QED
        BY <4>1, <2>4, <2>7
    <3> QED
      BY <3>1, <2>7
  <2>9. {j \in E : j < x} = {j \in E : j < z} \cup (E \cap {z})
    <3> HIDE DEF z
    <3>1. \A j \in E : (j < x) <=> (j < z \/ j = z)
      BY <1>0, <2>4, <2>7
    <3> QED
      BY <3>1, <2>7
  <2>10. z \in E /\ C(x) = C(z) + 1
    <3> HIDE DEF z
    <3>1. CASE z \notin E
      <4>1. {j \in E : j < x} = {j \in E : j < z}
        BY <3>1, <2>9
      <4> QED
        BY <4>1, <2>4, <2>8
    <3>2. CASE z \in E
      <4>1. {j \in E : j < x} = {j \in E : j < z} \cup {z} /\ z \notin {j \in E : j < z}
        BY <3>2, <2>7, <2>9
      <4> QED
        BY <3>2, <4>1, <1>2, FS_AddElement
    <3> QED
      BY <3>1, <3>2
  <2>11. C(z) = n
    <3> HIDE DEF z
    <3>1. C(z) \in Nat
      BY <1>2
    <3> HIDE DEF C
    <3> QED
      BY <3>1, <2>4, <2>8, <2>10
  <2> QED
    BY <2>10, <2>11
<1>5. ASSUME NEW k \in E, C(k) = n PROVE n < Cardinality(E)
  BY <1>3, <1>5
<1>6. (n < Cardinality(E)) = (\E k \in E : C(k) = n)
  <2> HIDE DEF C
  <2>1. ASSUME n < Cardinality(E) PROVE \E k \in E : C(k) = n
    BY <2>1, <1>4
  <2>2. ASSUME \E k \in E : C(k) = n PROVE n < Cardinality(E)
    BY <2>2, <1>5
  <2>3. (n < Cardinality(E)) <=> (\E k \in E : C(k) = n)
    BY <2>1, <2>2
  <2> DEFINE A == n < Cardinality(E)
             B == \E k \in E : C(k) = n
  <2>4. A \in BOOLEAN /\ B \in BOOLEAN /\ (A <=> B)
    BY <2>3, <1>1
  <2> HIDE DEF A, B
  <2>5. A = B
    BY <2>4
  <2> QED
    BY <2>5 DEF A, B
<1> QED
  BY <1>1, <1>6

(* A line of words, single spaces between them.                            *)
Words(s) ==
  /\ s \in Seq(Letter \cup {Space}) /\ Len(s) >= 1
  /\ s[1] # Space /\ s[Len(s)] # Space
  /\ \A k \in 1 .. Len(s) : k + 1 <= Len(s) /\ s[k] = Space => s[k + 1] # Space

LEMMA CommandWords ==
  ASSUME LineOK, line # << >>
  PROVE  Words(CommandLine) /\ Len(CommandLine) <= COM_BUF_LEN
<1> DEFINE n == Len(line)
<1>1. /\ line \in Seq(Letter \cup {Space}) /\ n \in Nat /\ n >= 1 /\ COM_BUF_LEN \in Nat
      /\ n <= COM_BUF_LEN + 1 /\ line[1] # Space
      /\ \A k \in 1 .. n : k + 1 <= n /\ line[k] = Space => line[k + 1] # Space
      /\ n > COM_BUF_LEN => line[n] = Space
  BY Consts DEF LineOK, Spaced
<1>2. CASE line[n] # Space
  <2>1. CommandLine = line
    BY <1>2 DEF CommandLine, Last
  <2> QED
    BY <2>1, <1>1, <1>2 DEF Words
<1>3. CASE line[n] = Space
  <2>1. CommandLine = SubSeq(line, 1, n - 1)
    BY <1>3 DEF CommandLine, Last, Front
  <2>2. n >= 2
    BY <1>1, <1>3
  <2>3. /\ CommandLine \in Seq(Letter \cup {Space}) /\ Len(CommandLine) = n - 1
        /\ \A k \in 1 .. (n - 1) : CommandLine[k] = line[k]
    BY <2>1, <2>2, <1>1
  <2>4. line[n - 1] # Space
    <3>1. n - 1 \in 1 .. n /\ (n - 1) + 1 = n
      BY <2>2, <1>1
    <3> QED
      BY <3>1, <1>1, <1>3
  <2>5. /\ 1 \in 1 .. (n - 1) /\ n - 1 \in 1 .. (n - 1) /\ n - 1 >= 1 /\ n - 1 <= COM_BUF_LEN
        /\ \A k \in 1 .. (n - 1) : k \in 1 .. n /\ (k + 1 <= n - 1 => k + 1 <= n /\ k + 1 \in 1 .. (n - 1))
    BY <2>2, <1>1
  <2> HIDE DEF n
  <2> QED
    BY <2>3, <2>4, <2>5, <1>1 DEF Words
<1> QED
  BY <1>2, <1>3

(* What get_arg returns: a word while there are any, and only letters.     *)
LEMMA WordFound ==
  ASSUME NEW s, Words(s), NEW n \in Nat
  PROVE  /\ (n < Cardinality(Ends(s))) = (get_arg(s, n) # << >>)
         /\ \A k \in 1 .. Len(get_arg(s, n)) : get_arg(s, n)[k] \in Letter
<1> DEFINE m == Len(s)
           E == Ends(s)
<1>1. s \in Seq(Letter \cup {Space}) /\ m \in Nat /\ m >= 1 /\ ARG_SIZE \in Nat /\ ARG_SIZE >= 1
  BY ShellAssumption DEF Words
<1>2. E \subseteq 1 .. m + 1 /\ m + 1 \in Nat
  BY <1>1 DEF Ends
<1>3. (n < Cardinality(E)) = (\E k \in E : Cardinality({j \in E : j < k}) = n)
  <2> HIDE DEF E, m
  <2> QED
    BY <1>2, Counted
<1>4. (n < Cardinality(E)) = (EndOf(s, n) # {})
  BY <1>3 DEF EndOf
<1>5. CASE EndOf(s, n) = {}
  <2>1. get_arg(s, n) = << >> /\ Len(<< >>) = 0
    BY <1>5 DEF get_arg
  <2> QED
    BY <2>1, <1>4, <1>5
<1>6. CASE EndOf(s, n) # {}
  <2> DEFINE end == CHOOSE k \in EndOf(s, n) : TRUE
             before == {j \in E : j < end}
             back == CHOOSE j \in before : \A k \in before : k <= j
             offset == 1 + (IF before = {} THEN 0 ELSE back)
             length == IF end - offset < ARG_SIZE THEN end - offset ELSE ARG_SIZE
  <2>1. get_arg(s, n) = SubSeq(s, offset, offset + length - 1)
    BY <1>6 DEF get_arg
  <2>2. end \in E
    <3>1. end \in EndOf(s, n)
      BY <1>6, Zenon
    <3> QED
      BY <3>1 DEF EndOf
  <2>3. before # {} => back \in before /\ \A k \in before : k <= back
    <3> HIDE DEF end
    <3>1. before \subseteq 0 .. m + 1
      BY <1>1, <1>2
    <3> HIDE DEF before
    <3>2. before # {} => \E j \in before : \A k \in before : k <= j
      BY <1>2, <3>1, GreatestOf
    <3> QED
      BY <3>2, Zenon
  <2> HIDE DEF end, back
  <2>4. end \in 1 .. m + 1 /\ before \subseteq 1 .. m + 1
    BY <1>2, <2>2
  <2>5. offset \in 1 .. m + 1 /\ offset <= end
    <3>1. CASE before = {}
      BY <3>1, <2>4, <1>1
    <3>2. CASE before # {}
      <4>1. back \in before /\ back < end
        BY <3>2, <2>3
      <4>2. back \in 1 .. m + 1
        BY <4>1, <2>4
      <4> QED
        BY <3>2, <4>1, <4>2, <2>4, <1>1
    <3> QED
      BY <3>1, <3>2
  <2>6. ASSUME NEW k \in offset .. end - 1 PROVE k \in 1 .. m /\ s[k] # Space
    <3> HIDE DEF E, before, offset
    <3>1. k \in 1 .. m /\ k < end
      BY <2>4, <2>5, <1>1
    <3>2. k \notin before
      <4>1. before # {} => offset = 1 + back /\ back \in 1 .. m + 1 /\ \A j \in before : j <= back
        BY <2>3, <2>4 DEF offset
      <4>2. k >= offset
        BY <2>4, <2>5
      <4> QED
        BY <4>1, <4>2, <3>1
    <3>3. k \notin E
      BY <3>1, <3>2 DEF before
    <3>4. k \in 1 .. m + 1
      BY <3>1, <1>1
    <3> QED
      BY <3>1, <3>3, <3>4 DEF E, Ends
  <2>7. offset < end
    <3> SUFFICES ASSUME offset = end PROVE FALSE
      BY <2>4, <2>5
    <3>1. end # 1
      <4>1. end = 1 => s[1] = Space
        BY <2>2, <1>1 DEF Ends
      <4> QED
        BY <4>1 DEF Words
    <3>2. before # {} /\ back = end - 1
      <4>1. before = {} => offset = 1
        OBVIOUS
      <4>2. before # {} => offset = 1 + back /\ back \in 1 .. m + 1
        BY <2>3, <2>4
      <4> HIDE DEF offset, before
      <4> QED
        BY <4>1, <4>2, <3>1, <2>4
    <3>3. back \in E /\ back \in 1 .. m /\ back + 1 = end
      <4>1. back \in before
        BY <3>2, <2>3
      <4>2. back \in E
        BY <4>1
      <4> QED
        BY <4>2, <3>1, <3>2, <2>4, <1>1
    <3>4. s[back] = Space
      BY <3>3, <1>1 DEF Ends
    <3>5. end = m + 1 \/ s[end] = Space
      BY <2>2 DEF Ends
    <3>6. CASE end = m + 1
      <4>1. back = m
        BY <3>3, <3>6, <1>1
      <4> QED
        BY <4>1, <3>4 DEF Words
    <3>7. CASE end # m + 1
      <4>1. back + 1 <= m /\ s[back + 1] = Space
        BY <3>3, <3>5, <3>7, <2>4, <1>1
      <4> QED
        BY <4>1, <3>3, <3>4 DEF Words
    <3> QED
      BY <3>6, <3>7
  <2> HIDE DEF offset, before, E
  <2>8. length \in Nat /\ length >= 1 /\ offset + length - 1 <= end - 1 /\ offset + length - 1 >= offset
    BY <2>4, <2>5, <2>7, <1>1
  <2> HIDE DEF length
  <2>9. offset \in Nat /\ end \in Nat /\ offset >= 1 /\ offset + length - 1 <= m
    BY <2>4, <2>5, <2>8, <1>1
  <2>10. /\ Len(get_arg(s, n)) = length
         /\ \A k \in 1 .. length : get_arg(s, n)[k] = s[offset + k - 1]
    BY <2>1, <2>8, <2>9, <1>1
  <2>11. get_arg(s, n) # << >>
    <3>1. Len(<< >>) = 0
      OBVIOUS
    <3> QED
      BY <3>1, <2>8, <2>10
  <2>12. ASSUME NEW k \in 1 .. length PROVE get_arg(s, n)[k] \in Letter
    <3>1. offset + k - 1 \in offset .. end - 1
      BY <2>8, <2>9
    <3>2. offset + k - 1 \in 1 .. m /\ s[offset + k - 1] # Space
      BY <3>1, <2>6
    <3>3. s[offset + k - 1] \in Letter \cup {Space}
      BY <3>2, <1>1
    <3> QED
      BY <3>2, <3>3, <2>10
  <2> QED
    BY <1>4, <1>6, <2>10, <2>11, <2>12 DEF E
<1> QED
  BY <1>5, <1>6

(* "Don't allow continuous or begin space(' ')": whatever was typed, the   *)
(* line given to the commands is words, of which get_arg finds the n-th    *)
(* and no other.                                                           *)
THEOREM WordsCorrect == Spec => []LineIsWords
<1>1. ASSUME IInv PROVE LineIsWords
  <2> SUFFICES ASSUME line # << >>
               PROVE  /\ Len(CommandLine) <= COM_BUF_LEN
                      /\ \A n \in 0 .. COM_BUF_LEN + 1 :
                           LET word == get_arg(CommandLine, n)
                           IN /\ (n < Cardinality(Ends(CommandLine))) = (word # << >>)
                              /\ \A k \in 1 .. Len(word) : word[k] \in Letter
    BY DEF LineIsWords
  <2>1. Words(CommandLine) /\ Len(CommandLine) <= COM_BUF_LEN
    BY <1>1, CommandWords DEF IInv
  <2>2. \A n \in 0 .. COM_BUF_LEN + 1 : n \in Nat
    BY Consts
  <2> QED
    BY <2>1, <2>2, WordFound
<1> QED
  BY Invariant, <1>1, PTL

-----------------------------------------------------------------------------
(* The line that Lua reads.                                                *)

Index == 0 .. MAXINPUT - 1

(* Without keys that do not print: the line of the screen up to the index, *)
(* behind it, or behind the newline, what was erased and not typed over,   *)
(* and NULs from the furthest index on.                                    *)
Clean ==
  /\ i <= far /\ far <= MAXINPUT /\ Len(lshown) = i
  /\ \A j \in Index : j < i => buffer[j] = lshown[j + 1]
  /\ \A j \in Index :
       IF script.st = "got" /\ j = i THEN buffer[j] = Newline
       ELSE IF j < far THEN buffer[j] \in Printable
       ELSE buffer[j] = Nul

(* With them, and nothing erased: a NUL behind a beginning of the line.    *)
Skipped ==
  \E p \in Index :
    /\ p < i /\ p <= Len(lshown) /\ buffer[p] = Nul
    /\ \A j \in 0 .. p - 1 : buffer[j] \in Printable /\ lshown[j + 1] = buffer[j]

LInv ==
  /\ odd \subseteq {"erased", "unprintable"} /\ lshown \in Seq(Printable) /\ far \in Nat
  /\ "unprintable" \notin odd => Clean
  /\ odd = {"unprintable"} => Skipped
  /\ script.st # "got" /\ "erased" \notin odd =>
       \A j \in Index : j >= i => buffer[j] = Nul

LEMMA Signs ==
  /\ Space \in Printable /\ "A" \in Printable /\ "[" \in Printable /\ Letter \subseteq Printable
  /\ Nul \notin Printable /\ Newline \notin Printable /\ Beyond \notin Printable /\ Newline # Nul
  /\ Printable \cap {"erase", "kill", "ctrl-p", "ctrl-c"} = {}
  /\ \A k \in Key : k \in Printable \cup {"erase", "kill", "ctrl-p", "ctrl-c", Newline}
<1>1. Letter \cap (Control \cup {Space, "A", "[", Nul, Beyond}) = {}
  BY ShellAssumption
<1> QED
  BY <1>1 DEF Printable, Key, Control, Space, Newline, Nul, Beyond

(* A new line is empty, and the screen with it.                            *)
LEMMA NewLInv ==
  ASSUME NewLuaLine, script'.st # "got"
  PROVE  LInv'
<1>1. /\ odd' = {} /\ i' = 0 /\ far' = 0 /\ lshown' = << >> /\ buffer' = [k \in Index |-> Nul]
      /\ MAXINPUT \in Nat
  BY Consts DEF NewLuaLine, Empty, Index
<1>2. Len(<< >>) = 0 /\ << >> \in Seq(Printable)
  OBVIOUS
<1>3. Clean'
  BY <1>1, <1>2 DEF Clean, Index
<1> QED
  BY <1>1, <1>2, <1>3 DEF LInv

LEMMA SameLInv ==
  ASSUME LInv, UNCHANGED luaVars, (script'.st = "got") = (script.st = "got")
  PROVE  LInv'
<1>1. UNCHANGED <<buffer, i, lshown, odd, far>>
  BY DEF luaVars
<1> QED
  BY <1>1 DEF LInv, Clean, Skipped

(* A key of Lua's line.                                                    *)
LEMMA KeyLInv ==
  ASSUME IInv, LInv, i < MAXINPUT, script.st = "running", NEW k \in Key, k # "ctrl-c", LuaKey(k),
         script'.st = IF k = Newline \/ i' = MAXINPUT THEN "got" ELSE "running"
  PROVE  LInv'
<1>1. /\ MAXINPUT \in Nat /\ i \in Index /\ i \in Nat /\ DOMAIN buffer = Index /\ far \in Nat
      /\ lshown \in Seq(Printable) /\ Len(lshown) \in Nat
      /\ odd \subseteq {"erased", "unprintable"} /\ \A j \in Index : j \in Nat /\ j < MAXINPUT
  BY Consts DEF IInv, LuaOK, LInv, Index
<1>2. /\ "unprintable" \notin odd => Clean
      /\ odd = {"unprintable"} => Skipped
      /\ "erased" \notin odd => \A j \in Index : j >= i => buffer[j] = Nul
  BY DEF LInv
<1>3. far' = IF i' > far THEN i' ELSE far
  BY DEF LuaKey
<1>4. "unprintable" \notin odd =>
        /\ i <= far /\ far <= MAXINPUT /\ Len(lshown) = i
        /\ \A j \in Index : j < i => buffer[j] = lshown[j + 1]
        /\ \A j \in Index : IF j < far THEN buffer[j] \in Printable ELSE buffer[j] = Nul
  BY <1>2 DEF Clean
<1>5. CASE k \in Printable
  <2>1. /\ buffer' = [buffer EXCEPT ![i] = k] /\ i' = i + 1 /\ lshown' = Append(lshown, k)
        /\ odd' = odd /\ k # Newline /\ i' \in Nat
    BY <1>1, <1>5, Signs DEF LuaKey
  <2>2. /\ lshown' \in Seq(Printable) /\ Len(lshown') = Len(lshown) + 1 /\ lshown'[Len(lshown) + 1] = k
        /\ \A j \in 1 .. Len(lshown) : lshown'[j] = lshown[j]
    BY <2>1, <1>1, <1>5
  <2>3. buffer'[i] = k /\ \A j \in Index : j # i => buffer'[j] = buffer[j]
    BY <2>1, <1>1
  <2>4. far' \in Nat /\ far' >= i + 1 /\ far' >= far
        /\ \A j \in Index : j < far' => j < far \/ j <= i
    BY <1>1, <1>3, <2>1
  <2>5. ASSUME "unprintable" \notin odd' PROVE Clean'
    <3>1. i' <= far' /\ far' <= MAXINPUT /\ Len(lshown') = i'
      BY <1>1, <1>3, <1>4, <2>1, <2>2, <2>5
    <3>2. ASSUME NEW j \in Index, j < i' PROVE buffer'[j] = lshown'[j + 1]
      <4>1. CASE j = i
        BY <1>4, <2>1, <2>2, <2>3, <2>5, <4>1
      <4>2. CASE j # i
        <5>1. j < i /\ j + 1 \in 1 .. Len(lshown)
          BY <1>1, <1>4, <2>1, <2>5, <3>2, <4>2
        <5> QED
          BY <1>4, <2>1, <2>2, <2>3, <2>5, <4>2, <5>1
      <4> QED
        BY <4>1, <4>2
    <3>3. ASSUME NEW j \in Index
          PROVE  IF script'.st = "got" /\ j = i' THEN buffer'[j] = Newline
                 ELSE IF j < far' THEN buffer'[j] \in Printable ELSE buffer'[j] = Nul
      <4>1. ~(script'.st = "got" /\ j = i')
        BY <1>1, <2>1
      <4>2. CASE j = i
        BY <1>1, <1>5, <2>3, <2>4, <4>1, <4>2
      <4>3. CASE j # i
        <5>1. j < far' <=> j < far
          BY <1>1, <1>4, <2>1, <2>4, <2>5, <4>3
        <5> QED
          BY <1>4, <2>1, <2>3, <2>5, <4>1, <4>3, <5>1
      <4> QED
        BY <4>2, <4>3
    <3> QED
      BY <3>1, <3>2, <3>3 DEF Clean
  <2>6. ASSUME odd' = {"unprintable"} PROVE Skipped'
    <3>1. PICK p \in Index : /\ p < i /\ p <= Len(lshown) /\ buffer[p] = Nul
                             /\ \A j \in 0 .. p - 1 : buffer[j] \in Printable /\ lshown[j + 1] = buffer[j]
      BY <1>2, <2>1, <2>6 DEF Skipped
    <3>2. p < i' /\ p <= Len(lshown') /\ buffer'[p] = Nul
      BY <1>1, <2>1, <2>2, <2>3, <3>1
    <3>3. ASSUME NEW j \in 0 .. p - 1
          PROVE  buffer'[j] \in Printable /\ lshown'[j + 1] = buffer'[j]
      <4>1. j \in Index /\ j # i /\ j + 1 \in 1 .. Len(lshown)
        BY <1>1, <3>1 DEF Index
      <4> QED
        BY <2>2, <2>3, <3>1, <4>1
    <3> QED
      BY <3>2, <3>3 DEF Skipped
  <2>7. "erased" \notin odd' => \A j \in Index : j >= i' => buffer'[j] = Nul
    <3>1. \A j \in Index : j >= i' => j >= i /\ j # i
      BY <2>1, <1>1
    <3> QED
      BY <3>1, <2>1, <2>3, <1>2
  <2> QED
    BY <1>1, <2>1, <2>2, <2>4, <2>5, <2>6, <2>7 DEF LInv
<1>6. CASE k = Newline
  <2>1. /\ buffer' = [buffer EXCEPT ![i] = Newline] /\ i' = i /\ lshown' = lshown /\ odd' = odd
        /\ script'.st = "got"
    BY <1>6, Signs DEF LuaKey, Newline
  <2>2. buffer'[i] = Newline /\ \A j \in Index : j # i => buffer'[j] = buffer[j]
    BY <2>1, <1>1
  <2>3. far' \in Nat /\ ("unprintable" \notin odd => far' = far)
    BY <1>1, <1>3, <1>4, <2>1
  <2>4. ASSUME "unprintable" \notin odd' PROVE Clean'
    <3>1. i' <= far' /\ far' <= MAXINPUT /\ Len(lshown') = i' /\ far' = far
      BY <1>1, <1>4, <2>1, <2>3, <2>4
    <3>2. \A j \in Index : j < i' => buffer'[j] = lshown'[j + 1]
      BY <1>1, <1>4, <2>1, <2>2, <2>4
    <3>3. \A j \in Index :
            IF script'.st = "got" /\ j = i' THEN buffer'[j] = Newline
            ELSE IF j < far' THEN buffer'[j] \in Printable ELSE buffer'[j] = Nul
      BY <1>1, <1>4, <2>1, <2>2, <2>4, <3>1
    <3> QED
      BY <3>1, <3>2, <3>3 DEF Clean
  <2>5. ASSUME odd' = {"unprintable"} PROVE Skipped'
    <3>1. PICK p \in Index : /\ p < i /\ p <= Len(lshown) /\ buffer[p] = Nul
                             /\ \A j \in 0 .. p - 1 : buffer[j] \in Printable /\ lshown[j + 1] = buffer[j]
      BY <1>2, <2>1, <2>5 DEF Skipped
    <3>2. buffer'[p] = Nul
      BY <1>1, <2>2, <3>1
    <3>3. \A j \in 0 .. p - 1 : j \in Index /\ j # i
      BY <1>1, <3>1 DEF Index
    <3> QED
      BY <2>1, <2>2, <3>1, <3>2, <3>3 DEF Skipped
  <2> QED
    BY <1>1, <2>1, <2>3, <2>4, <2>5 DEF LInv
<1>7. CASE k = "ctrl-p"
  <2>1. /\ buffer' = buffer /\ i' = i + 1 /\ lshown' = lshown /\ odd' = odd \cup {"unprintable"}
        /\ k # Newline
    BY <1>7, Signs DEF LuaKey, Newline
  <2>2. ASSUME odd' = {"unprintable"} PROVE Skipped'
    <3>1. "erased" \notin odd
      BY <2>1, <2>2
    <3>2. CASE "unprintable" \in odd
      <4>1. Skipped
        BY <1>1, <1>2, <3>1, <3>2
      <4>2. PICK p \in Index : /\ p < i /\ p <= Len(lshown) /\ buffer[p] = Nul
                               /\ \A j \in 0 .. p - 1 : buffer[j] \in Printable /\ lshown[j + 1] = buffer[j]
        BY <4>1 DEF Skipped
      <4>3. p < i'
        BY <1>1, <2>1, <4>2
      <4> QED
        BY <2>1, <4>2, <4>3 DEF Skipped
    <3>3. CASE "unprintable" \notin odd
      <4>1. buffer[i] = Nul /\ i < i' /\ i <= Len(lshown)
        BY <1>1, <1>2, <1>4, <2>1, <3>1, <3>3
      <4>2. i <= far
        BY <1>4, <3>3
      <4>3. \A j \in 0 .. i - 1 : j \in Index /\ j < i /\ j < far
        BY <1>1, <4>2 DEF Index
      <4>4. \A j \in 0 .. i - 1 : buffer[j] \in Printable /\ lshown[j + 1] = buffer[j]
        BY <1>4, <3>3, <4>3
      <4> QED
        BY <1>1, <2>1, <4>1, <4>4 DEF Skipped
    <3> QED
      BY <3>2, <3>3
  <2>3. "erased" \notin odd' => \A j \in Index : j >= i' => buffer'[j] = Nul
    <3>1. \A j \in Index : j >= i' => j >= i
      BY <2>1, <1>1
    <3> QED
      BY <3>1, <2>1, <1>2
  <2>4. far' \in Nat
    BY <1>1, <1>3, <2>1
  <2> QED
    BY <1>1, <2>1, <2>2, <2>3, <2>4 DEF LInv
<1>8. CASE k \in {"erase", "kill"}
  <2>1. /\ buffer' = buffer /\ odd' = odd \cup {"erased"} /\ k # Newline
        /\ i' \in 0 .. i /\ i' # MAXINPUT /\ script'.st # "got"
    BY <1>1, <1>8, Signs DEF LuaKey, Newline
  <2>2. far' \in Nat
    BY <1>1, <1>3, <2>1
  <2>3. /\ k = "kill" \/ (i = 0 /\ lshown = << >>) => lshown' = << >> /\ i' = 0
        /\ k = "erase" /\ lshown = << >> => lshown' = lshown
        /\ k = "erase" /\ i = 0 => lshown' = lshown /\ i' = 0
        /\ k = "erase" /\ i # 0 => i' = i - 1
        /\ k = "erase" /\ i # 0 /\ lshown # << >> => lshown' = Front(lshown)
    BY <1>8, Signs DEF LuaKey, Newline
  <2>4. lshown # << >> => /\ Front(lshown) \in Seq(Printable) /\ Len(Front(lshown)) = Len(lshown) - 1
                          /\ \A j \in 1 .. Len(lshown) - 1 : Front(lshown)[j] = lshown[j]
    <3>1. ASSUME lshown # << >>
          PROVE  /\ SubSeq(lshown, 1, Len(lshown) - 1) \in Seq(Printable)
                 /\ Len(SubSeq(lshown, 1, Len(lshown) - 1)) = Len(lshown) - 1
                 /\ \A j \in 1 .. Len(lshown) - 1 : SubSeq(lshown, 1, Len(lshown) - 1)[j] = lshown[j]
      <4>0. PICK s \in Seq(Printable) : s = lshown
        BY <1>1
      <4>1. Len(s) \in Nat /\ Len(s) >= 1
        BY <3>1, <4>0
      <4>2. /\ SubSeq(s, 1, Len(s) - 1) \in Seq(Printable)
            /\ Len(SubSeq(s, 1, Len(s) - 1)) = Len(s) - 1
            /\ \A j \in 1 .. Len(s) - 1 : SubSeq(s, 1, Len(s) - 1)[j] = s[j]
        <5>1. PICK m \in Nat : m = Len(s) - 1
          BY <4>1
        <5>2. m \in 0 .. Len(s)
          BY <4>1, <5>1
        <5>3. SubSeq(s, 1, m) \in Seq(Printable)
          BY <5>2
        <5>4. Len(SubSeq(s, 1, m)) = m /\ \A j \in 1 .. m : SubSeq(s, 1, m)[j] = s[j]
          BY <5>2
        <5> QED
          BY <5>1, <5>3, <5>4
      <4> QED
        BY <4>0, <4>2
    <3> QED
      BY <3>1 DEF Front
  <2>5. << >> \in Seq(Printable) /\ Len(<< >>) = 0
    OBVIOUS
  <2>6. lshown' \in Seq(Printable)
    BY <1>1, <1>8, <2>3, <2>4, <2>5
  <2>7. ASSUME "unprintable" \notin odd' PROVE Clean'
    <3>0. "unprintable" \notin odd
      BY <2>1, <2>7
    <3>1. i' <= far' /\ far' <= MAXINPUT /\ far' = far
      BY <1>1, <1>3, <1>4, <2>1, <3>0
    <3>2. Len(lshown') = i' /\ \A j \in 1 .. i' : lshown'[j] = lshown[j]
      <4>1. CASE k = "kill"
        BY <2>3, <2>5, <4>1
      <4>2. CASE k = "erase" /\ i = 0
        BY <1>1, <1>4, <2>3, <3>0, <4>2
      <4>3. CASE k = "erase" /\ i # 0
        <5>1. lshown # << >> /\ Len(lshown) = i
          BY <1>1, <1>4, <2>5, <3>0, <4>3
        <5> QED
          BY <1>1, <2>3, <2>4, <4>3, <5>1
      <4> QED
        BY <1>8, <4>1, <4>2, <4>3
    <3>3. ASSUME NEW j \in Index, j < i' PROVE buffer'[j] = lshown'[j + 1]
      <4>1. j < i /\ j + 1 \in 1 .. i'
        BY <1>1, <2>1, <3>3
      <4> QED
        BY <1>4, <2>1, <3>0, <3>2, <4>1
    <3>4. \A j \in Index :
            IF script'.st = "got" /\ j = i' THEN buffer'[j] = Newline
            ELSE IF j < far' THEN buffer'[j] \in Printable ELSE buffer'[j] = Nul
      BY <1>4, <2>1, <3>0, <3>1
    <3> QED
      BY <3>1, <3>2, <3>3, <3>4 DEF Clean
  <2>8. "erased" \in odd'
    BY <2>1
  <2>9. odd' \subseteq {"erased", "unprintable"} /\ odd' # {"unprintable"}
    BY <1>1, <2>8, <2>1
  <2> QED
    BY <2>1, <2>2, <2>6, <2>7, <2>8, <2>9 DEF LInv
<1> QED
  BY <1>5, <1>6, <1>7, <1>8, Signs

LEMMA NextLInv == ASSUME IInv, LInv, [Next]_vars PROVE LInv'
<1>1. CASE ThreadStarts
  <2>1. UNCHANGED luaVars /\ script.st # "got" /\ script'.st # "got"
    BY <1>1 DEF ThreadStarts, IInv, ScriptOK
  <2> QED
    BY <2>1, SameLInv
<1>2. CASE ThreadEnds
  <2>1. UNCHANGED luaVars /\ script.st # "got" /\ script'.st # "got"
    BY <1>2 DEF ThreadEnds, IInv, ScriptOK
  <2> QED
    BY <2>1, SameLInv
<1>3. CASE ShellKey
  <2>1. \/ \E kind \in {"file", "luai"} : \E arg \in {get_arg(CommandLine, 1), << >>} : StartScript(kind, arg)
        \/ UNCHANGED <<thread_created, script, clashes, luaVars>>
    <3>1. LuaName # LuaiName
      BY ShellAssumption
    <3>2. call_command(CommandLine) \/ UNCHANGED <<thread_created, script, clashes, luaVars>>
      BY <1>3 DEF ShellKey
    <3> QED
      BY <3>1, <3>2 DEF call_command
  <2>2. ASSUME NEW kind, NEW arg, StartScript(kind, arg) PROVE LInv'
    <3>1. NewLuaLine /\ script'.st = "ready"
      BY <2>2 DEF StartScript
    <3> QED
      BY <3>1, NewLInv
  <2>3. CASE UNCHANGED <<thread_created, script, clashes, luaVars>>
    BY <2>3, SameLInv
  <2> QED
    BY <2>1, <2>2, <2>3
<1>4. CASE LuaGetsKey
  <2>1. /\ script.st = "running" /\ i < MAXINPUT /\ Head(input) \in Key
    BY <1>4, KeyTaken DEF LuaGetsKey, LuaReads, IInv
  <2> DEFINE k == Head(input)
  <2>2. script'.st = CASE k = "ctrl-c" -> "ended"
                       [] k = Newline \/ i' = MAXINPUT -> "got"
                       [] OTHER -> "running"
    BY <1>4 DEF LuaGetsKey, IInv, ScriptOK
  <2>3. CASE k = "ctrl-c"
    <3>1. NewLuaLine /\ script'.st = "ended"
      <4>1. NewLuaLine
        BY <1>4, <2>3 DEF LuaGetsKey
      <4>2. i' # MAXINPUT
        BY <4>1, Consts DEF NewLuaLine
      <4>3. script'.st = "ended"
        BY <2>2, <2>3, <4>2 DEF Newline
      <4> QED
        BY <4>1, <4>3
    <3> QED
      BY <3>1, NewLInv
  <2>4. CASE k # "ctrl-c"
    <3>1. LuaKey(k)
      BY <1>4, <2>4 DEF LuaGetsKey
    <3>2. script'.st = IF k = Newline \/ i' = MAXINPUT THEN "got" ELSE "running"
      BY <2>2, <2>4
    <3> HIDE DEF k
    <3> QED
      BY <3>1, <3>2, <2>1, <2>4, KeyLInv DEF k
  <2> QED
    BY <2>3, <2>4
<1>5. CASE LuaRunsLine
  <2>1. NewLuaLine /\ script'.st = "running"
    BY <1>5 DEF LuaRunsLine, IInv, ScriptOK
  <2> QED
    BY <2>1, NewLInv
<1>6. CASE (\E k \in Key : Type(k)) \/ UNCHANGED vars
  <2>1. UNCHANGED luaVars /\ script' = script
    BY <1>6 DEF Type, vars, luaVars
  <2> QED
    BY <2>1, SameLInv
<1> QED
  BY <1>1, <1>2, <1>3, <1>4, <1>5, <1>6 DEF Next

(* What lua_pushstring takes, by the place of the first NUL.               *)
LEMMA TakenShape ==
  ASSUME LuaOK, NEW p \in 0 .. MAXINPUT, \A j \in 0 .. p - 1 : buffer[j] # Nul,
         p < MAXINPUT => buffer[p] = Nul
  PROVE  /\ Taken \in Seq(Printable \cup {Newline, Nul, Beyond})
         /\ Len(Taken) = IF p < MAXINPUT THEN p ELSE p + 1
         /\ \A k \in 1 .. p : Taken[k] = buffer[k - 1]
<1> DEFINE stops == {k \in 0 .. MAXINPUT : k = MAXINPUT \/ buffer[k] = Nul}
           stop == CHOOSE k \in stops : \A j \in stops : k <= j
           text == [k \in 1 .. stop |-> buffer[k - 1]]
           All == Printable \cup {Newline, Nul, Beyond}
<1>1. MAXINPUT \in Nat /\ p \in Nat /\ stops \subseteq Nat /\ p \in stops
  BY Consts
<1>2. stop \in stops /\ \A j \in stops : stop <= j
  <2> HIDE DEF stops
  <2>1. \E k \in stops : \A j \in stops : k <= j
    BY <1>1, LeastOf
  <2> QED
    BY <2>1, Zenon
<1> HIDE DEF stop
<1>3. stop \in 0 .. MAXINPUT /\ (stop = MAXINPUT \/ buffer[stop] = Nul)
  BY <1>2
<1>4. stop = p
  <2>1. stop <= p
    BY <1>1, <1>2
  <2>2. ASSUME stop < p PROVE FALSE
    <3>1. stop \in 0 .. p - 1 /\ stop # MAXINPUT
      BY <2>2, <1>1, <1>3
    <3> QED
      BY <3>1, <1>3
  <2> QED
    BY <2>1, <2>2, <1>1, <1>3
<1>5. text \in Seq(All) /\ Len(text) = p /\ \A k \in 1 .. p : text[k] = buffer[k - 1]
  <2>1. \A k \in 1 .. stop : buffer[k - 1] \in All
    <3>1. \A k \in 1 .. stop : k - 1 \in 0 .. MAXINPUT - 1
      BY <1>1, <1>3
    <3> QED
      BY <3>1 DEF LuaOK
  <2> QED
    BY <2>1, <1>3, <1>4
<1>6. Taken = IF stop = MAXINPUT THEN Append(text, Beyond) ELSE text
  BY DEF Taken, stop
<1> HIDE DEF text, stops
<1>7. /\ Taken \in Seq(All)
      /\ Len(Taken) = IF stop = MAXINPUT THEN p + 1 ELSE p
      /\ \A k \in 1 .. p : Taken[k] = text[k]
  BY <1>1, <1>5, <1>6
<1> QED
  BY <1>1, <1>4, <1>5, <1>7

(* A sequence begins another one, when it does so at each place.           *)
LEMMA Beginning ==
  ASSUME NEW S, NEW s \in Seq(S), NEW t \in Seq(S), Len(s) <= Len(t),
         \A k \in 1 .. Len(s) : s[k] = t[k]
  PROVE  IsPrefix(s, t)
<1>1. Len(s) \in Nat /\ Len(t) \in Nat
  OBVIOUS
<1> DEFINE x == SubSeq(s, 1, Len(s))
           y == SubSeq(t, 1, Len(s))
<1>2. /\ x \in Seq(S) /\ Len(x) = Len(s) /\ \A k \in 1 .. Len(s) : x[k] = s[k]
      /\ y \in Seq(S) /\ Len(y) = Len(s) /\ \A k \in 1 .. Len(s) : y[k] = t[k]
  BY <1>1
<1> HIDE DEF x, y
<1>3. /\ DOMAIN x = 1 .. Len(s) /\ DOMAIN y = 1 .. Len(s)
      /\ x = [k \in DOMAIN x |-> x[k]] /\ y = [k \in DOMAIN y |-> y[k]]
  BY <1>2
<1>4. x = y
  BY <1>2, <1>3
<1> QED
  BY <1>4 DEF IsPrefix, x, y

LEMMA SameSequence ==
  ASSUME NEW S, NEW s \in Seq(S), NEW t \in Seq(S), Len(s) = Len(t),
         \A k \in 1 .. Len(s) : s[k] = t[k]
  PROVE  s = t
<1>1. /\ DOMAIN s = 1 .. Len(s) /\ DOMAIN t = 1 .. Len(s)
      /\ s = [k \in DOMAIN s |-> s[k]] /\ t = [k \in DOMAIN t |-> t[k]]
  OBVIOUS
<1> QED
  BY <1>1

(* What Lua is given for a line, from what my_fgets leaves in the buffer:  *)
(* the line shown and nothing else, exactly if at most one erased          *)
(* character was not typed over and there is room for a NUL; a beginning   *)
(* of the line if there were keys that do not print and none that erases.  *)
THEOREM LuaLineCorrect == Spec => []LuaTakesShown
<1>1. ASSUME IInv, LInv PROVE LuaTakesShown
  <2> SUFFICES ASSUME script.st = "got"
               PROVE  /\ "unprintable" \notin odd =>
                           /\ IsPrefix(LuaLine, Taken)
                           /\ Taken = LuaLine <=> far <= i + 1 /\ i < MAXINPUT - 1
                      /\ odd = {"unprintable"} => IsPrefix(Taken, lshown)
    BY DEF LuaTakesShown
  <2> DEFINE All == Printable \cup {Newline, Nul, Beyond}
  <2>1. /\ MAXINPUT \in Nat /\ i \in 0 .. MAXINPUT /\ i \in Nat /\ far \in Nat /\ LuaOK
        /\ lshown \in Seq(Printable) /\ lshown \in Seq(All) /\ Len(lshown) \in Nat
    <3>1. lshown \in Seq(Printable) /\ far \in Nat
      BY <1>1 DEF LInv
    <3> QED
      BY <1>1, <3>1, Consts DEF IInv, LuaOK
  <2>2. ASSUME odd = {"unprintable"} PROVE IsPrefix(Taken, lshown)
    <3>1. PICK p \in Index : /\ p < i /\ p <= Len(lshown) /\ buffer[p] = Nul
                             /\ \A j \in 0 .. p - 1 : buffer[j] \in Printable /\ lshown[j + 1] = buffer[j]
      BY <1>1, <2>2 DEF LInv, Skipped
    <3>2. p \in 0 .. MAXINPUT /\ p \in Nat /\ p < MAXINPUT /\ \A j \in 0 .. p - 1 : buffer[j] # Nul
      BY <2>1, <3>1, Signs DEF Index
    <3>3. Taken \in Seq(All) /\ Len(Taken) = p /\ \A k \in 1 .. p : Taken[k] = buffer[k - 1]
      BY <2>1, <3>1, <3>2, TakenShape
    <3>4. \A k \in 1 .. p : Taken[k] = lshown[k]
      <4> TAKE k \in 1 .. p
      <4>1. k - 1 \in 0 .. p - 1 /\ (k - 1) + 1 = k
        BY <3>2
      <4> QED
        BY <3>1, <3>3, <4>1
    <3> HIDE DEF All
    <3> QED
      BY <2>1, <3>1, <3>3, <3>4, Beginning
  <2>3. ASSUME "unprintable" \notin odd
        PROVE  /\ IsPrefix(LuaLine, Taken)
               /\ Taken = LuaLine <=> far <= i + 1 /\ i < MAXINPUT - 1
    <3>1. /\ i <= far /\ far <= MAXINPUT /\ Len(lshown) = i
          /\ \A j \in Index : j < i => buffer[j] = lshown[j + 1]
          /\ \A j \in Index : IF j = i THEN buffer[j] = Newline
                             ELSE IF j < far THEN buffer[j] \in Printable ELSE buffer[j] = Nul
      BY <1>1, <2>3 DEF LInv, Clean
    <3> DEFINE n == IF i < MAXINPUT THEN i + 1 ELSE i
    <3>2. PICK p \in 0 .. MAXINPUT : p = IF far > n THEN far ELSE n
      BY <2>1, <3>1
    <3>3. /\ p \in Nat /\ n \in Nat /\ n <= p /\ far <= p
          /\ p = n <=> far <= n
      BY <2>1, <3>1, <3>2
    <3>4. \A j \in 0 .. p - 1 : buffer[j] # Nul
      <4> TAKE j \in 0 .. p - 1
      <4>1. j \in Index /\ j \in Nat /\ (j < far \/ j = i)
        BY <2>1, <3>1, <3>2, <3>3 DEF Index
      <4> QED
        BY <3>1, <4>1, Signs
    <3>5. p < MAXINPUT => buffer[p] = Nul
      <4> SUFFICES ASSUME p < MAXINPUT PROVE buffer[p] = Nul
        OBVIOUS
      <4>1. p \in Index /\ p # i /\ ~(p < far)
        BY <2>1, <3>1, <3>2, <3>3 DEF Index
      <4> QED
        BY <3>1, <4>1
    <3>6. /\ Taken \in Seq(All) /\ Len(Taken) = (IF p < MAXINPUT THEN p ELSE p + 1)
          /\ \A k \in 1 .. p : Taken[k] = buffer[k - 1]
      BY <2>1, <3>4, <3>5, TakenShape
    <3>7. LuaLine \in Seq(All) /\ Len(LuaLine) = n /\ \A k \in 1 .. n : LuaLine[k] = buffer[k - 1]
      <4>1. \A k \in 1 .. i : lshown[k] = buffer[k - 1]
        <5> TAKE k \in 1 .. i
        <5>1. k - 1 \in Index /\ k - 1 < i /\ (k - 1) + 1 = k
          BY <2>1 DEF Index
        <5> QED
          BY <3>1, <5>1
      <4>2. CASE i < MAXINPUT
        <5>1. i \in Index /\ buffer[i] = Newline
          BY <2>1, <3>1, <4>2 DEF Index
        <5>2. LuaLine = Append(lshown, Newline) /\ n = i + 1
          BY <4>2 DEF LuaLine
        <5>3. /\ LuaLine \in Seq(All) /\ Len(LuaLine) = i + 1 /\ LuaLine[i + 1] = Newline
              /\ \A k \in 1 .. i : LuaLine[k] = lshown[k]
          BY <2>1, <3>1, <5>2
        <5>4. ASSUME NEW k \in 1 .. n PROVE LuaLine[k] = buffer[k - 1]
          <6>1. k \in 1 .. i \/ (k = i + 1 /\ k - 1 = i)
            BY <2>1, <5>2
          <6> QED
            BY <4>1, <5>1, <5>3, <6>1
        <5> QED
          BY <5>2, <5>3, <5>4
      <4>3. CASE ~(i < MAXINPUT)
        BY <2>1, <3>1, <4>1, <4>3 DEF LuaLine
      <4> QED
        BY <4>2, <4>3
    <3>8. Len(Taken) \in Nat /\ n <= Len(Taken) /\ \A k \in 1 .. n : LuaLine[k] = Taken[k]
      BY <3>3, <3>6, <3>7
    <3>9. Len(Taken) = n <=> far <= i + 1 /\ i < MAXINPUT - 1
      BY <2>1, <3>1, <3>2, <3>3, <3>6
    <3> HIDE DEF All, n
    <3>10. IsPrefix(LuaLine, Taken)
      BY <3>6, <3>7, <3>8, Beginning
    <3>11. Len(Taken) = n => Taken = LuaLine
      BY <3>6, <3>7, <3>8, SameSequence
    <3>12. Taken = LuaLine => Len(Taken) = n
      BY <3>7
    <3> QED
      BY <3>9, <3>10, <3>11, <3>12
  <2> QED
    BY <2>2, <2>3
<1>2. Init => LInv
  <2> SUFFICES ASSUME Init PROVE LInv
    OBVIOUS
  <2>1. /\ odd = {} /\ i = 0 /\ far = 0 /\ lshown = << >> /\ buffer = [k \in Index |-> Nul]
        /\ script.st = "ended" /\ MAXINPUT \in Nat
    BY Consts DEF Init, Empty, NoScript, Index
  <2>2. Len(<< >>) = 0 /\ << >> \in Seq(Printable)
    OBVIOUS
  <2>3. Clean
    BY <2>1, <2>2 DEF Clean, Index
  <2> QED
    BY <2>1, <2>2, <2>3 DEF LInv
<1>3. Spec => [](IInv /\ LInv)
  <2>1. IInv /\ LInv /\ [Next]_vars => IInv' /\ LInv'
    BY NextIInv, NextLInv
  <2> QED
    BY <2>1, <1>2, InitIInv, PTL DEF Spec
<1> QED
  BY <1>1, <1>3, PTL
=============================================================================
