------------------------------ MODULE Mtshell -------------------------------
(***************************************************************************)
(* The shell on the serial console (apps/mtshell): the line editor of      *)
(* shell_thread, get_arg, and the two commands that start a Lua thread in  *)
(* the one thread record and on the one stack they share: "lua FILE" in    *)
(* the background and "luai", the interactive Lua, which reads the same    *)
(* console with a line editor of its own, my_fgets.                        *)
(*                                                                         *)
(* A line is the first i characters of command_buf: what lies behind is    *)
(* never used, and the history is never written, so that an arrow key puts *)
(* an empty line there.  Other commands run to their end inside the shell. *)
(***************************************************************************)
EXTENDS Integers, Sequences, FiniteSets, SequencesExt

CONSTANTS
  Letter,        \* characters a word is made of
  COM_BUF_LEN, ARG_SIZE, MAXINPUT,
  LuaName, LuaiName,     \* the words "lua" and "luai"
  AHEAD,         \* keys the serial driver holds for the readers
  Hasty          \* the user types on before a script has started, and
                 \* starts one while the interactive Lua runs

Space == " "
Newline == "enter"
Nul == "nul"                  \* what memset left; also of an unprintable key
Beyond == "beyond"            \* what lies behind a buffer
Printable == Letter \cup {Space, "A", "["}
Control == {"erase", "kill", "ctrl-p", "ctrl-c", Newline}
Key == Printable \cup Control

ASSUME ShellAssumption ==
  /\ COM_BUF_LEN \in 1 .. 253      \* i is an unsigned char
  /\ ARG_SIZE \in Nat \ {0} /\ MAXINPUT \in Nat \ {0} /\ AHEAD \in Nat \ {0}
  /\ Letter \cap (Control \cup {Space, "A", "[", Nul, Beyond}) = {}
  /\ LuaName \in Seq(Letter) /\ LuaiName \in Seq(Letter) /\ LuaName # LuaiName
  /\ Hasty \in BOOLEAN

VARIABLES
  input,         \* keys typed and not read yet
  line,          \* command_buf[0 .. i-1]
  shown,         \* what the screen shows of it
  thread_created,
  script,        \* the thread in l_ti: what it runs, its argument, its state
  clashes,       \* times l_ti was handed to the kernel while in use
  buffer, i,     \* of my_fgets
  lshown,        \* what the screen shows of Lua's line
  odd,           \* (history) what else was typed: erasing keys, unprintable ones
  far            \* (history) how far i has been in this line

vars == <<input, line, shown, thread_created, script, clashes, buffer, i, lshown, odd, far>>
shellVars == <<line, shown>>
luaVars == <<buffer, i, lshown, odd, far>>

NoScript == [kind |-> "none", arg |-> << >>, st |-> "ended"]
Empty == [k \in 0 .. MAXINPUT - 1 |-> Nul]

Init ==
  /\ input = << >> /\ line = << >> /\ shown = << >>
  /\ thread_created = FALSE /\ script = NoScript /\ clashes = 0
  /\ buffer = Empty /\ i = 0 /\ lshown = << >> /\ odd = {} /\ far = 0

-----------------------------------------------------------------------------
(* get_arg: the characters between two spaces, or an end of the line, of   *)
(* which num others lie before; ARG_SIZE of them at most.                  *)

Ends(str) == {k \in 1 .. Len(str) + 1 : k = Len(str) + 1 \/ str[k] = Space}
EndOf(str, num) ==
  {k \in Ends(str) : Cardinality({j \in Ends(str) : j < k}) = num}

get_arg(str, num) ==
  IF EndOf(str, num) = {} THEN << >>
  ELSE LET end == CHOOSE k \in EndOf(str, num) : TRUE
           before == {j \in Ends(str) : j < end}
           offset == 1 + (IF before = {} THEN 0
                          ELSE CHOOSE j \in before : \A k \in before : k <= j)
           n == IF end - offset < ARG_SIZE THEN end - offset ELSE ARG_SIZE
       IN SubSeq(str, offset, offset + n - 1)

-----------------------------------------------------------------------------
(* The Lua thread.                                                         *)

(* A slip the properties catch: the buffer is not cleared.                 *)
NewLuaLineStale == UNCHANGED buffer /\ i' = 0 /\ lshown' = << >> /\ odd' = {} /\ far' = 0

NewLuaLine == buffer' = Empty /\ i' = 0 /\ lshown' = << >> /\ odd' = {} /\ far' = 0

Live == script.st # "ended"

(* A slip the properties catch: a thread that is running is not deleted.   *)
StartScriptAnyway(kind, arg) ==
  /\ clashes' = IF Live THEN clashes + 1 ELSE clashes
  /\ thread_created' = FALSE
  /\ script' = [kind |-> kind, arg |-> arg, st |-> "ready"]
  /\ NewLuaLine

(* lua_func_bg and luaint_func: delete the thread of the last command, if  *)
(* it has started, and start anew in its record.                           *)
StartScript(kind, arg) ==
  /\ clashes' = IF Live /\ ~thread_created THEN clashes + 1 ELSE clashes
  /\ thread_created' = FALSE
  /\ script' = [kind |-> kind, arg |-> arg, st |-> "ready"]
  /\ NewLuaLine

(* call_command                                                            *)
call_command(str) ==
  CASE get_arg(str, 0) = LuaName -> StartScript("file", get_arg(str, 1))
    [] get_arg(str, 0) = LuaiName -> StartScript("luai", << >>)
    [] OTHER -> UNCHANGED <<thread_created, script, clashes, luaVars>>

(* The thread runs: luai, of priority 10, before the shell goes on; a      *)
(* script, of priority 29, when the shell waits for a key.  A script       *)
(* without a file name is over at once.                                    *)
ThreadStarts ==
  /\ script.st = "ready"
  /\ script.kind = "luai" \/ input = << >>
  /\ thread_created' = TRUE
  /\ script' = [script EXCEPT !.st = IF script.kind = "file" /\ script.arg = << >>
                                     THEN "ended" ELSE "running"]
  /\ UNCHANGED <<input, shellVars, clashes, luaVars>>

ThreadEnds ==
  /\ script.kind = "file" /\ script.st = "running"
  /\ script' = [script EXCEPT !.st = "ended"]
  /\ UNCHANGED <<input, shellVars, thread_created, clashes, luaVars>>

-----------------------------------------------------------------------------
(* The loop of shell_thread.                                               *)

ShellRuns == ~(script.kind = "luai" /\ script.st \in {"ready", "got"})

(* The key is stored and echoed when the buffer has room.                  *)
Store(k) == line' = Append(line, k) /\ shown' = Append(shown, k)

(* A slip the properties catch: two spaces in a row are kept.              *)
SpaceKeyTwice ==
  IF line = << >> \/ Len(line) > COM_BUF_LEN
  THEN UNCHANGED shellVars ELSE Store(Space)

SpaceKey ==
  IF line = << >> \/ Len(line) > COM_BUF_LEN \/ Last(line) = Space
  THEN UNCHANGED shellVars ELSE Store(Space)

(* A slip the properties catch: the room is not looked at.                 *)
LetterKeyAlways(k) == Store(k)

LetterKey(k) == IF Len(line) < COM_BUF_LEN THEN Store(k) ELSE UNCHANGED shellVars

(* A slip the properties catch: the character stays in the buffer.         *)
EraseKeyShown ==
  /\ line' = line
  /\ shown' = IF shown = << >> THEN shown ELSE Front(shown)

EraseKey ==
  IF line = << >> THEN UNCHANGED shellVars
  ELSE line' = Front(line) /\ shown' = Front(shown)

(* One backspace for each character, then an entry of the empty history or *)
(* nothing.                                                                *)
ClearLine == line' = << >> /\ shown' = SubSeq(shown, 1, Len(shown) - Len(line))

(* The line Enter hands to call_command.                                   *)
CommandLine == IF Last(line) = Space THEN Front(line) ELSE line

EnterKey == line' = << >> /\ shown' = << >>

ShellKey ==
  /\ ShellRuns /\ input # << >>
  /\ input' = Tail(input)
  /\ LET k == Head(input)
     IN /\ CASE k = Space -> SpaceKey
             [] k \in Letter -> LetterKey(k)
             [] k = "erase" -> EraseKey
             [] k \in {"kill", "ctrl-p", "A"} -> ClearLine
             [] k = Newline -> EnterKey
             [] OTHER -> UNCHANGED shellVars
        /\ IF k = Newline /\ line # << >>
           THEN call_command(CommandLine)
           ELSE UNCHANGED <<thread_created, script, clashes, luaVars>>

-----------------------------------------------------------------------------
(* my_fgets, called by the interactive Lua.  Characters that were erased   *)
(* stay in the buffer behind the new line's end; a key that is not         *)
(* printable leaves a NUL in it.                                           *)

LuaReads == script.kind = "luai" /\ script.st = "running" /\ i < MAXINPUT

(* The screen loses a character for each step back, if it has one.         *)
LuaKey(k) ==
  /\ buffer' = IF k \in Printable \cup {Newline} THEN [buffer EXCEPT ![i] = k] ELSE buffer
  /\ i' = CASE k = Newline -> i
            [] k = "kill" -> 0
            [] k = "erase" -> IF i = 0 THEN 0 ELSE i - 1
            [] OTHER -> i + 1
  /\ lshown' = CASE k \in Printable -> Append(lshown, k)
                 [] k = "kill" -> << >>
                 [] k = "erase" -> IF i = 0 \/ lshown = << >> THEN lshown ELSE Front(lshown)
                 [] OTHER -> lshown
  /\ odd' = odd \cup CASE k \in {"erase", "kill"} -> {"erased"}
                      [] k = "ctrl-p" -> {"unprintable"}
                      [] OTHER -> {}
  /\ far' = IF i' > far THEN i' ELSE far

LuaGetsKey ==
  /\ LuaReads /\ input # << >>
  /\ input' = Tail(input)
  /\ IF Head(input) = "ctrl-c" THEN NewLuaLine ELSE LuaKey(Head(input))
  /\ script' = [script EXCEPT !.st =
                  CASE Head(input) = "ctrl-c" -> "ended"
                    [] Head(input) = Newline \/ i' = MAXINPUT -> "got"
                    [] OTHER -> "running"]
  /\ UNCHANGED <<shellVars, thread_created, clashes>>

(* What lua_pushstring takes of the buffer: up to a NUL, or further than   *)
(* the buffer reaches.                                                     *)
Taken ==
  LET stops == {k \in 0 .. MAXINPUT : k = MAXINPUT \/ buffer[k] = Nul}
      stop == CHOOSE k \in stops : \A j \in stops : k <= j
      text == [k \in 1 .. stop |-> buffer[k - 1]]
  IN IF stop = MAXINPUT THEN Append(text, Beyond) ELSE text

(* Lua runs the line and calls my_fgets for the next one.                  *)
LuaRunsLine ==
  /\ script.st = "got"
  /\ script' = [script EXCEPT !.st = "running"]
  /\ NewLuaLine
  /\ UNCHANGED <<input, shellVars, thread_created, clashes>>

-----------------------------------------------------------------------------

(* A user who is not hasty waits for a script to start, and leaves the     *)
(* interactive Lua before giving the shell another line.                   *)
Type(k) ==
  /\ Len(input) < AHEAD
  /\ Hasty \/ (input = << >> /\ script.st # "ready")
  /\ input' = Append(input, k)
  /\ UNCHANGED <<shellVars, thread_created, script, clashes, luaVars>>

Next ==
  \/ ThreadStarts \/ ThreadEnds \/ ShellKey \/ LuaGetsKey \/ LuaRunsLine
  \/ \E k \in Key : Type(k)

Spec == Init /\ [][Next]_vars

-----------------------------------------------------------------------------

TypeOK ==
  /\ input \in Seq(Key) /\ Len(input) <= AHEAD
  /\ line \in Seq(Letter \cup {Space}) /\ Len(line) <= COM_BUF_LEN + 1
  /\ thread_created \in BOOLEAN /\ clashes \in Nat
  /\ script.kind \in {"none", "file", "luai"}
  /\ script.st \in {"ready", "running", "got", "ended"}
  /\ buffer \in [0 .. MAXINPUT - 1 -> Printable \cup {Newline, Nul}]
  /\ i \in 0 .. MAXINPUT

(* The screen shows the line the shell will run, whatever keys built it.   *)
ScreenIsLine == shown = line

(* "Don't allow continuous or begin space(' ')" (mtshell.c): the command   *)
(* line is words with single spaces between them, so that get_arg finds    *)
(* the n-th word and never an empty one; it cuts those longer than         *)
(* ARG_SIZE.                                                               *)
LineIsWords ==
  line # << >> =>
    /\ Len(CommandLine) <= COM_BUF_LEN
    /\ \A n \in 0 .. COM_BUF_LEN + 1 :
         LET word == get_arg(CommandLine, n)
         IN /\ (n < Cardinality(Ends(CommandLine))) = (word # << >>)
            /\ \A k \in 1 .. Len(word) : word[k] \in Letter

(* The one thread record and stack are never given to the kernel while a   *)
(* thread that was not deleted still uses them.                            *)
OneScript == clashes = 0

(* What Lua is given for a line (lua_funcs.c:92-103, 122, 180).            *)
(* Without keys that do not print, it is the line on the screen and        *)
(* nothing more exactly if at most one of the characters typed in this     *)
(* line and erased was not typed over, and the buffer has room for a NUL.  *)
(* Else the other erased characters stand behind the newline, and Lua runs *)
(* them as lines that nobody sees, or the text goes on behind the buffer.  *)
(* With keys that do not print and without erasing ones, it is a beginning *)
(* of the line on the screen.  With both, erased characters come back in   *)
(* the midst of the line, and nothing is claimed.                          *)
LuaLine == IF i < MAXINPUT THEN Append(lshown, Newline) ELSE lshown
LuaTakesShown ==
  script.st = "got" =>
    /\ "unprintable" \notin odd =>
         /\ IsPrefix(LuaLine, Taken)
         /\ Taken = LuaLine <=> far <= i + 1 /\ i < MAXINPUT - 1
    /\ odd = {"unprintable"} => IsPrefix(Taken, lshown)
=============================================================================
