----------------------------- MODULE LuaThreads -----------------------------
(***************************************************************************)
(* Lua threads on eCos threads (packages/services/lua: lib/lthreadlib.c    *)
(* and lua-ecos.c).  One mutex serialises the Lua machine: byte code runs  *)
(* with it, a C function runs without it and takes it for each call of the *)
(* Lua API.  A new thread's Lua state is kept from the garbage collector   *)
(* by a slot of the registry, which lua_ref takes and lua_unref gives back *)
(* in several such calls; a thread that has finished puts itself on a list *)
(* from which others delete it.                                            *)
(*                                                                         *)
(* The program is the main script, which creates, resumes and closes, and  *)
(* its children.  "Careless" scripts also create threads while others run, *)
(* or close before the others have finished.                               *)
(***************************************************************************)
EXTENDS Integers, Sequences, FiniteSets

CONSTANTS
  Child,         \* the threads the script creates
  MAXREF,        \* slots of the registry (the heap, in the code)
  Careless       \* what the script may do: "create", "close"

Main == "main"
Nobody == "nobody"
Arg == "arg"                  \* the function and the table handed to a thread
None == "none"
Slot == 1 .. MAXREF
Thread == Child \cup {Main}

ASSUME ThreadAssumption ==
  /\ MAXREF \in Nat \ {0}
  /\ {Main, Nobody, Arg, None} \cap Child = {}
  /\ Careless \subseteq {"create", "close"}

VARIABLES
  pc,            \* thread to the next thing it does
  mutex,         \* owner of state->mutex
  registry,      \* slot to the value in it
  freelist,      \* registry[FREELIST_REF]
  count,         \* slots in use or on the free list (luaL_getn)
  terminated,    \* the list terminated_threads, head first
  thread,        \* children whose state->thread is not NULL
  alive,         \* children whose Lua state is allocated
  ref,           \* child to the slot its creator got for it
  local          \* thread to the locals of lua_ref, lua_unref, e_thread_new

vars == <<pc, mutex, registry, freelist, count, terminated, thread, alive,
          ref, local>>

(* Values of the registry: a number, which is a link of the free list (nil *)
(* reads as 0), or an object.                                              *)
Number(n) == [obj |-> None, num |-> n]
Object(o) == [obj |-> o, num |-> 0]
Value == [obj : Child \cup {Arg, None}, num : 0 .. MAXREF]

InRef == {"ref", "link", "pop", "getn", "setn", "put"}
InUnref == {"unref", "store", "push"}
Listed == InUnref \cup {"exit"}     \* of a child: what follows the listing

Init ==
  /\ pc = [t \in Thread |-> IF t = Main THEN "vm" ELSE "none"]
  /\ mutex = Nobody
  /\ registry = [s \in Slot |-> Number(0)] /\ freelist = Number(0) /\ count = 0
  /\ terminated = << >> /\ thread = {} /\ alive = {}
  /\ ref = [c \in Child |-> 0]
  /\ local = [t \in Thread |-> [slot |-> 0, link |-> Number(0), child |-> None, todo |-> 0]]

-----------------------------------------------------------------------------

Goto(t, l) == pc' = [pc EXCEPT ![t] = l]

(* lua_lock at the start of an API call, or on the return of a C function. *)
NeedsMutex == {"vm", "newthread"} \cup InRef \cup {"settop", "newuserdata"} \cup InUnref

Lock(t) ==
  /\ pc[t] \in NeedsMutex
  /\ mutex = Nobody /\ mutex' = t
  /\ UNCHANGED <<pc, registry, freelist, count, terminated, thread, alive, ref, local>>

(* An API call of t, with what it does besides the mutex.                  *)
Api(t, at) == pc[t] = at /\ mutex = t /\ mutex' = Nobody

-----------------------------------------------------------------------------
(* lua_ecosfreeterminatedthreads: with the scheduler locked, delete the    *)
(* threads at the head of the list until the caller's own is there.        *)

StopsAt(t, n) ==
  /\ \A k \in 1 .. n : terminated[k] # t
  /\ n < Len(terminated) => terminated[n + 1] = t

Delete(n, t, l) ==
  pc' = [u \in Thread |-> IF \E k \in 1 .. n : terminated[k] = u THEN "deleted"
                         ELSE IF u = t THEN l ELSE pc[u]]

(* A slip the properties catch: the list keeps what it has freed.          *)
FreeKeepingList(t, l) ==
  \E n \in 0 .. Len(terminated) : StopsAt(t, n) /\ Delete(n, t, l) /\ UNCHANGED terminated

FreeTerminatedThreads(t, l) ==
  \E n \in 0 .. Len(terminated) :
    /\ StopsAt(t, n) /\ Delete(n, t, l)
    /\ terminated' = SubSeq(terminated, n + 1, Len(terminated))

(* What the collector keeps when thread t runs it: the states in the       *)
(* registry, the running one, and those on the stack of their creator.     *)
Anchored(t) ==
  {c \in Child : \/ c = t
                 \/ freelist.obj = c \/ \E s \in Slot : registry[s].obj = c
                 \/ local[Main].child = c /\ pc[Main] \in InRef \cup {"free", "settop"}}

(* luaC_collectgarbage; each state it frees calls lua_ecosuserstateclose.  *)
Collect(t) ==
  /\ mutex = t /\ pc[t] = "vm"
  /\ LET dead == alive \ Anchored(t)
     IN /\ dead # {}
        /\ alive' = alive \ dead
        /\ FreeTerminatedThreads(t, "vm")
  /\ UNCHANGED <<mutex, registry, freelist, count, thread, ref, local>>

-----------------------------------------------------------------------------
(* lua_ref, one API call after the other.  Two threads in it, or in        *)
(* lua_unref, at a time interleave between these calls.                    *)

SetLocal(t, f) == local' = [local EXCEPT ![t] = f]

RefRead(t) ==
  /\ Api(t, "ref")
  /\ SetLocal(t, [local[t] EXCEPT !.slot = freelist.num])
  /\ Goto(t, IF freelist.num # 0 THEN "link" ELSE "getn")
  /\ UNCHANGED <<registry, freelist, count, terminated, thread, alive, ref>>

RefLink(t) ==
  /\ Api(t, "link")
  /\ SetLocal(t, [local[t] EXCEPT !.link = registry[local[t].slot]])
  /\ Goto(t, "pop")
  /\ UNCHANGED <<registry, freelist, count, terminated, thread, alive, ref>>

(* A slip the properties catch: the slot stays on the free list.           *)
RefPopNothing(t) ==
  /\ Api(t, "pop")
  /\ Goto(t, "put")
  /\ UNCHANGED <<registry, freelist, count, terminated, thread, alive, ref, local>>

RefPop(t) ==
  /\ Api(t, "pop")
  /\ freelist' = local[t].link
  /\ Goto(t, "put")
  /\ UNCHANGED <<registry, count, terminated, thread, alive, ref, local>>

RefGetn(t) ==
  /\ Api(t, "getn") /\ count < MAXREF
  /\ SetLocal(t, [local[t] EXCEPT !.slot = count + 1])
  /\ Goto(t, "setn")
  /\ UNCHANGED <<registry, freelist, count, terminated, thread, alive, ref>>

RefSetn(t) ==
  /\ Api(t, "setn")
  /\ count' = local[t].slot
  /\ Goto(t, "put")
  /\ UNCHANGED <<registry, freelist, terminated, thread, alive, ref, local>>

(* The last call of lua_ref.  In e_thread_new the first object is the new  *)
(* state, then come the table and the function, which move to the child's  *)
(* stack and give their slot back (lua_getref is part of this step).       *)
RefPut(t) ==
  /\ Api(t, "put")
  /\ LET l == local[t]
         first == l.todo = 3
     IN /\ registry' = [registry EXCEPT ![l.slot] = Object(IF first THEN l.child ELSE Arg)]
        /\ ref' = IF first THEN [ref EXCEPT ![l.child] = l.slot] ELSE ref
        /\ SetLocal(t, [l EXCEPT !.todo = @ - 1])
        /\ Goto(t, IF first THEN "settop" ELSE "unref")
  /\ UNCHANGED <<freelist, count, terminated, thread, alive>>

(* lua_unref.                                                              *)
UnrefRead(t) ==
  /\ Api(t, "unref")
  /\ SetLocal(t, [local[t] EXCEPT !.link = freelist])
  /\ Goto(t, "store")
  /\ UNCHANGED <<registry, freelist, count, terminated, thread, alive, ref>>

UnrefStore(t) ==
  /\ Api(t, "store")
  /\ registry' = [registry EXCEPT ![local[t].slot] = local[t].link]
  /\ Goto(t, "push")
  /\ UNCHANGED <<freelist, count, terminated, thread, alive, ref, local>>

UnrefPush(t) ==
  /\ Api(t, "push")
  /\ freelist' = Number(local[t].slot)
  /\ Goto(t, IF t # Main THEN "exit" ELSE IF local[t].todo > 0 THEN "ref" ELSE "newuserdata")
  /\ UNCHANGED <<registry, count, terminated, thread, alive, ref, local>>

-----------------------------------------------------------------------------
(* e_thread_new, called by the main script.                                *)

(* A slip the properties catch: what is left of the last call is kept.     *)
CallNewAgain(c) ==
  /\ Api(Main, "vm") /\ pc[c] = "none"
  /\ SetLocal(Main, [local[Main] EXCEPT !.child = c])
  /\ Goto(Main, "newthread")
  /\ UNCHANGED <<registry, freelist, count, terminated, thread, alive, ref>>

CallNew(c) ==
  /\ Api(Main, "vm") /\ pc[c] = "none"
  /\ "create" \in Careless \/ \A d \in Child : pc[d] \in {"none", "created"}
  /\ SetLocal(Main, [local[Main] EXCEPT !.child = c, !.todo = 3])
  /\ Goto(Main, "newthread")
  /\ UNCHANGED <<registry, freelist, count, terminated, thread, alive, ref>>

NewThread ==
  /\ Api(Main, "newthread")
  /\ alive' = alive \cup {local[Main].child}
  /\ Goto(Main, "free")
  /\ UNCHANGED <<registry, freelist, count, terminated, thread, ref, local>>

FreeAndMalloc ==
  /\ pc[Main] = "free"
  /\ FreeTerminatedThreads(Main, "ref")
  /\ thread' = thread \cup {local[Main].child}
  /\ UNCHANGED <<mutex, registry, freelist, count, alive, ref, local>>

SetTop ==
  /\ Api(Main, "settop")
  /\ Goto(Main, "ref")
  /\ UNCHANGED <<registry, freelist, count, terminated, thread, alive, ref, local>>

CreateThread ==
  /\ Api(Main, "newuserdata")
  /\ pc' = [pc EXCEPT ![Main] = "vm", ![local[Main].child] = "created"]
  /\ UNCHANGED <<registry, freelist, count, terminated, thread, alive, ref, local>>

(* e_thread_resume.                                                        *)
Resume(c) ==
  /\ Api(Main, "vm") /\ pc[c] = "created"
  /\ "create" \in Careless \/ \A d \in Child : pc[d] # "none"
  /\ Goto(c, "vm")
  /\ UNCHANGED <<registry, freelist, count, terminated, thread, alive, ref, local>>

(* Any C function: the mutex is free while it runs.                        *)
CallC(t) ==
  /\ Api(t, "vm")
  /\ UNCHANGED <<pc, registry, freelist, count, terminated, thread, alive, ref, local>>

-----------------------------------------------------------------------------
(* thread_prog: the script of a child ends; it puts itself on the list and *)
(* gives its slot back.                                                    *)

Return(c) ==
  /\ Api(c, "vm")
  /\ Goto(c, "done")
  /\ UNCHANGED <<registry, freelist, count, terminated, thread, alive, ref, local>>

Enlist(c) ==
  /\ pc[c] = "done"
  /\ SetLocal(c, [local[c] EXCEPT !.slot = ref[c]])
  /\ terminated' = <<c>> \o terminated
  /\ thread' = thread \ {c}
  /\ Goto(c, "unref")
  /\ UNCHANGED <<mutex, registry, freelist, count, alive, ref>>

(* lua_close: every state is freed, and with the first one every thread on *)
(* the list; the mutex is destroyed.                                       *)
MayClose ==
  "close" \in Careless \/ \A c \in Child : pc[c] \in {"none", "deleted"} \cup Listed

(* A slip the properties catch: the mutex stays locked.                    *)
LuaCloseLocked ==
  /\ mutex = Main /\ pc[Main] = "vm" /\ MayClose
  /\ alive' = {}
  /\ FreeTerminatedThreads(Main, "closed")
  /\ UNCHANGED <<mutex, registry, freelist, count, thread, ref, local>>

LuaClose ==
  /\ mutex = Main /\ pc[Main] = "vm" /\ MayClose
  /\ alive' = {} /\ mutex' = Nobody
  /\ FreeTerminatedThreads(Main, "closed")
  /\ UNCHANGED <<registry, freelist, count, thread, ref, local>>

(* The script is over; the shell may start the next one.                   *)
Closed == pc[Main] = "closed" /\ UNCHANGED vars

ChildStep(c) == Return(c) \/ Enlist(c)
MainStep ==
  \/ NewThread \/ FreeAndMalloc \/ SetTop \/ CreateThread \/ LuaClose
  \/ \E c \in Child : CallNew(c) \/ Resume(c)
Step(t) ==
  \/ Lock(t) \/ Collect(t) \/ CallC(t)
  \/ RefRead(t) \/ RefLink(t) \/ RefPop(t) \/ RefGetn(t) \/ RefSetn(t) \/ RefPut(t)
  \/ UnrefRead(t) \/ UnrefStore(t) \/ UnrefPush(t)

Next == MainStep \/ Closed \/ (\E c \in Child : ChildStep(c)) \/ \E t \in Thread : Step(t)

Spec == Init /\ [][Next]_vars

-----------------------------------------------------------------------------

TypeOK ==
  /\ pc \in [Thread -> {"none", "created", "done", "deleted", "free", "closed"}
                         \cup NeedsMutex \cup Listed]
  /\ mutex \in Thread \cup {Nobody}
  /\ registry \in [Slot -> Value] /\ freelist \in Value /\ count \in 0 .. MAXREF
  /\ terminated \in Seq(Child) /\ thread \subseteq Child /\ alive \subseteq Child
  /\ ref \in [Child -> 0 .. MAXREF]
  /\ local \in [Thread -> [slot : 0 .. MAXREF, link : Value,
                            child : Child \cup {None}, todo : 0 .. 3]]

(* "reference the lua thread, so it won't get garbage collected"           *)
(* (lthreadlib.c): a child that has been created and has not given its     *)
(* slot back still has its Lua state.                                      *)
NotCollected ==
  \A c \in Child : pc[c] \in {"created", "vm", "done", "unref", "store"} => c \in alive

(* A thread that lua_ecosfreeterminatedthreads may delete has returned     *)
(* from its script, is not deleted yet, is on the list once, and its state *)
(* owns its record no more; and no thread that ends is missing there.      *)
ListWhole ==
  /\ \A j, k \in DOMAIN terminated : terminated[j] = terminated[k] => j = k
  /\ \A k \in DOMAIN terminated : /\ pc[terminated[k]] \in Listed
                                  /\ terminated[k] \notin thread
  /\ \A c \in Child : pc[c] \in Listed => \E k \in DOMAIN terminated : terminated[k] = c

(* The mutex of the Lua machine is never left with a thread that has been  *)
(* deleted: whoever owns it can give it back.                              *)
OwnerCanRelease ==
  mutex # Nobody => pc[mutex] \in NeedsMutex
=============================================================================
