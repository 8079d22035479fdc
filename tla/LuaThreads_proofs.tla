------------------------- MODULE LuaThreads_proofs --------------------------
(***************************************************************************)
(* Lua threads, for any number of children and slots.  Whatever the script *)
(* does, the list of terminated threads stays whole (WholeCorrect).  When  *)
(* it creates all its threads before it resumes the first and closes when  *)
(* they have ended, no state in use is collected (KeptCorrect) and the     *)
(* mutex stays with threads that exist (OwnerCorrect).                     *)
(***************************************************************************)
EXTENDS LuaThreads, TLAPS

(* Where a thread can be, and what its locals hold there.                  *)
Creating == {"newthread", "free", "settop", "newuserdata"} \cup InRef \cup InUnref
ChildAt == {"none", "created", "vm", "done", "deleted"} \cup Listed
MainAt == {"vm", "closed"} \cup Creating

Places ==
  /\ \A c \in Child : pc[c] \in ChildAt
  /\ pc[Main] \in MainAt
  /\ pc[Main] \in Creating => local[Main].child \in Child /\ pc[local[Main].child] = "none"
  /\ pc[Main] \in {"newthread", "free"} => local[Main].todo = 3
  /\ pc[Main] \in InRef \cup {"settop"} => local[Main].todo # 0
  /\ \A t \in Thread : pc[t] = "link" => local[t].slot # 0

IInv == TypeOK /\ Places /\ ListWhole

LEMMA NumberType ==
  ASSUME NEW n \in 0 .. MAXREF
  PROVE  Number(n) \in Value /\ Number(n).num = n /\ Number(n).obj = None
  BY DEF Number, Value

LEMMA InitIInv == Init => IInv
  BY ThreadAssumption, NumberType
  DEF Init, IInv, TypeOK, Places, ListWhole, Thread, Slot, NeedsMutex, InRef, InUnref, Listed,
      Creating, ChildAt, MainAt, Main

(* Deleting the head of the list leaves a list that is whole, and changes  *)
(* nothing but deleted threads and the caller's place.                     *)
LEMMA Freeing ==
  ASSUME TypeOK, Places, ListWhole, NEW t \in Thread, NEW l,
         t \in Child => pc[t] \notin Listed, l \notin Listed,
         FreeTerminatedThreads(t, l)
  PROVE  /\ pc' = [u \in Thread |-> pc'[u]]
         /\ pc'[t] = l
         /\ \A u \in Thread \ {t} : \/ pc'[u] = pc[u]
                                    \/ u \in Child /\ pc[u] \in Listed /\ pc'[u] = "deleted"
         /\ terminated' \in Seq(Child)
         /\ \A j, k \in DOMAIN terminated' : terminated'[j] = terminated'[k] => j = k
         /\ \A k \in DOMAIN terminated' : /\ pc'[terminated'[k]] \in Listed
                                          /\ \E j \in DOMAIN terminated : terminated[j] = terminated'[k]
         /\ \A c \in Child : pc'[c] \in Listed => \E k \in DOMAIN terminated' : terminated'[k] = c
<1>1. PICK n \in 0 .. Len(terminated) :
        /\ StopsAt(t, n) /\ Delete(n, t, l)
        /\ terminated' = SubSeq(terminated, n + 1, Len(terminated))
  BY DEF FreeTerminatedThreads
<1> DEFINE m == Len(terminated) - n
<1>2. terminated \in Seq(Child) /\ Len(terminated) \in Nat /\ n \in Nat
  BY DEF TypeOK
<1>3. /\ terminated' \in Seq(Child) /\ Len(terminated') = m /\ m \in Nat
      /\ \A k \in 1 .. m : terminated'[k] = terminated[n + k]
  <2>1. m \in Nat
    BY <1>2
  <2> QED
    BY <1>1, <1>2, <2>1
<1>4. /\ DOMAIN terminated = 1 .. Len(terminated)
      /\ DOMAIN terminated' = 1 .. m
  BY <1>2, <1>3
<1>5. \A k \in 1 .. Len(terminated) : terminated[k] \in Child /\ terminated[k] # t
  BY <1>2, <1>4 DEF ListWhole
<1>6. /\ pc' = [u \in Thread |-> pc'[u]]
      /\ \A u \in Thread : pc'[u] = IF \E k \in 1 .. n : terminated[k] = u THEN "deleted"
                                    ELSE IF u = t THEN l ELSE pc[u]
  BY <1>1 DEF Delete
<1>7. pc'[t] = l
  BY <1>2, <1>5, <1>6
<1>8. \A k \in 1 .. n : k \in 1 .. Len(terminated) /\ pc[terminated[k]] \in Listed
  BY <1>2, <1>4 DEF ListWhole
<1>9. \A u \in Thread \ {t} : \/ pc'[u] = pc[u]
                              \/ u \in Child /\ pc[u] \in Listed /\ pc'[u] = "deleted"
  BY <1>5, <1>6, <1>8
<1>10. \A j, k \in 1 .. m : terminated'[j] = terminated'[k] => j = k
  <2> SUFFICES ASSUME NEW j \in 1 .. m, NEW k \in 1 .. m, terminated'[j] = terminated'[k]
               PROVE  j = k
    OBVIOUS
  <2>1. n + j \in 1 .. Len(terminated) /\ n + k \in 1 .. Len(terminated)
    BY <1>2, <1>3
  <2>2. terminated[n + j] = terminated[n + k]
    BY <1>3
  <2>3. n + j = n + k
    BY <2>1, <2>2, <1>4 DEF ListWhole
  <2> QED
    BY <2>3, <1>2
<1>11. ASSUME NEW k \in 1 .. m
       PROVE  /\ pc'[terminated'[k]] \in Listed
              /\ \E j \in 1 .. Len(terminated) : terminated[j] = terminated'[k]
  <2>1. n + k \in 1 .. Len(terminated) /\ terminated'[k] = terminated[n + k]
    BY <1>2, <1>3
  <2>2. \A i \in 1 .. n : terminated[i] # terminated[n + k]
    <3> SUFFICES ASSUME NEW i \in 1 .. n, terminated[i] = terminated[n + k] PROVE FALSE
      OBVIOUS
    <3>1. i = n + k
      BY <2>1, <1>4, <1>8 DEF ListWhole
    <3> QED
      BY <3>1, <1>2
  <2>3. terminated[n + k] \in Thread /\ pc'[terminated[n + k]] = pc[terminated[n + k]]
    BY <1>5, <1>6, <2>1, <2>2 DEF Thread
  <2> QED
    BY <2>1, <2>3, <1>4 DEF ListWhole
<1>12. ASSUME NEW c \in Child, pc'[c] \in Listed
       PROVE  \E k \in 1 .. m : terminated'[k] = c
  <2>1. c \in Thread /\ c # t
    BY <1>7, <1>12 DEF Thread
  <2>2. pc'[c] # "deleted"
    BY <1>12 DEF Listed, InUnref
  <2>3. pc[c] = pc'[c] /\ \A k \in 1 .. n : terminated[k] # c
    BY <1>6, <2>1, <2>2
  <2>4. PICK j \in 1 .. Len(terminated) : terminated[j] = c
    BY <1>12, <2>3, <1>4 DEF ListWhole
  <2>5. j > n /\ j - n \in 1 .. m /\ n + (j - n) = j
    BY <2>3, <2>4, <1>2
  <2> QED
    BY <2>4, <2>5, <1>3
<1> QED
  BY <1>3, <1>4, <1>6, <1>7, <1>9, <1>10, <1>11, <1>12

(* A step that leaves the list, and lists or delists nobody.               *)
LEMMA ListKept ==
  ASSUME ListWhole, TypeOK, UNCHANGED <<terminated, thread>>,
         \A c \in Child : pc[c] \in Listed <=> pc'[c] \in Listed
  PROVE  ListWhole'
<1>1. /\ terminated' = terminated /\ thread' = thread
      /\ \A k \in DOMAIN terminated : terminated[k] \in Child
  BY DEF TypeOK
<1>2. \A k \in DOMAIN terminated : pc'[terminated[k]] \in Listed /\ terminated[k] \notin thread
  BY <1>1 DEF ListWhole
<1> QED
  BY <1>1, <1>2 DEF ListWhole

-----------------------------------------------------------------------------
(* Steps of lua_ref and lua_unref move one thread between their calls, and *)
(* touch no list.                                                          *)
LEMMA RefStep ==
  ASSUME IInv, NEW t \in Thread,
         \/ RefRead(t) \/ RefLink(t) \/ RefPop(t) \/ RefGetn(t) \/ RefSetn(t) \/ RefPut(t)
  PROVE  IInv'
<1> USE ThreadAssumption, NumberType
<1>1. t = Main
  BY DEF RefRead, RefLink, RefPop, RefGetn, RefSetn, RefPut, Api, IInv, Places, ChildAt, Listed,
         InUnref, Thread
<1>2. Main \notin Child /\ None \notin Child /\ Main \in Thread
  BY DEF Thread
<1>3. pc \in [Thread -> {"none", "created", "done", "deleted", "free", "closed"} \cup NeedsMutex \cup Listed]
  BY DEF IInv, TypeOK
<1>4. local[Main] \in [slot : 0 .. MAXREF, link : Value, child : Child \cup {None}, todo : 0 .. 3]
  BY <1>2 DEF IInv, TypeOK
<1>5. UNCHANGED <<terminated, thread, alive>> /\ \A u \in Thread \ {Main} : pc'[u] = pc[u]
  BY <1>1, <1>3 DEF RefRead, RefLink, RefPop, RefGetn, RefSetn, RefPut, Api, Goto
<1>6. pc'[Main] \in Creating /\ pc[Main] \in InRef /\ pc' = [pc EXCEPT ![Main] = pc'[Main]]
  BY <1>1, <1>2, <1>3 DEF RefRead, RefLink, RefPop, RefGetn, RefSetn, RefPut, Api, Goto, InRef, Creating, InUnref
<1>7. /\ local' = [local EXCEPT ![Main] = local'[Main]]
      /\ local'[Main] \in [slot : 0 .. MAXREF, link : Value, child : Child \cup {None}, todo : 0 .. 3]
      /\ local'[Main].child = local[Main].child
      /\ local'[Main].todo = IF RefPut(t) THEN local[Main].todo - 1 ELSE local[Main].todo
      /\ pc'[Main] = "link" => local'[Main].slot # 0
  <2>0. local \in [Thread -> [slot : 0 .. MAXREF, link : Value, child : Child \cup {None}, todo : 0 .. 3]]
        /\ freelist \in Value /\ count \in 0 .. MAXREF /\ registry \in [Slot -> Value]
    BY DEF IInv, TypeOK
  <2>1. CASE RefRead(t)
    BY <2>0, <2>1, <1>1, <1>2, <1>3, <1>4 DEF RefRead, RefPut, Api, Goto, SetLocal, Value
  <2>2. CASE RefLink(t)
    <3>1. local[Main].slot \in Slot
      BY <2>2, <1>1, <1>2, <1>4 DEF RefLink, Api, IInv, Places, Slot
    <3> QED
      BY <3>1, <2>0, <2>2, <1>1, <1>2, <1>3, <1>4 DEF RefLink, RefPut, Api, Goto, SetLocal
  <2>3. CASE RefPop(t)
    BY <2>0, <2>3, <1>1, <1>2, <1>3, <1>4 DEF RefPop, RefPut, Api, Goto
  <2>4. CASE RefGetn(t)
    BY <2>0, <2>4, <1>1, <1>2, <1>3, <1>4 DEF RefGetn, RefPut, Api, Goto, SetLocal
  <2>5. CASE RefSetn(t)
    BY <2>0, <2>5, <1>1, <1>2, <1>3, <1>4 DEF RefSetn, RefPut, Api, Goto
  <2>6. CASE RefPut(t)
    <3>1. local[Main].todo # 0 /\ pc[Main] # "link"
      BY <2>6, <1>1 DEF RefPut, Api, IInv, Places, InRef
    <3>2. local[Main].todo - 1 \in 0 .. 3
      BY <3>1, <1>4
    <3>3. /\ local' = [local EXCEPT ![Main] = [local[Main] EXCEPT !.todo = @ - 1]]
          /\ pc'[Main] \in {"settop", "unref"}
      BY <2>6, <1>1, <1>2, <1>3 DEF RefPut, Api, Goto, SetLocal
    <3>4. local'[Main] = [local[Main] EXCEPT !.todo = @ - 1]
      BY <3>3, <2>0, <1>2
    <3> QED
      BY <3>2, <3>3, <3>4, <2>0, <2>6, <1>2, <1>4
  <2> QED
    BY <2>1, <2>2, <2>3, <2>4, <2>5, <2>6
<1>8. TypeOK'
  <2>1. pc' \in [Thread -> {"none", "created", "done", "deleted", "free", "closed"} \cup NeedsMutex \cup Listed]
    BY <1>3, <1>6 DEF Creating, InRef, InUnref, NeedsMutex, Listed
  <2>2. mutex' \in Thread \cup {Nobody}
    BY DEF RefRead, RefLink, RefPop, RefGetn, RefSetn, RefPut, Api
  <2>4. registry' \in [Slot -> Value] /\ freelist' \in Value /\ count' \in 0 .. MAXREF
    <3>1. registry \in [Slot -> Value] /\ freelist \in Value /\ count \in 0 .. MAXREF
      BY DEF IInv, TypeOK
    <3>2. local[Main].link \in Value /\ local[Main].slot \in 0 .. MAXREF
      BY <1>4
    <3>3. Object(local[Main].child) \in Value /\ Object(Arg) \in Value
      BY <1>4 DEF Object, Value
    <3>4. registry' \in [Slot -> Value]
      BY <3>1, <3>3, <1>1 DEF RefRead, RefLink, RefPop, RefGetn, RefSetn, RefPut
    <3>5. freelist' \in Value /\ count' \in 0 .. MAXREF
      BY <3>1, <3>2, <1>1 DEF RefRead, RefLink, RefPop, RefGetn, RefSetn, RefPut
    <3> QED
      BY <3>4, <3>5
  <2>5. ref' \in [Child -> 0 .. MAXREF]
    BY <1>1, <1>2, <1>4
    DEF RefRead, RefLink, RefPop, RefGetn, RefSetn, RefPut, Api, IInv, TypeOK
  <2> QED
    BY <2>1, <2>2, <2>4, <2>5, <1>2, <1>5, <1>7 DEF IInv, TypeOK
<1>9. Places'
  <2>1. \A u \in Thread : pc[u] = "link" /\ u # Main => FALSE
    BY DEF IInv, Places, ChildAt, Listed, InUnref, Thread
  <2>2. /\ pc'[Main] \in Creating /\ pc'[Main] \notin {"newthread", "free"}
        /\ pc'[Main] \in InRef \cup {"settop"} => local'[Main].todo # 0
    <3>1. CASE RefPut(t)
      <4>1. local[Main].todo # 3 => pc'[Main] = "unref"
        BY <3>1, <1>1, <1>2, <1>3 DEF RefPut, Goto
      <4>2. pc'[Main] \in {"unref", "settop"}
        BY <3>1, <1>1, <1>2, <1>3 DEF RefPut, Goto
      <4> QED
        BY <4>1, <4>2, <3>1, <1>4, <1>7 DEF InRef, InUnref, Creating
    <3>2. CASE ~RefPut(t)
      <4>1. pc'[Main] \in InRef
        BY <3>2, <1>1, <1>2, <1>3 DEF RefRead, RefLink, RefPop, RefGetn, RefSetn, Goto, InRef
      <4> QED
        BY <4>1, <3>2, <1>6, <1>7 DEF IInv, Places, InRef, Creating
    <3> QED
      BY <3>1, <3>2
  <2> QED
    BY <2>1, <2>2, <1>2, <1>5, <1>6, <1>7 DEF IInv, Places, MainAt, Creating, Thread

<1>10. ListWhole'
  BY <1>2, <1>5 DEF IInv, ListWhole, TypeOK, Thread
<1> QED
  BY <1>8, <1>9, <1>10 DEF IInv

LEMMA UnrefStep ==
  ASSUME IInv, NEW t \in Thread, UnrefRead(t) \/ UnrefStore(t) \/ UnrefPush(t)
  PROVE  IInv'
<1> USE ThreadAssumption, NumberType
<1>1. Main \notin Child /\ None \notin Child /\ Main \in Thread
  BY DEF Thread
<1>2. /\ pc \in [Thread -> {"none", "created", "done", "deleted", "free", "closed"} \cup NeedsMutex \cup Listed]
      /\ local \in [Thread -> [slot : 0 .. MAXREF, link : Value, child : Child \cup {None}, todo : 0 .. 3]]
      /\ freelist \in Value /\ registry \in [Slot -> Value]
  BY DEF IInv, TypeOK
<1>3. local[t] \in [slot : 0 .. MAXREF, link : Value, child : Child \cup {None}, todo : 0 .. 3]
  BY <1>2
<1>4. /\ UNCHANGED <<terminated, thread, alive, count, ref>>
      /\ mutex' = Nobody
      /\ pc[t] \in InUnref
      /\ pc' = [pc EXCEPT ![t] = pc'[t]]
      /\ t # Main => pc'[t] \in Listed
      /\ t = Main => /\ pc'[t] \in {"store", "push", "ref", "newuserdata"}
                     /\ pc'[t] = "ref" => local[t].todo > 0
  BY <1>2 DEF UnrefRead, UnrefStore, UnrefPush, Api, Goto, InUnref, Listed
<1>5. /\ local' = [local EXCEPT ![t] = local'[t]]
      /\ local'[t] \in [slot : 0 .. MAXREF, link : Value, child : Child \cup {None}, todo : 0 .. 3]
      /\ local'[t].child = local[t].child /\ local'[t].todo = local[t].todo
  <2>1. CASE UnrefRead(t)
    BY <2>1, <1>2, <1>3 DEF UnrefRead, SetLocal
  <2>2. CASE UnrefStore(t) \/ UnrefPush(t)
    BY <2>2, <1>2, <1>3 DEF UnrefStore, UnrefPush
  <2> QED
    BY <2>1, <2>2
<1>6. /\ \A u \in Thread \ {t} : pc'[u] = pc[u] /\ local'[u] = local[u]
      /\ \A c \in Child : pc[c] \in Listed <=> pc'[c] \in Listed
  BY <1>1, <1>2, <1>4, <1>5 DEF Thread, Listed
<1>7. TypeOK'
  <2>1. pc' \in [Thread -> {"none", "created", "done", "deleted", "free", "closed"} \cup NeedsMutex \cup Listed]
    BY <1>2, <1>4 DEF NeedsMutex, InRef, InUnref, Listed
  <2>2. registry' \in [Slot -> Value]
    BY <1>2, <1>3 DEF UnrefRead, UnrefStore, UnrefPush
  <2>3. freelist' \in Value
    BY <1>2, <1>3 DEF UnrefRead, UnrefStore, UnrefPush
  <2> QED
    BY <2>1, <2>2, <2>3, <1>2, <1>4, <1>5 DEF IInv, TypeOK
<1>8. Places'
  <2>1. CASE t = Main
    <3>1. pc'[Main] \in Creating /\ pc'[Main] \notin {"newthread", "free", "settop", "link"}
      BY <2>1, <1>4 DEF Creating, InUnref, InRef
    <3>2. pc'[Main] \in InRef => local'[Main].todo # 0
      BY <2>1, <1>3, <1>4, <1>5 DEF InRef
    <3>3. /\ \A c \in Child : pc'[c] = pc[c]
          /\ local[Main].child \in Child /\ pc[local[Main].child] = "none"
      BY <2>1, <1>1, <1>4, <1>6 DEF IInv, Places, Creating, Thread
    <3> QED
      BY <3>1, <3>2, <3>3, <2>1, <1>5, <1>6 DEF IInv, Places, MainAt, Thread
  <2>2. CASE t # Main
    <3>1. t \in Child /\ pc'[t] \in Listed /\ pc[t] \in Listed /\ pc'[t] # "link" /\ pc[t] # "none"
      BY <2>2, <1>4 DEF Thread, Listed, InUnref
    <3> QED
      BY <3>1, <2>2, <1>1, <1>6 DEF IInv, Places, ChildAt, Thread
  <2> QED
    BY <2>1, <2>2
<1>9. ListWhole'
  BY <1>1, <1>4, <1>6 DEF IInv, ListWhole, TypeOK, Thread
<1> QED
  BY <1>7, <1>8, <1>9 DEF IInv

(* The other calls of the main script that free nothing.                   *)
LEMMA MainCalls ==
  ASSUME IInv, \/ NewThread \/ SetTop \/ CreateThread
               \/ \E c \in Child : CallNew(c) \/ Resume(c)
  PROVE  IInv'
<1> USE ThreadAssumption
<1>1. Main \notin Child /\ None \notin Child /\ Main \in Thread
  BY DEF Thread
<1>2. /\ pc \in [Thread -> {"none", "created", "done", "deleted", "free", "closed"} \cup NeedsMutex \cup Listed]
      /\ local \in [Thread -> [slot : 0 .. MAXREF, link : Value, child : Child \cup {None}, todo : 0 .. 3]]
  BY DEF IInv, TypeOK
<1>3. local[Main] \in [slot : 0 .. MAXREF, link : Value, child : Child \cup {None}, todo : 0 .. 3]
  BY <1>1, <1>2
<1>4. /\ UNCHANGED <<registry, freelist, count, terminated, thread, ref>>
      /\ mutex' = Nobody
  BY DEF NewThread, SetTop, CreateThread, CallNew, Resume, Api
<1>5. CASE NewThread
  <2>1. /\ pc' = [pc EXCEPT ![Main] = "free"] /\ local' = local
        /\ local[Main].child \in Child /\ pc[local[Main].child] = "none" /\ local[Main].todo = 3
        /\ alive' = alive \cup {local[Main].child}
    BY <1>5 DEF NewThread, Api, Goto, IInv, Places, Creating
  <2>2. TypeOK'
    BY <2>1, <1>1, <1>2, <1>4 DEF IInv, TypeOK
  <2>3. \A c \in Child : pc'[c] = pc[c]
    BY <2>1, <1>1, <1>2 DEF Thread
  <2>4. pc'[Main] = "free"
    BY <2>1, <1>1, <1>2
  <2>5. Places'
    BY <2>1, <2>3, <2>4, <1>1 DEF IInv, Places, MainAt, Creating, InRef, Thread
  <2>6. ListWhole'
    BY <2>3, <1>4, ListKept DEF IInv
  <2> QED
    BY <2>2, <2>5, <2>6 DEF IInv
<1>6. CASE SetTop
  <2>1. /\ pc' = [pc EXCEPT ![Main] = "ref"] /\ local' = local /\ alive' = alive
        /\ local[Main].child \in Child /\ pc[local[Main].child] = "none" /\ local[Main].todo # 0
    BY <1>6 DEF SetTop, Api, Goto, IInv, Places, Creating
  <2>2. TypeOK'
    BY <2>1, <1>1, <1>2, <1>4 DEF IInv, TypeOK, NeedsMutex, InRef
  <2>3. \A c \in Child : pc'[c] = pc[c]
    BY <2>1, <1>1, <1>2 DEF Thread
  <2>4. pc'[Main] = "ref"
    BY <2>1, <1>1, <1>2
  <2>5. Places'
    BY <2>1, <2>3, <2>4, <1>1 DEF IInv, Places, MainAt, Creating, InRef, Thread
  <2>6. ListWhole'
    BY <2>3, <1>4, ListKept DEF IInv
  <2> QED
    BY <2>2, <2>5, <2>6 DEF IInv
<1>7. CASE CreateThread
  <2> PICK d \in Child : d = local[Main].child
    BY <1>7 DEF CreateThread, Api, IInv, Places, Creating
  <2>1. /\ pc' = [pc EXCEPT ![Main] = "vm", ![d] = "created"] /\ local' = local /\ alive' = alive
        /\ pc[d] = "none"
    BY <1>7 DEF CreateThread, Api, IInv, Places, Creating
  <2>2. TypeOK'
    BY <2>1, <1>1, <1>2, <1>4 DEF IInv, TypeOK, NeedsMutex
  <2>3. /\ \A c \in Child : pc'[c] = IF c = d THEN "created" ELSE pc[c]
        /\ pc'[Main] = "vm"
    BY <2>1, <1>1, <1>2 DEF Thread
  <2>4. Places'
    <3>1. /\ \A c \in Child : pc'[c] \in ChildAt
          /\ \A u \in Thread : pc'[u] # "link"
      BY <2>3, <1>1 DEF IInv, Places, ChildAt, Listed, InUnref, Thread
    <3> QED
      BY <3>1, <2>3 DEF Places, MainAt, Creating, InRef, InUnref
  <2>5. \A e \in Child : pc[e] \in Listed <=> pc'[e] \in Listed
    <3>1. "none" \notin Listed /\ "created" \notin Listed
      BY DEF Listed, InUnref
    <3> QED
      BY <3>1, <2>1, <2>3
  <2>6. ListWhole'
    BY <2>5, <1>4, ListKept DEF IInv
  <2> QED
    BY <2>2, <2>4, <2>6 DEF IInv
<1>8. ASSUME NEW c \in Child, CallNew(c)
      PROVE  IInv'
  <2>1. /\ pc' = [pc EXCEPT ![Main] = "newthread"] /\ alive' = alive /\ pc[c] = "none"
        /\ local' = [local EXCEPT ![Main] = [local[Main] EXCEPT !.child = c, !.todo = 3]]
    BY <1>8 DEF CallNew, Api, Goto, SetLocal
  <2>2. local'[Main] = [local[Main] EXCEPT !.child = c, !.todo = 3]
    BY <2>1, <1>1, <1>2
  <2>3. TypeOK'
    <3>1. local'[Main] \in [slot : 0 .. MAXREF, link : Value, child : Child \cup {None}, todo : 0 .. 3]
      <4>1. 3 \in 0 .. 3
        OBVIOUS
      <4> QED
        BY <4>1, <2>2, <1>3
    <3>2. local' = [local EXCEPT ![Main] = local'[Main]]
      BY <2>1, <2>2
    <3>3. local' \in [Thread -> [slot : 0 .. MAXREF, link : Value, child : Child \cup {None}, todo : 0 .. 3]]
      BY <3>1, <3>2, <1>2
    <3>4. pc' \in [Thread -> {"none", "created", "done", "deleted", "free", "closed"} \cup NeedsMutex \cup Listed]
      BY <2>1, <1>1, <1>2 DEF NeedsMutex
    <3> QED
      BY <3>3, <3>4, <2>1, <1>4 DEF IInv, TypeOK
  <2>4. \A e \in Child : pc'[e] = pc[e]
    BY <2>1, <1>1, <1>2 DEF Thread
  <2>5. pc'[Main] = "newthread"
    BY <2>1, <1>1, <1>2
  <2>6. local'[Main].child = c /\ local'[Main].todo = 3
    BY <2>2, <1>3
  <2>7. Places'
    BY <2>1, <2>4, <2>5, <2>6, <1>1 DEF IInv, Places, MainAt, ChildAt, Creating, InRef, InUnref, Listed, Thread
  <2>8. ListWhole'
    BY <2>4, <1>4, ListKept DEF IInv
  <2> QED
    BY <2>3, <2>7, <2>8 DEF IInv
<1>9. ASSUME NEW c \in Child, Resume(c)
      PROVE  IInv'
  <2>1. /\ pc' = [pc EXCEPT ![c] = "vm"] /\ local' = local /\ alive' = alive
        /\ pc[c] = "created" /\ pc[Main] = "vm" /\ c # Main
    BY <1>1, <1>9 DEF Resume, Api, Goto
  <2>2. TypeOK'
    BY <2>1, <1>1, <1>2, <1>4 DEF IInv, TypeOK, NeedsMutex
  <2>3. /\ \A e \in Child : pc'[e] = IF e = c THEN "vm" ELSE pc[e]
        /\ pc'[Main] = "vm"
    BY <2>1, <1>1, <1>2 DEF Thread
  <2>4. Places'
    BY <2>1, <2>3, <1>1 DEF IInv, Places, MainAt, ChildAt, Creating, InRef, InUnref, Thread
  <2>5. \A e \in Child : pc[e] \in Listed <=> pc'[e] \in Listed
    BY <2>1, <2>3 DEF Listed, InUnref
  <2>6. ListWhole'
    BY <2>5, <1>4, ListKept DEF IInv
  <2> QED
    BY <2>2, <2>4, <2>6 DEF IInv
<1> QED
  BY <1>5, <1>6, <1>7, <1>8, <1>9

(* A child returns and enters itself at the head of the list.              *)
LEMMA ChildSteps ==
  ASSUME IInv, NEW c \in Child, ChildStep(c)
  PROVE  IInv'
<1> USE ThreadAssumption
<1>1. Main \notin Child /\ None \notin Child /\ Main \in Thread /\ c \in Thread /\ c # Main
  BY DEF Thread
<1>2. /\ pc \in [Thread -> {"none", "created", "done", "deleted", "free", "closed"} \cup NeedsMutex \cup Listed]
      /\ local \in [Thread -> [slot : 0 .. MAXREF, link : Value, child : Child \cup {None}, todo : 0 .. 3]]
      /\ ref[c] \in 0 .. MAXREF
      /\ terminated \in Seq(Child)
  BY DEF IInv, TypeOK
<1>3. UNCHANGED <<registry, freelist, count, alive, ref>>
  BY DEF ChildStep, Return, Enlist
<1>4. CASE Return(c)
  <2>1. /\ pc' = [pc EXCEPT ![c] = "done"] /\ pc[c] = "vm" /\ mutex' = Nobody
        /\ UNCHANGED <<local, terminated, thread>>
    BY <1>4 DEF Return, Api, Goto
  <2>2. /\ \A e \in Child : pc'[e] = IF e = c THEN "done" ELSE pc[e]
        /\ pc'[Main] = pc[Main]
    BY <2>1, <1>1, <1>2 DEF Thread
  <2>3. TypeOK'
    BY <2>1, <1>1, <1>2, <1>3 DEF IInv, TypeOK
  <2>4. Places'
    BY <2>1, <2>2, <1>1 DEF IInv, Places, ChildAt, Creating, InRef, Thread
  <2>5. \A e \in Child : pc[e] \in Listed <=> pc'[e] \in Listed
    BY <2>1, <2>2 DEF Listed, InUnref
  <2>6. ListWhole'
    BY <2>1, <2>5 DEF IInv, ListWhole, TypeOK
  <2> QED
    BY <2>3, <2>4, <2>6 DEF IInv
<1>5. CASE Enlist(c)
  <2>1. /\ pc' = [pc EXCEPT ![c] = "unref"] /\ pc[c] = "done" /\ mutex' = mutex
        /\ local' = [local EXCEPT ![c] = [local[c] EXCEPT !.slot = ref[c]]]
        /\ terminated' = <<c>> \o terminated /\ thread' = thread \ {c}
    BY <1>5 DEF Enlist, Goto, SetLocal
  <2>2. /\ \A e \in Child : pc'[e] = IF e = c THEN "unref" ELSE pc[e]
        /\ pc'[Main] = pc[Main] /\ local'[Main] = local[Main]
    BY <2>1, <1>1, <1>2 DEF Thread
  <2>3. TypeOK'
    <3>1. pc' \in [Thread -> {"none", "created", "done", "deleted", "free", "closed"} \cup NeedsMutex \cup Listed]
      BY <2>1, <1>1, <1>2 DEF Listed, InUnref
    <3>2. local' \in [Thread -> [slot : 0 .. MAXREF, link : Value, child : Child \cup {None}, todo : 0 .. 3]]
      BY <2>1, <1>1, <1>2
    <3>3. terminated' \in Seq(Child)
      BY <2>1, <1>2
    <3> QED
      BY <3>1, <3>2, <3>3, <2>1, <1>3 DEF IInv, TypeOK
  <2>4. Places'
    BY <2>1, <2>2, <1>1 DEF IInv, Places, ChildAt, Listed, InUnref, Creating, InRef, Thread
  <2>5. /\ Len(terminated) \in Nat /\ DOMAIN terminated = 1 .. Len(terminated)
        /\ DOMAIN terminated' = 1 .. (Len(terminated) + 1)
        /\ terminated'[1] = c
        /\ \A k \in 1 .. Len(terminated) : terminated'[k + 1] = terminated[k]
    BY <2>1, <1>2
  <2>6. \A k \in 1 .. (Len(terminated) + 1) : k = 1 \/ (k - 1 \in 1 .. Len(terminated) /\ (k - 1) + 1 = k)
    BY <2>5
  <2>7. \A k \in 1 .. Len(terminated) : /\ pc[terminated[k]] \in Listed /\ terminated[k] \notin thread
                                        /\ terminated[k] \in Child /\ terminated[k] # c
    BY <2>1, <2>5, <1>2 DEF IInv, ListWhole, Listed, InUnref
  <2>8. \A k \in DOMAIN terminated' : pc'[terminated'[k]] \in Listed /\ terminated'[k] \notin thread'
    <3> SUFFICES ASSUME NEW k \in 1 .. (Len(terminated) + 1)
                 PROVE  pc'[terminated'[k]] \in Listed /\ terminated'[k] \notin thread'
      BY <2>5
    <3>1. CASE k = 1
      BY <3>1, <2>1, <2>2, <2>5 DEF Listed, InUnref
    <3>2. CASE k # 1
      <4>1. k - 1 \in 1 .. Len(terminated) /\ terminated'[k] = terminated[k - 1]
        BY <3>2, <2>5, <2>6
      <4> QED
        BY <4>1, <2>1, <2>2, <2>7
    <3> QED
      BY <3>1, <3>2
  <2>9. \A j, k \in DOMAIN terminated' : terminated'[j] = terminated'[k] => j = k
    <3> SUFFICES ASSUME NEW j \in 1 .. (Len(terminated) + 1), NEW k \in 1 .. (Len(terminated) + 1),
                        terminated'[j] = terminated'[k]
                 PROVE  j = k
      BY <2>5
    <3>1. CASE j = 1 \/ k = 1
      <4>1. \A i \in 1 .. (Len(terminated) + 1) : i # 1 => terminated'[i] # c
        <5> SUFFICES ASSUME NEW i \in 1 .. (Len(terminated) + 1), i # 1 PROVE terminated'[i] # c
          OBVIOUS
        <5>1. i - 1 \in 1 .. Len(terminated) /\ terminated'[i] = terminated[i - 1]
          BY <2>5, <2>6
        <5> QED
          BY <5>1, <2>7
      <4> QED
        BY <3>1, <4>1, <2>5
    <3>2. CASE j # 1 /\ k # 1
      <4>1. /\ j - 1 \in 1 .. Len(terminated) /\ terminated'[j] = terminated[j - 1]
            /\ k - 1 \in 1 .. Len(terminated) /\ terminated'[k] = terminated[k - 1]
        BY <3>2, <2>5, <2>6
      <4>2. j - 1 = k - 1
        <5>1. terminated[j - 1] = terminated[k - 1]
          BY <4>1
        <5> QED
          BY <5>1, <4>1, <2>5 DEF IInv, ListWhole
      <4> QED
        BY <4>2
    <3> QED
      BY <3>1, <3>2
  <2>10. \A e \in Child : pc'[e] \in Listed => \E k \in DOMAIN terminated' : terminated'[k] = e
    <3> SUFFICES ASSUME NEW e \in Child, pc'[e] \in Listed
                 PROVE  \E k \in DOMAIN terminated' : terminated'[k] = e
      OBVIOUS
    <3>1. CASE e = c
      BY <3>1, <2>5
    <3>2. CASE e # c
      <4>1. PICK k \in 1 .. Len(terminated) : terminated[k] = e
        BY <3>2, <2>2, <2>5 DEF IInv, ListWhole
      <4>2. k + 1 \in DOMAIN terminated' /\ terminated'[k + 1] = e
        BY <4>1, <2>5
      <4> QED
        BY <4>2
    <3> QED
      BY <3>1, <3>2
  <2>11. ListWhole'
    BY <2>8, <2>9, <2>10 DEF ListWhole
  <2> QED
    BY <2>3, <2>4, <2>11 DEF IInv
<1> QED
  BY <1>4, <1>5 DEF ChildStep

(* The steps that delete threads.                                          *)
LEMMA FreeingStep ==
  ASSUME IInv, NEW t \in Thread, NEW l \in {"vm", "ref", "closed"},
         FreeTerminatedThreads(t, l),
         \/ pc[t] = "vm" /\ (t # Main => l = "vm") /\ (l = "ref" => FALSE)
         \/ t = Main /\ pc[Main] = "free" /\ l = "ref",
         UNCHANGED <<registry, freelist, count, ref, local>>,
         mutex' \in Thread \cup {Nobody}, alive' \subseteq Child,
         \/ thread' = thread
         \/ pc[Main] = "free" /\ thread' = thread \cup {local[Main].child}
  PROVE  IInv'
<1> USE ThreadAssumption
<1>1. Main \notin Child /\ None \notin Child /\ Main \in Thread
  BY DEF Thread
<1>2. pc \in [Thread -> {"none", "created", "done", "deleted", "free", "closed"} \cup NeedsMutex \cup Listed]
  BY DEF IInv, TypeOK
<1>3. pc[t] \notin Listed /\ l \notin Listed
  BY DEF Listed, InUnref
<1>4. /\ pc' = [u \in Thread |-> pc'[u]]
      /\ pc'[t] = l
      /\ \A u \in Thread \ {t} : \/ pc'[u] = pc[u]
                                 \/ u \in Child /\ pc[u] \in Listed /\ pc'[u] = "deleted"
      /\ terminated' \in Seq(Child)
      /\ \A j, k \in DOMAIN terminated' : terminated'[j] = terminated'[k] => j = k
      /\ \A k \in DOMAIN terminated' : /\ pc'[terminated'[k]] \in Listed
                                       /\ \E j \in DOMAIN terminated : terminated[j] = terminated'[k]
      /\ \A c \in Child : pc'[c] \in Listed => \E k \in DOMAIN terminated' : terminated'[k] = c
  BY <1>3, Freeing DEF IInv
<1>5. TypeOK'
  <2>1. pc' \in [Thread -> {"none", "created", "done", "deleted", "free", "closed"} \cup NeedsMutex \cup Listed]
    BY <1>2, <1>4 DEF NeedsMutex, InRef
  <2>2. thread' \subseteq Child
    BY <1>1 DEF IInv, TypeOK, Places, Creating
  <2> QED
    BY <2>1, <2>2, <1>4 DEF IInv, TypeOK
<1>6. Places'
  <2>1. \A c \in Child : pc'[c] \in ChildAt
    BY <1>1, <1>4 DEF IInv, Places, ChildAt, Thread
  <2>2. CASE t = Main
    <3>1. /\ pc'[Main] \in {"vm", "closed", "ref"}
          /\ pc'[Main] = "ref" => pc[Main] = "free"
      BY <2>2, <1>4
    <3>2. pc'[Main] = "ref" => /\ local[Main].todo # 0 /\ local[Main].child \in Child
                               /\ pc[local[Main].child] = "none"
      BY <3>1 DEF IInv, Places, Creating
    <3>3. \A c \in Child : pc[c] = "none" => pc'[c] = "none"
      BY <2>2, <1>1, <1>4 DEF Thread, Listed, InUnref
    <3>4. \A u \in Thread : pc'[u] # "link"
      BY <2>1, <3>1 DEF Thread, ChildAt, Listed, InUnref
    <3> QED
      BY <2>1, <3>1, <3>2, <3>3, <3>4, <1>1 DEF Places, MainAt, Creating, InRef, InUnref
  <2>3. CASE t # Main
    <3>1. t \in Child /\ pc[t] = "vm" /\ pc'[t] = "vm" /\ pc'[Main] = pc[Main]
      BY <2>3, <1>1, <1>4 DEF Thread
    <3>2. \A c \in Child : pc[c] = "none" => pc'[c] = "none"
      BY <3>1, <1>1, <1>4 DEF Thread, Listed, InUnref
    <3>3. \A u \in Child : pc'[u] # "link"
      BY <2>1 DEF ChildAt, Listed, InUnref
    <3> QED
      BY <2>1, <3>1, <3>2, <3>3, <1>1 DEF IInv, Places, Thread
  <2> QED
    BY <2>2, <2>3
<1>7. ListWhole'
  <2>1. \A k \in DOMAIN terminated' : terminated'[k] \notin thread'
    <3> SUFFICES ASSUME NEW k \in DOMAIN terminated' PROVE terminated'[k] \notin thread'
      OBVIOUS
    <3>1. PICK j \in DOMAIN terminated : terminated[j] = terminated'[k]
      BY <1>4
    <3>2. terminated[j] \notin thread /\ pc[terminated[j]] \in Listed
      BY DEF IInv, ListWhole
    <3>3. pc[Main] = "free" => pc[local[Main].child] \notin Listed
      BY DEF IInv, Places, Creating, Listed, InUnref
    <3> QED
      BY <3>1, <3>2, <3>3
  <2> QED
    BY <2>1, <1>4 DEF ListWhole
<1> QED
  BY <1>5, <1>6, <1>7 DEF IInv

LEMMA NextIInv == ASSUME IInv, [Next]_vars PROVE IInv'
<1> USE ThreadAssumption
<1>0. Main \in Thread
  BY DEF Thread
<1>1. CASE MainStep
  <2>1. CASE FreeAndMalloc
    <3>1. mutex' = mutex /\ alive' = alive
      BY <2>1 DEF FreeAndMalloc
    <3>2. mutex' \in Thread \cup {Nobody} /\ alive' \subseteq Child
      BY <3>1 DEF IInv, TypeOK
    <3> QED
      BY <2>1, <3>2, <1>0, FreeingStep DEF FreeAndMalloc
  <2>2. CASE LuaClose
    <3>1. mutex' \in Thread \cup {Nobody} /\ alive' \subseteq Child
      BY <2>2 DEF LuaClose
    <3> QED
      BY <2>2, <3>1, <1>0, FreeingStep DEF LuaClose
  <2>3. CASE NewThread \/ SetTop \/ CreateThread \/ \E c \in Child : CallNew(c) \/ Resume(c)
    BY <2>3, MainCalls
  <2> QED
    BY <1>1, <2>1, <2>2, <2>3 DEF MainStep
<1>2. CASE Closed \/ UNCHANGED vars
  BY <1>2 DEF Closed, vars, IInv, TypeOK, Places, ListWhole
<1>3. ASSUME NEW c \in Child, ChildStep(c) PROVE IInv'
  BY <1>3, ChildSteps
<1>4. ASSUME NEW t \in Thread, Step(t) PROVE IInv'
  <2>1. CASE Lock(t)
    BY <2>1 DEF Lock, IInv, TypeOK, Places, ListWhole
  <2>2. CASE CallC(t)
    BY <2>2 DEF CallC, Api, IInv, TypeOK, Places, ListWhole
  <2>3. CASE Collect(t)
    <3>1. /\ FreeTerminatedThreads(t, "vm") /\ pc[t] = "vm"
          /\ UNCHANGED <<mutex, registry, freelist, count, thread, ref, local>>
          /\ alive' \subseteq alive
      BY <2>3 DEF Collect
    <3>2. mutex' \in Thread \cup {Nobody} /\ alive' \subseteq Child
      BY <3>1 DEF IInv, TypeOK
    <3> QED
      BY <3>1, <3>2, FreeingStep
  <2>4. CASE RefRead(t) \/ RefLink(t) \/ RefPop(t) \/ RefGetn(t) \/ RefSetn(t) \/ RefPut(t)
    BY <2>4, RefStep
  <2>5. CASE UnrefRead(t) \/ UnrefStore(t) \/ UnrefPush(t)
    BY <2>5, UnrefStep
  <2> QED
    BY <1>4, <2>1, <2>2, <2>3, <2>4, <2>5 DEF Step
<1> QED
  BY <1>1, <1>2, <1>3, <1>4 DEF Next

(* Whatever the script does, the list of the terminated and the places of  *)
(* the threads in their calls fit together: the inductive invariant.       *)
THEOREM Invariant == Spec => []IInv
<1>1. IInv /\ [Next]_vars => IInv'
  BY NextIInv
<1> QED
  BY InitIInv, <1>1, PTL DEF Spec

(* Every variable keeps its type, whatever the script does.                *)
THEOREM TypeCorrect == Spec => []TypeOK
<1>1. IInv => TypeOK
  BY DEF IInv
<1> QED
  BY Invariant, <1>1, PTL

(* The list of terminated threads is whole, whatever the script does: no   *)
(* thread that may still run, and none twice, is handed to the function    *)
(* that deletes it, and none that has ended is missed.                     *)
THEOREM WholeCorrect == Spec => []ListWhole
<1>1. IInv => ListWhole
  BY DEF IInv
<1> QED
  BY Invariant, <1>1, PTL

-----------------------------------------------------------------------------
(* Without careless scripts: while no child has been resumed, only the     *)
(* main script uses lua_ref, and the free list is sound; afterwards no     *)
(* slot is taken any more, and each is written by its own child only.      *)
Quiet == \A c \in Child : pc[c] \in {"none", "created"}

Held(c) ==
  \/ pc[c] \in {"created", "vm", "done", "unref", "store"}
  \/ pc[Main] \in Creating /\ local[Main].child = c /\ local[Main].todo # 3

AloneCreating == pc[Main] \in Creating => Quiet

HeldKept ==
  \A c \in Child : Held(c) => c \in alive /\ ref[c] \in Slot /\ registry[ref[c]].obj = c

OwnSlot == \A c \in Child : pc[c] \in {"unref", "store"} => local[c].slot = ref[c]

NewChild ==
  /\ pc[Main] \in Creating \ {"newthread"} => local[Main].child \in alive
  /\ pc[Main] \in {"settop", "newuserdata"} \cup InUnref => local[Main].todo # 3

FreeSound ==
  /\ freelist.obj = None /\ freelist.num <= count
  /\ freelist.num # 0 => registry[freelist.num] = Number(0)
  /\ \A s \in Slot : s > count => registry[s] = Number(0)

(* What lua_ref and lua_unref know of their slot between two calls.        *)
SlotSound ==
  /\ pc[Main] \in {"link", "pop"} => local[Main].slot = freelist.num /\ freelist.num # 0
  /\ pc[Main] = "pop" => local[Main].link = Number(0)
  /\ pc[Main] \in {"getn", "setn", "put", "unref", "store"} => freelist.num = 0
  /\ pc[Main] = "setn" => local[Main].slot = count + 1
  /\ pc[Main] \in {"put", "unref", "store", "push"} => local[Main].slot \in 1 .. count
  /\ pc[Main] = "put" => registry[local[Main].slot].obj = None
  /\ pc[Main] \in {"unref", "store"} => registry[local[Main].slot].obj = Arg
  /\ pc[Main] = "store" => local[Main].link = Number(0)
  /\ pc[Main] = "push" => registry[local[Main].slot] = Number(0)

KInv ==
  /\ AloneCreating /\ HeldKept /\ OwnSlot /\ NewChild
  /\ Quiet => FreeSound /\ SlotSound

LEMMA InitKInv == Init => KInv
  BY ThreadAssumption
  DEF Init, KInv, AloneCreating, HeldKept, Held, OwnSlot, NewChild, Quiet, FreeSound, SlotSound, Number,
      Thread, Slot, InRef, InUnref, Creating, Main

(* Calls of the main script that leave the registry alone.                 *)
LEMMA KMainCalls ==
  ASSUME Careless = {}, IInv, KInv,
         \/ NewThread \/ SetTop \/ CreateThread
         \/ \E c \in Child : CallNew(c) \/ Resume(c)
  PROVE  KInv'
<1> USE ThreadAssumption
<1>1. Main \notin Child /\ Main \in Thread /\ "create" \notin Careless
  BY DEF Thread
<1>2. /\ pc \in [Thread -> {"none", "created", "done", "deleted", "free", "closed"} \cup NeedsMutex \cup Listed]
      /\ local \in [Thread -> [slot : 0 .. MAXREF, link : Value, child : Child \cup {None}, todo : 0 .. 3]]
      /\ local[Main] \in [slot : 0 .. MAXREF, link : Value, child : Child \cup {None}, todo : 0 .. 3]
  BY <1>1 DEF IInv, TypeOK
<1>3. UNCHANGED <<registry, freelist, count, ref>>
  BY DEF NewThread, SetTop, CreateThread, CallNew, Resume
<1>4. CASE NewThread
  <2>1. /\ pc' = [pc EXCEPT ![Main] = "free"] /\ local' = local /\ pc[Main] = "newthread"
        /\ local[Main].child \in Child /\ local[Main].todo = 3 /\ Quiet
        /\ alive' = alive \cup {local[Main].child}
    BY <1>4 DEF NewThread, Api, Goto, IInv, Places, Creating, KInv, AloneCreating
  <2>2. /\ \A c \in Child : pc'[c] = pc[c] 
        /\ pc'[Main] = "free"
    BY <2>1, <1>1, <1>2 DEF Thread
  <2>3. AloneCreating'
    BY <2>1, <2>2 DEF AloneCreating, Quiet
  <2>4. HeldKept'
    BY <2>1, <2>2, <1>3 DEF KInv, HeldKept, Held
  <2>5. OwnSlot' /\ NewChild'
    BY <2>1, <2>2, <1>3 DEF KInv, OwnSlot, NewChild, InUnref
  <2>6. FreeSound' /\ SlotSound'
    BY <2>1, <2>2, <1>3 DEF KInv, FreeSound, SlotSound
  <2> QED
    BY <2>3, <2>4, <2>5, <2>6 DEF KInv
<1>5. CASE SetTop
  <2>1. /\ pc' = [pc EXCEPT ![Main] = "ref"] /\ local' = local /\ pc[Main] = "settop"
        /\ Quiet /\ alive' = alive
    BY <1>5 DEF SetTop, Api, Goto, Creating, KInv, AloneCreating
  <2>2. /\ \A c \in Child : pc'[c] = pc[c] 
        /\ pc'[Main] = "ref"
    BY <2>1, <1>1, <1>2 DEF Thread
  <2>3. AloneCreating'
    BY <2>1, <2>2 DEF AloneCreating, Quiet
  <2>4. HeldKept'
    BY <2>1, <2>2, <1>3 DEF KInv, HeldKept, Held, Creating
  <2>5. OwnSlot' /\ NewChild'
    BY <2>1, <2>2, <1>3 DEF KInv, OwnSlot, NewChild, InUnref, Creating
  <2>6. FreeSound' /\ SlotSound'
    BY <2>1, <2>2, <1>3 DEF KInv, FreeSound, SlotSound
  <2> QED
    BY <2>3, <2>4, <2>5, <2>6 DEF KInv
<1>6. CASE CreateThread
  <2> PICK d \in Child : d = local[Main].child
    BY <1>6 DEF CreateThread, Api, IInv, Places, Creating
  <2>1. /\ pc' = [pc EXCEPT ![Main] = "vm", ![d] = "created"] /\ local' = local /\ pc[Main] = "newuserdata"
        /\ Quiet /\ alive' = alive
    BY <1>6 DEF CreateThread, Api, Creating, KInv, AloneCreating
  <2>2. /\ \A c \in Child : pc'[c] = IF c = d THEN "created" ELSE pc[c]
        /\ pc'[Main] = "vm"
    BY <2>1, <1>1, <1>2 DEF Thread
  <2>3. AloneCreating'
    BY <2>2 DEF AloneCreating, Creating, InRef, InUnref
  <2>4. HeldKept'
    <3>1. Held(d)
      BY <2>1 DEF KInv, NewChild, Held, Creating
    <3>2. \A c \in Child : Held(c)' => Held(c)
      BY <2>2, <2>3, <3>1 DEF Held, Creating, InRef, InUnref
    <3> QED
      BY <3>2, <2>1, <1>3 DEF KInv, HeldKept
  <2>5. OwnSlot' /\ NewChild'
    <3>1. NewChild'
      BY <2>2 DEF NewChild, Creating, InRef, InUnref
    <3>2. \A c \in Child : pc'[c] \in {"unref", "store"} => pc'[c] = pc[c]
      BY <2>2
    <3>3. local' = local /\ ref' = ref
      BY <2>1, <1>3
    <3> QED
      BY <3>1, <3>2, <3>3 DEF KInv, OwnSlot
  <2>6. FreeSound' /\ SlotSound'
    BY <2>1, <2>2, <1>3 DEF KInv, FreeSound, SlotSound
  <2> QED
    BY <2>3, <2>4, <2>5, <2>6 DEF KInv
<1>7. ASSUME NEW c \in Child, CallNew(c)
      PROVE  KInv'
  <2>1. /\ pc' = [pc EXCEPT ![Main] = "newthread"] /\ pc[Main] = "vm" /\ alive' = alive /\ Quiet
        /\ local' = [local EXCEPT ![Main] = [local[Main] EXCEPT !.child = c, !.todo = 3]]
    BY <1>1, <1>7 DEF CallNew, Api, Goto, SetLocal, Quiet
  <2>2. /\ \A e \in Child : pc'[e] = pc[e] /\ local'[e] = local[e]
        /\ pc'[Main] = "newthread"
        /\ local'[Main] = [local[Main] EXCEPT !.child = c, !.todo = 3]
    BY <2>1, <1>1, <1>2 DEF Thread
  <2>3. AloneCreating'
    BY <2>1, <2>2 DEF AloneCreating, Quiet
  <2>4. HeldKept'
    <3>1. local'[Main].todo = 3
      BY <2>2, <1>2
    <3>2. \A e \in Child : Held(e)' => Held(e)
      BY <3>1, <2>2 DEF Held
    <3> QED
      BY <3>2, <2>1, <1>3 DEF KInv, HeldKept
  <2>5. OwnSlot' /\ NewChild'
    BY <2>1, <2>2, <1>3 DEF KInv, OwnSlot, NewChild, InUnref, Creating, InRef
  <2>6. FreeSound' /\ SlotSound'
    BY <2>1, <2>2, <1>3 DEF KInv, FreeSound, SlotSound
  <2> QED
    BY <2>3, <2>4, <2>5, <2>6 DEF KInv
<1>8. ASSUME NEW c \in Child, Resume(c)
      PROVE  KInv'
  <2>1. /\ pc' = [pc EXCEPT ![c] = "vm"] /\ local' = local /\ alive' = alive
        /\ pc[c] = "created" /\ pc[Main] = "vm" /\ c # Main
    BY <1>1, <1>8 DEF Resume, Api, Goto
  <2>2. /\ \A e \in Child : pc'[e] = IF e = c THEN "vm" ELSE pc[e]
        /\ pc'[Main] = "vm"
    BY <2>1, <1>1, <1>2 DEF Thread
  <2>3. AloneCreating' /\ ~Quiet'
    BY <2>2 DEF AloneCreating, Creating, InRef, InUnref, Quiet
  <2>4. HeldKept'
    <3>1. \A e \in Child : Held(e)' => Held(e)
      BY <2>1, <2>2 DEF Held, Creating, InRef, InUnref
    <3> QED
      BY <3>1, <2>1, <1>3 DEF KInv, HeldKept
  <2>5. OwnSlot' /\ NewChild'
    BY <2>1, <2>2, <1>3 DEF KInv, OwnSlot, NewChild, InUnref, Creating, InRef
  <2> QED
    BY <2>3, <2>4, <2>5 DEF KInv
<1> QED
  BY <1>4, <1>5, <1>6, <1>7, <1>8

(* lua_ref, while no child runs: the slot it takes is nobody's.            *)
LEMMA KRefStep ==
  ASSUME IInv, KInv, NEW t \in Thread,
         \/ RefRead(t) \/ RefLink(t) \/ RefPop(t) \/ RefGetn(t) \/ RefSetn(t) \/ RefPut(t)
  PROVE  KInv'
<1> USE ThreadAssumption
<1>1. t = Main /\ Main \notin Child /\ None \notin Child /\ Arg # None /\ Arg \notin Child /\ Main \in Thread
  BY DEF RefRead, RefLink, RefPop, RefGetn, RefSetn, RefPut, Api, IInv, Places, ChildAt, Listed,
         InUnref, Thread, Arg, None
<1>2. /\ pc \in [Thread -> {"none", "created", "done", "deleted", "free", "closed"} \cup NeedsMutex \cup Listed]
      /\ local \in [Thread -> [slot : 0 .. MAXREF, link : Value, child : Child \cup {None}, todo : 0 .. 3]]
      /\ local[Main] \in [slot : 0 .. MAXREF, link : Value, child : Child \cup {None}, todo : 0 .. 3]
      /\ registry \in [Slot -> Value] /\ freelist \in Value /\ count \in 0 .. MAXREF
      /\ MAXREF \in Nat
      /\ ref \in [Child -> 0 .. MAXREF]
  BY <1>1 DEF IInv, TypeOK
<1>3. pc[Main] \in InRef /\ pc' = [pc EXCEPT ![Main] = pc'[Main]] /\ pc'[Main] \in Creating \ {"newthread", "free"}
  BY <1>1, <1>2 DEF RefRead, RefLink, RefPop, RefGetn, RefSetn, RefPut, Api, Goto, InRef, InUnref, Creating
<1>4. pc[Main] \in Creating \ {"newthread"} /\ local[Main].child \in Child /\ pc[local[Main].child] = "none"
  BY <1>3 DEF Creating, InRef, IInv, Places
<1>5. Quiet /\ FreeSound /\ SlotSound /\ HeldKept /\ OwnSlot /\ local[Main].child \in alive
  BY <1>4 DEF KInv, AloneCreating, NewChild
<1>6. \A c \in Child : pc'[c] = pc[c]
  BY <1>1, <1>2, <1>3 DEF Thread
<1>7. /\ local' = [local EXCEPT ![Main] = local'[Main]] /\ alive' = alive
      /\ local'[Main].child = local[Main].child
      /\ \A c \in Child : local'[c] = local[c]
  <2>1. local' = [local EXCEPT ![Main] = local'[Main]] /\ alive' = alive
    BY <1>1, <1>2 DEF RefRead, RefLink, RefPop, RefGetn, RefSetn, RefPut, SetLocal
  <2>2. local'[Main].child = local[Main].child
    BY <1>1, <1>2 DEF RefRead, RefLink, RefPop, RefGetn, RefSetn, RefPut, SetLocal
  <2> QED
    BY <2>1, <2>2, <1>1, <1>2 DEF Thread
<1>8. AloneCreating' /\ OwnSlot' /\ Quiet
  <2>1. \A c \in Child : pc[c] \notin {"unref", "store"}
    BY <1>5 DEF Quiet
  <2> QED
    BY <2>1, <1>5, <1>6 DEF AloneCreating, Quiet, OwnSlot
<1>9. CASE ~RefPut(t)
  <2>1. UNCHANGED <<registry, ref>> /\ local'[Main].todo = local[Main].todo /\ pc'[Main] \in InRef
    BY <1>9, <1>1, <1>2 DEF RefRead, RefLink, RefPop, RefGetn, RefSetn, Goto, SetLocal, InRef
  <2>2. NewChild'
    BY <2>1, <1>4, <1>5, <1>7 DEF NewChild, InRef, InUnref
  <2>3. HeldKept'
    <3>1. \A c \in Child : Held(c)' => Held(c)
      BY <2>1, <1>4, <1>6, <1>7 DEF Held
    <3> QED
      BY <3>1, <2>1, <1>5, <1>7 DEF HeldKept
  <2>4. FreeSound' /\ SlotSound'
    <3>1. CASE RefRead(t)
      <4>1. /\ local'[Main] = [local[Main] EXCEPT !.slot = freelist.num] /\ UNCHANGED <<freelist, count>>
            /\ pc'[Main] = IF freelist.num # 0 THEN "link" ELSE "getn"
        BY <3>1, <1>1, <1>2 DEF RefRead, SetLocal, Goto
      <4>2. local'[Main].slot = freelist.num
        BY <4>1, <1>2
      <4> QED
        BY <4>1, <4>2, <2>1, <1>5 DEF FreeSound, SlotSound
    <3>2. CASE RefLink(t)
      <4>1. /\ pc[Main] = "link" /\ pc'[Main] = "pop" /\ UNCHANGED <<freelist, count>>
            /\ local'[Main] = [local[Main] EXCEPT !.link = registry[local[Main].slot]]
        BY <3>2, <1>1, <1>2 DEF RefLink, Api, SetLocal, Goto
      <4>2. local'[Main].slot = local[Main].slot /\ local'[Main].link = registry[local[Main].slot]
        BY <4>1, <1>2
      <4> QED
        BY <4>1, <4>2, <2>1, <1>5 DEF FreeSound, SlotSound
    <3>3. CASE RefPop(t)
      <4>1. /\ pc[Main] = "pop" /\ pc'[Main] = "put" /\ count' = count /\ local' = local
            /\ freelist' = local[Main].link
        BY <3>3, <1>1, <1>2 DEF RefPop, Api, Goto
      <4>2. freelist' = Number(0) /\ freelist'.num = 0 /\ freelist'.obj = None
        BY <4>1, <1>5 DEF SlotSound, Number
      <4>3. local[Main].slot \in 1 .. count /\ registry[local[Main].slot].obj = None
        <5>1. local[Main].slot = freelist.num /\ freelist.num # 0 /\ registry[local[Main].slot] = Number(0)
          BY <4>1, <1>5 DEF SlotSound, FreeSound
        <5> QED
          BY <5>1, <1>2, <1>5 DEF FreeSound, Number
      <4> QED
        BY <4>1, <4>2, <4>3, <2>1, <1>2, <1>5 DEF FreeSound, SlotSound
    <3>4. CASE RefGetn(t)
      <4>1. /\ pc[Main] = "getn" /\ pc'[Main] = "setn" /\ UNCHANGED <<count, freelist>>
            /\ local'[Main] = [local[Main] EXCEPT !.slot = count + 1]
        BY <3>4, <1>1, <1>2 DEF RefGetn, Api, SetLocal, Goto
      <4>2. local'[Main].slot = count + 1
        BY <4>1, <1>2
      <4> QED
        BY <4>1, <4>2, <2>1, <1>5 DEF FreeSound, SlotSound
    <3>5. CASE RefSetn(t)
      <4>1. /\ pc[Main] = "setn" /\ pc'[Main] = "put" /\ UNCHANGED <<freelist, local>>
            /\ count' = local[Main].slot
        BY <3>5, <1>1, <1>2 DEF RefSetn, Api, Goto
      <4>2. count' = count + 1 /\ local[Main].slot = count + 1 /\ freelist.num = 0
        BY <4>1, <1>5 DEF SlotSound
      <4>3. local[Main].slot \in 1 .. count' /\ local[Main].slot \in Slot
        BY <4>2, <1>2 DEF Slot
      <4>4. registry[local[Main].slot] = Number(0)
        BY <4>2, <4>3, <1>2, <1>5 DEF FreeSound
      <4>5. FreeSound'
        BY <4>1, <4>2, <2>1, <1>2, <1>5 DEF FreeSound, Slot
      <4> QED
        BY <4>1, <4>2, <4>3, <4>4, <4>5, <2>1 DEF SlotSound, Number
    <3> QED
      BY <1>9, <3>1, <3>2, <3>3, <3>4, <3>5
  <2> QED
    BY <2>2, <2>3, <2>4, <1>8 DEF KInv
<1>10. CASE RefPut(t)
  <2> DEFINE l == local[Main]
             o == IF l.todo = 3 THEN l.child ELSE Arg
  <2>1. /\ pc[Main] = "put" /\ UNCHANGED <<freelist, count>>
        /\ registry' = [registry EXCEPT ![l.slot] = Object(o)]
        /\ ref' = IF l.todo = 3 THEN [ref EXCEPT ![l.child] = l.slot] ELSE ref
        /\ local'[Main] = [l EXCEPT !.todo = @ - 1]
        /\ pc'[Main] = IF l.todo = 3 THEN "settop" ELSE "unref"
    BY <1>10, <1>1, <1>2 DEF RefPut, Api, Goto, SetLocal
  <2>2. /\ local'[Main].todo # 3 /\ local'[Main].slot = l.slot
        /\ l.todo # 3 => local'[Main].todo # 3
    <3>1. l.todo \in 0 .. 3 /\ local'[Main].todo = l.todo - 1 /\ local'[Main].slot = l.slot
      BY <2>1, <1>2
    <3> QED
      BY <3>1
  <2>3. freelist.num = 0 /\ l.slot \in 1 .. count /\ l.slot \in Slot /\ registry[l.slot].obj = None
    BY <2>1, <1>2, <1>5 DEF SlotSound, Slot
  <2>4. /\ registry'[l.slot] = Object(o) /\ Object(o).obj = o
        /\ \A s \in Slot : s # l.slot => registry'[s] = registry[s]
    BY <2>1, <2>3, <1>2 DEF Object
  <2>5. NewChild'
    BY <2>1, <2>2, <1>5, <1>7 DEF NewChild
  <2>6. HeldKept'
    <3> SUFFICES ASSUME NEW c \in Child, Held(c)'
                 PROVE  c \in alive' /\ ref'[c] \in Slot /\ registry'[ref'[c]].obj = c
      BY DEF HeldKept
    <3>1. CASE c = l.child /\ l.todo = 3
      BY <3>1, <2>1, <2>3, <2>4, <1>2, <1>5, <1>7
    <3>2. CASE ~(c = l.child /\ l.todo = 3)
      <4>1. Held(c)
        BY <3>2, <1>3, <1>4, <1>6, <1>7 DEF Held
      <4>2. ref'[c] = ref[c]
        BY <3>2, <2>1, <1>2
      <4>3. c \in alive /\ ref[c] \in Slot /\ registry[ref[c]].obj = c /\ ref[c] # l.slot
        BY <4>1, <2>3, <1>1, <1>5 DEF HeldKept
      <4> QED
        BY <4>2, <4>3, <2>4, <1>7
    <3> QED
      BY <3>1, <3>2
  <2>7. FreeSound'
    <3>1. \A s \in Slot : s > count => s # l.slot
      BY <2>3, <1>2 DEF Slot
    <3> QED
      BY <3>1, <2>1, <2>3, <2>4, <1>5 DEF FreeSound
  <2>8. SlotSound'
    <3>1. l.todo # 3 => /\ registry'[local'[Main].slot].obj = Arg
                        /\ local'[Main].slot \in 1 .. count' /\ freelist'.num = 0
      BY <2>1, <2>2, <2>3, <2>4
    <3> QED
      BY <3>1, <2>1 DEF SlotSound
  <2> QED
    BY <2>5, <2>6, <2>7, <2>8, <1>8 DEF KInv
<1> QED
  BY <1>9, <1>10

(* lua_unref: of the main script while no child runs, or of a child that   *)
(* gives back its own slot.                                                *)
LEMMA KUnrefStep ==
  ASSUME IInv, KInv, NEW t \in Thread, UnrefRead(t) \/ UnrefStore(t) \/ UnrefPush(t)
  PROVE  KInv'
<1> USE ThreadAssumption
<1>1. Main \notin Child /\ Main \in Thread /\ Arg \notin Child /\ None \notin Child
  BY DEF Thread
<1>2. /\ pc \in [Thread -> {"none", "created", "done", "deleted", "free", "closed"} \cup NeedsMutex \cup Listed]
      /\ local \in [Thread -> [slot : 0 .. MAXREF, link : Value, child : Child \cup {None}, todo : 0 .. 3]]
      /\ local[t] \in [slot : 0 .. MAXREF, link : Value, child : Child \cup {None}, todo : 0 .. 3]
      /\ registry \in [Slot -> Value] /\ freelist \in Value /\ count \in 0 .. MAXREF
      /\ MAXREF \in Nat
  BY DEF IInv, TypeOK
<1>3. /\ pc[t] \in InUnref /\ pc' = [pc EXCEPT ![t] = pc'[t]]
      /\ UNCHANGED <<count, alive, ref>>
      /\ local' = [local EXCEPT ![t] = local'[t]]
  BY <1>2 DEF UnrefRead, UnrefStore, UnrefPush, Api, Goto, SetLocal, InUnref
<1>4. /\ local'[t].child = local[t].child /\ local'[t].todo = local[t].todo /\ local'[t].slot = local[t].slot
      /\ UnrefRead(t) => local'[t].link = freelist
  <2>1. CASE UnrefRead(t)
    BY <2>1, <1>2 DEF UnrefRead, SetLocal
  <2>2. CASE ~UnrefRead(t)
    BY <2>2 DEF UnrefStore, UnrefPush
  <2> QED
    BY <2>1, <2>2
<1>5. \A u \in Thread \ {t} : pc'[u] = pc[u] /\ local'[u] = local[u]
  BY <1>2, <1>3
<1>6. CASE t = Main
  <2>1. /\ pc[Main] \in Creating \ {"newthread", "free"} /\ Quiet /\ FreeSound /\ SlotSound /\ HeldKept
        /\ local[Main].child \in alive /\ local[Main].todo # 3
    BY <1>3, <1>6 DEF KInv, AloneCreating, NewChild, Creating, InUnref
  <2>2. \A c \in Child : pc'[c] = pc[c] /\ local'[c] = local[c]
    BY <1>1, <1>5, <1>6 DEF Thread
  <2>3. AloneCreating' /\ OwnSlot'
    BY <2>1, <2>2, <1>3 DEF AloneCreating, Quiet, OwnSlot, KInv
  <2>4. NewChild'
    BY <2>1, <1>3, <1>4, <1>6 DEF NewChild
  <2>5. \A c \in Child : Held(c)' => Held(c)
    BY <2>1, <2>2, <1>4, <1>6 DEF Held
  <2>6. HeldKept' /\ FreeSound' /\ SlotSound'
    <3>1. CASE UnrefRead(t)
      <4>1. /\ pc[Main] = "unref" /\ pc'[Main] = "store" /\ UNCHANGED <<registry, freelist>>
            /\ local'[Main].link = freelist /\ freelist.num = 0 /\ freelist.obj = None
        BY <3>1, <1>2, <1>4, <1>6, <2>1 DEF UnrefRead, Api, Goto, SlotSound, FreeSound
      <4>2. freelist = Number(0)
        BY <4>1, <1>2 DEF Number, Value
      <4>3. HeldKept'
        BY <4>1, <2>1, <2>5, <1>3 DEF HeldKept
      <4> QED
        BY <4>1, <4>2, <4>3, <2>1, <1>3, <1>4, <1>6 DEF FreeSound, SlotSound
    <3>2. CASE UnrefStore(t)
      <4>1. /\ pc[Main] = "store" /\ pc'[Main] = "push" /\ freelist' = freelist
            /\ registry' = [registry EXCEPT ![local[Main].slot] = Number(0)]
            /\ local[Main].slot \in 1 .. count /\ registry[local[Main].slot].obj = Arg
            /\ freelist.num = 0
        BY <3>2, <1>2, <1>6, <2>1 DEF UnrefStore, Api, Goto, SlotSound
      <4>2. local[Main].slot \in Slot
        BY <4>1, <1>2 DEF Slot
      <4>3. /\ registry'[local[Main].slot] = Number(0)
            /\ \A s \in Slot : s # local[Main].slot => registry'[s] = registry[s]
        BY <4>1, <4>2, <1>2
      <4>4. HeldKept'
        BY <4>1, <4>3, <2>1, <2>5, <1>1, <1>3 DEF HeldKept
      <4>5. FreeSound'
        BY <4>1, <4>3, <2>1, <1>3 DEF FreeSound
      <4> QED
        BY <4>1, <4>3, <4>4, <4>5, <1>3, <1>4, <1>6 DEF SlotSound
    <3>3. CASE UnrefPush(t)
      <4>1. /\ pc[Main] = "push" /\ pc'[Main] \in {"ref", "newuserdata"} /\ registry' = registry
            /\ freelist' = Number(local[Main].slot)
            /\ local[Main].slot \in 1 .. count /\ registry[local[Main].slot] = Number(0)
        BY <3>3, <1>2, <1>6, <2>1 DEF UnrefPush, Api, Goto, SlotSound
      <4>2. freelist'.num = local[Main].slot /\ freelist'.obj = None
        BY <4>1 DEF Number
      <4>3. HeldKept'
        BY <4>1, <2>1, <2>5, <1>3 DEF HeldKept
      <4>4. FreeSound'
        BY <4>1, <4>2, <2>1, <1>2, <1>3 DEF FreeSound
      <4> QED
        BY <4>1, <4>3, <4>4 DEF SlotSound
    <3> QED
      BY <3>1, <3>2, <3>3
  <2> QED
    BY <2>3, <2>4, <2>6 DEF KInv
<1>7. CASE t # Main
  <2>1. /\ t \in Child /\ pc[t] \in {"unref", "store", "push"} /\ pc'[t] \in {"store", "push", "exit"}
        /\ pc'[t] = "store" => pc[t] = "unref"
        /\ pc'[Main] = pc[Main] /\ local'[Main] = local[Main]
    BY <1>1, <1>2, <1>3, <1>5, <1>7 DEF Thread, InUnref, UnrefRead, UnrefStore, UnrefPush, Api, Goto
  <2>2. ~Quiet /\ ~Quiet'
    BY <2>1 DEF Quiet
  <2>3. \A c \in Child : c # t => pc'[c] = pc[c] /\ local'[c] = local[c]
    BY <1>5 DEF Thread
  <2>4. AloneCreating' /\ NewChild'
    BY <2>1, <2>2, <1>3 DEF KInv, AloneCreating, NewChild
  <2>5. OwnSlot'
    BY <2>1, <2>3, <1>3, <1>4 DEF KInv, OwnSlot
  <2>6. \A c \in Child : Held(c)' => Held(c) /\ (c = t => pc[t] = "unref")
    <3>1. pc[Main] \notin Creating
      BY <2>2 DEF KInv, AloneCreating
    <3> QED
      BY <3>1, <2>1, <2>3 DEF Held
  <2>7. HeldKept'
    <3>1. CASE UnrefStore(t)
      <4>1. /\ pc[t] = "store" /\ pc'[t] = "push" /\ Held(t) /\ local[t].slot = ref[t]
            /\ registry' = [registry EXCEPT ![ref[t]] = local[t].link]
        BY <3>1, <2>1, <1>2 DEF UnrefStore, Api, Goto, Held, KInv, OwnSlot
      <4>2. SUFFICES ASSUME NEW c \in Child, Held(c)'
                     PROVE  c \in alive' /\ ref'[c] \in Slot /\ registry'[ref'[c]].obj = c
        BY DEF HeldKept
      <4>3. Held(c) /\ c # t
        BY <4>1, <4>2, <2>6
      <4>4. /\ c \in alive /\ ref[c] \in Slot /\ registry[ref[c]].obj = c
            /\ ref[t] \in Slot /\ registry[ref[t]].obj = t
        BY <4>1, <4>3, <2>1 DEF KInv, HeldKept
      <4>5. ref[c] # ref[t]
        BY <4>3, <4>4
      <4> QED
        BY <4>1, <4>4, <4>5, <1>2, <1>3
    <3>2. CASE ~UnrefStore(t)
      <4>1. registry' = registry
        BY <3>2 DEF UnrefRead, UnrefPush
      <4> QED
        BY <4>1, <2>6, <1>3 DEF KInv, HeldKept
    <3> QED
      BY <3>1, <3>2
  <2> QED
    BY <2>2, <2>4, <2>5, <2>7 DEF KInv
<1> QED
  BY <1>6, <1>7

LEMMA KChildSteps ==
  ASSUME IInv, KInv, NEW c \in Child, ChildStep(c)
  PROVE  KInv'
<1> USE ThreadAssumption
<1>1. Main \notin Child /\ Main \in Thread /\ c \in Thread /\ c # Main
  BY DEF Thread
<1>2. /\ pc \in [Thread -> {"none", "created", "done", "deleted", "free", "closed"} \cup NeedsMutex \cup Listed]
      /\ local \in [Thread -> [slot : 0 .. MAXREF, link : Value, child : Child \cup {None}, todo : 0 .. 3]]
      /\ local[c] \in [slot : 0 .. MAXREF, link : Value, child : Child \cup {None}, todo : 0 .. 3]
      /\ ref[c] \in 0 .. MAXREF
  BY <1>1 DEF IInv, TypeOK
<1>3. UNCHANGED <<registry, freelist, count, alive, ref>>
  BY DEF ChildStep, Return, Enlist
<1>4. /\ pc[c] \in {"vm", "done"} /\ pc'[c] \in {"done", "unref"}
      /\ \A u \in Thread \ {c} : pc'[u] = pc[u] /\ local'[u] = local[u]
  BY <1>1, <1>2 DEF ChildStep, Return, Enlist, Api, Goto, SetLocal
<1>5. pc'[c] = "unref" => local'[c].slot = ref[c]
  <2>1. CASE Return(c)
    BY <2>1, <1>1, <1>2 DEF Return, Goto
  <2>2. CASE Enlist(c)
    BY <2>2, <1>1, <1>2 DEF Enlist, SetLocal
  <2> QED
    BY <2>1, <2>2 DEF ChildStep
<1>6. ~Quiet /\ ~Quiet'
  BY <1>4 DEF Quiet
<1>7. pc'[Main] = pc[Main] /\ local'[Main] = local[Main] /\ \A e \in Child \ {c} : pc'[e] = pc[e] /\ local'[e] = local[e]
  BY <1>1, <1>4 DEF Thread
<1>8. AloneCreating' /\ NewChild'
  BY <1>3, <1>6, <1>7 DEF KInv, AloneCreating, NewChild
<1>9. OwnSlot'
  BY <1>3, <1>4, <1>5, <1>7 DEF KInv, OwnSlot
<1>10. \A e \in Child : Held(e)' => Held(e)
  BY <1>4, <1>7 DEF Held
<1>11. HeldKept'
  BY <1>3, <1>10 DEF KInv, HeldKept
<1> QED
  BY <1>6, <1>8, <1>9, <1>11 DEF KInv

(* The steps that delete threads.  With no careless script the list is     *)
(* empty while the main script creates one, and complete when it closes.   *)
LEMMA KFreeingStep ==
  ASSUME Careless = {}, IInv, IInv', KInv,
         \/ FreeAndMalloc \/ LuaClose \/ \E t \in Thread : Collect(t)
  PROVE  KInv'
<1> USE ThreadAssumption
<1>1. Main \notin Child /\ Main \in Thread /\ "close" \notin Careless
  BY DEF Thread
<1>2. UNCHANGED <<registry, freelist, count, ref, local>>
  BY DEF FreeAndMalloc, LuaClose, Collect
<1> DEFINE Moved(t, l) ==
      /\ pc'[t] = l
      /\ \A u \in Thread \ {t} : \/ pc'[u] = pc[u]
                                 \/ u \in Child /\ pc[u] \in Listed /\ pc'[u] = "deleted"
<1>3. CASE FreeAndMalloc
  <2>1. Moved(Main, "ref") /\ pc[Main] = "free" /\ alive' = alive
    BY <1>1, <1>3, Freeing DEF FreeAndMalloc, IInv, Listed, InUnref
  <2>2. Quiet /\ pc[Main] \in Creating \ {"newthread"}
    BY <2>1 DEF KInv, AloneCreating, Creating
  <2>3. \A c \in Child : pc'[c] = pc[c]
    BY <2>1, <2>2, <1>1 DEF Quiet, Listed, InUnref, Thread
  <2>4. AloneCreating' /\ OwnSlot' /\ NewChild'
    BY <2>1, <2>2, <2>3, <1>2 DEF KInv, AloneCreating, Quiet, OwnSlot, NewChild, InUnref
  <2>5. HeldKept'
    <3>1. \A c \in Child : Held(c)' => Held(c)
      BY <2>1, <2>2, <2>3, <1>2 DEF Held
    <3> QED
      BY <3>1, <2>1, <1>2 DEF KInv, HeldKept
  <2>6. FreeSound' /\ SlotSound'
    BY <2>1, <2>2, <1>2 DEF KInv, FreeSound, SlotSound
  <2> QED
    BY <2>4, <2>5, <2>6 DEF KInv
<1>4. CASE LuaClose
  <2>1. Moved(Main, "closed") /\ pc[Main] = "vm"
    BY <1>1, <1>4, Freeing DEF LuaClose, IInv, Listed, InUnref
  <2>2. \A c \in Child : pc[c] \in {"none", "deleted"} \cup Listed
    BY <1>1, <1>4 DEF LuaClose, MayClose
  <2>3. \A c \in Child : pc'[c] \in {"none", "deleted"}
    <3> SUFFICES ASSUME NEW c \in Child, pc'[c] \notin {"none", "deleted"} PROVE FALSE
      OBVIOUS
    <3>1. pc'[c] = pc[c] /\ pc[c] \in Listed
      BY <2>1, <2>2, <1>1 DEF Thread
    <3>2. PICK n \in 0 .. Len(terminated) : StopsAt(Main, n) /\ Delete(n, Main, "closed")
      BY <1>4 DEF LuaClose, FreeTerminatedThreads
    <3>3. /\ terminated \in Seq(Child) /\ Len(terminated) \in Nat /\ DOMAIN terminated = 1 .. Len(terminated)
          /\ \A k \in 1 .. Len(terminated) : terminated[k] # Main
      BY <1>1 DEF IInv, TypeOK
    <3>4. n = Len(terminated)
      <4>1. n < Len(terminated) => n + 1 \in 1 .. Len(terminated) /\ terminated[n + 1] = Main
        BY <3>2, <3>3 DEF StopsAt
      <4>2. ~(n < Len(terminated))
        BY <4>1, <3>3
      <4>3. n \in Nat /\ n <= Len(terminated) /\ Len(terminated) \in Nat
        BY <3>3
      <4>4. \A a, b \in Nat : a <= b /\ ~(a < b) => a = b
        OBVIOUS
      <4> QED
        BY <4>2, <4>3, <4>4
    <3>5. PICK k \in 1 .. n : terminated[k] = c
      BY <3>1, <3>3, <3>4 DEF IInv, ListWhole
    <3>6. pc'[c] = "deleted"
      BY <3>2, <3>5 DEF Delete, Thread
    <3> QED
      BY <3>6
  <2>4. AloneCreating' /\ OwnSlot' /\ NewChild'
    BY <2>1, <2>3, <1>2 DEF AloneCreating, OwnSlot, NewChild, Creating, InRef, InUnref
  <2>5. HeldKept'
    <3>1. \A c \in Child : ~Held(c)'
      BY <2>1, <2>3 DEF Held, Creating, InRef, InUnref
    <3> QED
      BY <3>1 DEF HeldKept
  <2>6. Quiet' => Quiet
    BY <2>1, <2>3, <1>1 DEF Quiet, Thread
  <2>7. Quiet' => FreeSound' /\ SlotSound'
    BY <2>1, <2>6, <1>2 DEF KInv, FreeSound, SlotSound
  <2> QED
    BY <2>4, <2>5, <2>7 DEF KInv
<1>5. ASSUME NEW t \in Thread, Collect(t)
      PROVE  KInv'
  <2>1. /\ Moved(t, "vm") /\ pc[t] = "vm" /\ alive' = alive \ (alive \ Anchored(t))
    BY <1>1, <1>5, Freeing DEF Collect, IInv, Listed, InUnref
  <2>2. pc[Main] \notin Creating /\ pc'[Main] = pc[Main]
    <3>1. t = Main \/ ~Quiet
      BY <2>1 DEF Quiet, Thread
    <3> QED
      BY <3>1, <2>1, <1>1 DEF KInv, AloneCreating, Creating, InRef, InUnref
  <2>3. \A c \in Child : pc'[c] = pc[c] \/ pc'[c] = "deleted"
    BY <2>1, <1>1 DEF Thread
  <2>4. AloneCreating' /\ OwnSlot' /\ NewChild'
    BY <2>2, <2>3, <1>2 DEF KInv, AloneCreating, OwnSlot, NewChild, Creating
  <2>5. HeldKept'
    <3>1. \A c \in Child : Held(c)' => Held(c)
      BY <2>2, <2>3 DEF Held
    <3> SUFFICES ASSUME NEW c \in Child, Held(c)
                 PROVE  c \in alive' /\ ref[c] \in Slot /\ registry[ref[c]].obj = c
      BY <3>1, <1>2 DEF HeldKept
    <3>2. c \in alive /\ ref[c] \in Slot /\ registry[ref[c]].obj = c
      BY DEF KInv, HeldKept
    <3>3. c \in Anchored(t)
      BY <3>2 DEF Anchored
    <3> QED
      BY <3>2, <3>3, <2>1
  <2>6. Quiet' => Quiet
    BY <2>3 DEF Quiet
  <2>7. Quiet' => FreeSound' /\ SlotSound'
    BY <2>2, <2>6, <1>2 DEF KInv, FreeSound, SlotSound
  <2> QED
    BY <2>4, <2>5, <2>7 DEF KInv
<1> QED
  BY <1>3, <1>4, <1>5

LEMMA NextKInv == ASSUME Careless = {}, IInv, KInv, [Next]_vars PROVE KInv'
<1>1. IInv'
  BY NextIInv
<1>2. CASE MainStep
  BY <1>1, <1>2, KMainCalls, KFreeingStep DEF MainStep
<1>3. CASE Closed \/ UNCHANGED vars
  BY <1>3 DEF Closed, vars, KInv, AloneCreating, HeldKept, Held, OwnSlot, NewChild, Quiet, FreeSound, SlotSound
<1>4. ASSUME NEW c \in Child, ChildStep(c) PROVE KInv'
  BY <1>4, KChildSteps
<1>5. ASSUME NEW t \in Thread, Step(t) PROVE KInv'
  <2>1. CASE Lock(t) \/ CallC(t)
    BY <2>1 DEF Lock, CallC, KInv, AloneCreating, HeldKept, Held, OwnSlot, NewChild, Quiet, FreeSound, SlotSound
  <2>2. CASE Collect(t)
    BY <2>2, <1>1, KFreeingStep
  <2>3. CASE RefRead(t) \/ RefLink(t) \/ RefPop(t) \/ RefGetn(t) \/ RefSetn(t) \/ RefPut(t)
    BY <2>3, KRefStep
  <2>4. CASE UnrefRead(t) \/ UnrefStore(t) \/ UnrefPush(t)
    BY <2>4, KUnrefStep
  <2> QED
    BY <1>5, <2>1, <2>2, <2>3, <2>4 DEF Step
<1> QED
  BY <1>2, <1>3, <1>4, <1>5 DEF Next

(* When the script creates its threads first and closes last, the slot of  *)
(* lua_ref keeps every thread's Lua state from the garbage collector until *)
(* the thread has given the slot back.                                     *)
THEOREM KeptCorrect == ASSUME Careless = {} PROVE Spec => []NotCollected
<1>1. Init => IInv /\ KInv
  BY InitIInv, InitKInv
<1>2. IInv /\ KInv /\ [Next]_vars => IInv' /\ KInv'
  BY NextIInv, NextKInv
<1>3. IInv /\ KInv => NotCollected
  BY DEF KInv, HeldKept, Held, NotCollected
<1> QED
  BY <1>1, <1>2, <1>3, PTL DEF Spec

(* Whoever holds the mutex of the Lua machine exists and will release it:  *)
(* under the same assumption no thread is deleted that still needs it.     *)
LEMMA NextOwner ==
  ASSUME Careless = {}, IInv, KInv, OwnerCanRelease, [Next]_vars
  PROVE  OwnerCanRelease'
<1> USE ThreadAssumption
<1>1. Main \notin Child /\ Main \in Thread /\ Nobody \notin Thread
  BY DEF Thread, Main, Nobody
<1>2. /\ pc \in [Thread -> {"none", "created", "done", "deleted", "free", "closed"} \cup NeedsMutex \cup Listed]
      /\ mutex \in Thread \cup {Nobody}
  BY DEF IInv, TypeOK
<1>3. CASE mutex' = Nobody
  BY <1>3 DEF OwnerCanRelease
<1>4. CASE FreeAndMalloc
  <2>1. /\ pc[Main] = "free" /\ mutex' = mutex
        /\ pc'[Main] = "ref"
        /\ \A u \in Thread \ {Main} : \/ pc'[u] = pc[u]
                                      \/ u \in Child /\ pc[u] \in Listed /\ pc'[u] = "deleted"
    BY <1>1, <1>4, Freeing DEF FreeAndMalloc, IInv, Listed, InUnref
  <2>2. \A c \in Child : pc[c] \notin Listed
    BY <2>1 DEF KInv, AloneCreating, Quiet, Creating, Listed, InUnref
  <2> QED
    BY <2>1, <2>2, <1>2 DEF OwnerCanRelease, NeedsMutex, InRef, InUnref
<1>5. ASSUME NEW t \in Thread, Collect(t) PROVE OwnerCanRelease'
  <2>1. mutex' = t /\ pc'[t] = "vm"
    BY <1>1, <1>5, Freeing DEF Collect, IInv, Listed, InUnref
  <2> QED
    BY <2>1 DEF OwnerCanRelease, NeedsMutex
<1>6. ASSUME NEW c \in Child, Enlist(c) PROVE OwnerCanRelease'
  <2>1. pc[c] = "done" /\ mutex' = mutex /\ pc' = [pc EXCEPT ![c] = "unref"]
    BY <1>6 DEF Enlist, Goto
  <2> QED
    BY <2>1, <1>2 DEF OwnerCanRelease, NeedsMutex, InUnref
<1>7. ASSUME NEW t \in Thread, Lock(t) PROVE OwnerCanRelease'
  BY <1>7 DEF Lock, OwnerCanRelease
<1>8. CASE Closed \/ UNCHANGED vars
  BY <1>8 DEF Closed, vars, OwnerCanRelease
<1>9. CASE \/ NewThread \/ SetTop \/ CreateThread \/ LuaClose
           \/ \E c \in Child : CallNew(c) \/ Resume(c) \/ Return(c)
           \/ \E t \in Thread : \/ CallC(t)
                              \/ RefRead(t) \/ RefLink(t) \/ RefPop(t) \/ RefGetn(t) \/ RefSetn(t) \/ RefPut(t)
                              \/ UnrefRead(t) \/ UnrefStore(t) \/ UnrefPush(t)
  <2>1. mutex' = Nobody
    BY <1>9 DEF NewThread, SetTop, CreateThread, LuaClose, CallNew, Resume, Return, CallC, RefRead,
                RefLink, RefPop, RefGetn, RefSetn, RefPut, UnrefRead, UnrefStore, UnrefPush, Api
  <2> QED
    BY <2>1, <1>3
<1> QED
  BY <1>4, <1>5, <1>6, <1>7, <1>8, <1>9 DEF Next, MainStep, ChildStep, Step

(* In such a script the mutex of Lua is never held by a thread that has    *)
(* been deleted, so that whoever waits for it can get it.                  *)
THEOREM OwnerCorrect == ASSUME Careless = {} PROVE Spec => []OwnerCanRelease
<1>1. Init => IInv /\ KInv /\ OwnerCanRelease
  BY InitIInv, InitKInv DEF Init, OwnerCanRelease
<1>2. IInv /\ KInv /\ OwnerCanRelease /\ [Next]_vars => IInv' /\ KInv' /\ OwnerCanRelease'
  BY NextIInv, NextKInv, NextOwner
<1> QED
  BY <1>1, <1>2, PTL DEF Spec
=============================================================================
