------------------------------- MODULE Mtffs --------------------------------
(***************************************************************************)
(* MTFFS (packages/fs/mtffs/current/src/mtffs.c), the flash file system of *)
(* the eCos shell.  The FAT, a list of file entries, is cached in RAM and  *)
(* written back only by umount and unlink; a file is a chain of flash      *)
(* blocks, each with the number of the next one in its header (0: last,    *)
(* -1: the block is erased, and by that free).                             *)
(*                                                                         *)
(* Calls are serialised by the file system lock of eCos.  A call that      *)
(* writes is one step per pass of its loop, and power can be lost between  *)
(* two of them; with "tear", also between the erase and write operations   *)
(* of one pass and of umount and unlink.                                   *)
(***************************************************************************)
EXTENDS Integers, Sequences, FiniteSets

CONSTANTS
  Names,         \* file names
  FILES,         \* entries in the FAT (mtffs_filenumber)
  BLOCKS,        \* blocks behind it; block 1 is the first one
  PAYLOAD,       \* units of data in a block
  Units,         \* what a unit may be
  Writes,        \* the data a call may write, sequences of units
  Handles,       \* open files
  Careless       \* what may happen: "hole" a write beyond the end of a file,
                 \* "tear" a loss of power between two flash operations of
                 \* a call, "stale" an unlink of a file that is open, "names"
                 \* a rename to a name in use

ASSUME SizeAssumption ==
  /\ FILES \in Nat \ {0} /\ BLOCKS \in Nat \ {0} /\ PAYLOAD \in Nat \ {0}
  /\ Writes \subseteq Seq(Units) \ {<< >>}
  /\ "" \notin Names
  /\ Careless \subseteq {"hole", "tear", "stale", "names"}

VARIABLES
  powered,       \* the device has power
  mounted,       \* mtffs_status.mtffs_mounted
  fatbuffer,     \* the FAT in RAM: entry to [filename, filesize, nextblock]
  flash,         \* the FAT on flash, << >> when erased; headers; data
  file,          \* handle to [fe, offset, append]; fe = 0: closed
  call,          \* the write under way, or << >>
  fd             \* the handle it is for

vars == <<powered, mounted, fatbuffer, flash, file, call, fd>>

Block == 1 .. BLOCKS
Entry == 1 .. FILES
ERASED == "erased"                   \* what a unit of an erased block reads as
EmptyFe == [filename |-> "", filesize |-> 0, nextblock |-> 0]
NoFat == [e \in Entry |-> EmptyFe]
Closed == [fe |-> 0, offset |-> 0, append |-> FALSE]
Idle == call = << >>

ErasedBlock == [u \in 0 .. PAYLOAD - 1 |-> ERASED]

(* A flash that has never been used.                                       *)
Init ==
  /\ powered = TRUE /\ mounted = FALSE
  /\ fatbuffer = NoFat
  /\ flash = [fat |-> << >>,
              next |-> [b \in Block |-> -1],
              data |-> [b \in Block |-> ErasedBlock]]
  /\ file = [h \in Handles |-> Closed]
  /\ call = << >> /\ fd \in Handles

-----------------------------------------------------------------------------

(* The blocks of a chain that starts at block b: its k-th block, or what   *)
(* ended it, 0 or -1.                                                      *)
Chain(fl, b) ==
  LET at[k \in 0 .. BLOCKS] ==
        IF k = 0 THEN b
        ELSE IF at[k - 1] \in Block THEN fl.next[at[k - 1]] ELSE at[k - 1]
  IN at

BlocksOf(fl, b) == {Chain(fl, b)[k] : k \in 0 .. BLOCKS} \cap Block

(* mtffs_findfile, mtffs_emptyfe, mtffs_emptyblock: the first match, or 0. *)
First(S) == IF S = {} THEN 0 ELSE CHOOSE i \in S : \A j \in S : i <= j

findfile(n) == First({e \in Entry : fatbuffer[e].filename = n})
emptyfe == findfile("")

(* A slip the properties catch: the last block of a chain for an empty one. *)
emptyblockOrLast(fl) == First({b \in Block : fl.next[b] <= 0})

emptyblock(fl) == First({b \in Block : fl.next[b] = -1})

Erase(fl, b) == [fl EXCEPT !.next[b] = -1, !.data[b] = ErasedBlock]

(* mtffs_updateblock: erase a block and write it anew.                     *)
updateblock(fl, b, next, data) == [fl EXCEPT !.next[b] = next, !.data[b] = data]

writefat == [flash EXCEPT !.fat = fatbuffer]

(* mtffs_mount: a flash without a FAT is erased and given an empty one.    *)
mkfs == [fat |-> NoFat,
         next |-> [b \in Block |-> -1], data |-> [b \in Block |-> ErasedBlock]]

Mount ==
  /\ ~mounted /\ mounted' = TRUE
  /\ flash' = IF flash.fat = << >> THEN mkfs ELSE flash
  /\ fatbuffer' = flash'.fat
  /\ UNCHANGED <<file, call, fd>>

AllClosed == \A h \in Handles : file[h].fe = 0

(* A slip the properties catch: the FAT is not written back.               *)
UmountLazy ==
  /\ mounted /\ AllClosed
  /\ mounted' = FALSE
  /\ UNCHANGED <<fatbuffer, flash, file, call, fd>>

Umount ==
  /\ mounted /\ AllClosed
  /\ flash' = writefat
  /\ mounted' = FALSE
  /\ UNCHANGED <<fatbuffer, file, call, fd>>

(* mtffs_open.  O_EXCL only sets err, which nothing looks at any more.     *)
Open(h, n, creat, append) ==
  /\ mounted /\ Idle /\ file[h].fe = 0
  /\ LET old == findfile(n)
         new == IF old = 0 /\ creat THEN emptyfe ELSE 0
         fe == old + new
     IN /\ fe # 0
        /\ fatbuffer' = IF new = 0 THEN fatbuffer
                        ELSE [fatbuffer EXCEPT ![new] = [EmptyFe EXCEPT !.filename = n]]
        /\ file' = [file EXCEPT ![h] =
                      [fe |-> fe,
                       offset |-> IF append THEN fatbuffer'[fe].filesize ELSE 0,
                       append |-> append]]
  /\ UNCHANGED <<mounted, flash, call, fd>>

Close(h) ==
  /\ mounted /\ Idle /\ file[h].fe # 0
  /\ file' = [file EXCEPT ![h] = Closed]
  /\ UNCHANGED <<mounted, fatbuffer, flash, call, fd>>

(* A file that exists and, unless the caller is careless, is not open.  A  *)
(* handle keeps its entry, which the next new file gets.                   *)
Unlinkable(n) ==
  LET e == findfile(n)
  IN e # 0 /\ ("stale" \in Careless \/ \A h \in Handles : file[h].fe # e)

(* The walk along a chain stops at 0 only.  At an erased block it goes on  *)
(* to block -1, and the driver refuses to read there.                      *)
Walked(e) == Chain(flash, fatbuffer[e].nextblock)[BLOCKS] = 0

(* A slip the properties catch: the chain is not erased.                   *)
UnlinkFatOnly(n) ==
  LET e == findfile(n) IN
  /\ mounted /\ Idle /\ Unlinkable(n)
  /\ fatbuffer' = [fatbuffer EXCEPT ![e] = EmptyFe]
  /\ flash' = [flash EXCEPT !.fat = IF Walked(e) THEN fatbuffer' ELSE @]
  /\ UNCHANGED <<mounted, file, call, fd>>

(* A slip the properties catch: the chain is read to its end before the    *)
(* first block is erased, and the error comes before all of them.          *)
UnlinkReadsFirst(n) ==
  LET e == findfile(n)
      gone == IF Walked(e) THEN BlocksOf(flash, fatbuffer[e].nextblock) ELSE {} IN
  /\ mounted /\ Idle /\ Unlinkable(n)
  /\ fatbuffer' = [fatbuffer EXCEPT ![e] = EmptyFe]
  /\ flash' = [fat |-> IF Walked(e) THEN fatbuffer' ELSE flash.fat,
               next |-> [b \in Block |-> IF b \in gone THEN -1 ELSE flash.next[b]],
               data |-> [b \in Block |-> IF b \in gone THEN ErasedBlock ELSE flash.data[b]]]
  /\ UNCHANGED <<mounted, file, call, fd>>

(* mtffs_unlink: clear the entry, erase the chain, write the FAT; the last *)
(* not if the walk has ended with an error.                                *)
Unlink(n) ==
  LET e == findfile(n)
      gone == BlocksOf(flash, fatbuffer[e].nextblock) IN
  /\ mounted /\ Idle /\ Unlinkable(n)
  /\ fatbuffer' = [fatbuffer EXCEPT ![e] = EmptyFe]
  /\ flash' = [fat |-> IF Walked(e) THEN fatbuffer' ELSE flash.fat,
               next |-> [b \in Block |-> IF b \in gone THEN -1 ELSE flash.next[b]],
               data |-> [b \in Block |-> IF b \in gone THEN ErasedBlock ELSE flash.data[b]]]
  /\ UNCHANGED <<mounted, file, call, fd>>

(* mtffs_rename.  It does not look for a file of the new name: a careful   *)
(* caller does.                                                            *)
Rename(n, m) ==
  LET e == findfile(n) IN
  /\ mounted /\ Idle /\ e # 0
  /\ "names" \in Careless \/ findfile(m) = 0
  /\ fatbuffer' = [fatbuffer EXCEPT ![e].filename = m]
  /\ UNCHANGED <<mounted, flash, file, call, fd>>

-----------------------------------------------------------------------------

(* mtffs_fo_lseek, to a position from the start; beyond the end only in a  *)
(* careless caller.                                                        *)
Lseek(h, p) ==
  /\ mounted /\ Idle /\ file[h].fe # 0
  /\ "hole" \in Careless \/ p <= fatbuffer[file[h].fe].filesize
  /\ file' = [file EXCEPT ![h].offset = p]
  /\ UNCHANGED <<mounted, fatbuffer, flash, call, fd>>

(* mtffs_fo_write begins: with O_APPEND, at the end of the file.           *)
Write(h, data) ==
  LET fe == fatbuffer[file[h].fe]
      at == IF file[h].append THEN fe.filesize ELSE file[h].offset IN
  /\ mounted /\ Idle /\ file[h].fe # 0
  /\ "hole" \in Careless \/ at <= fe.filesize
  /\ call' = [entry |-> file[h].fe, start |-> at, data |-> data, done |-> 0]
  /\ fd' = h
  /\ file' = [file EXCEPT ![h].offset = at]
  /\ UNCHANGED <<mounted, fatbuffer, flash>>

Lesser(a, b) == IF a < b THEN a ELSE b
Greater(a, b) == IF a > b THEN a ELSE b

(* One pass of its loop: find the block of the current position, with      *)
(* mtffs_allocnewblock at the end of the chain, and write what fits in it. *)
pos == call.start + call.done
Wanted == pos \div PAYLOAD                     \* index of the block in the chain
Path == Chain(flash, fatbuffer[call.entry].nextblock)
MissingAt == First({k \in 0 .. BLOCKS : Path[k] \notin Block})
Found == Wanted <= BLOCKS /\ Path[Wanted] \in Block

(* The chain with one more block: entered in the FAT, or in the header of  *)
(* the last block.                                                         *)
Grown(b) ==
  IF MissingAt = 0
    THEN /\ fatbuffer' = [fatbuffer EXCEPT ![call.entry].nextblock = b]
         /\ UNCHANGED flash
    ELSE /\ UNCHANGED fatbuffer
         /\ flash' = [flash EXCEPT !.next[Path[MissingAt - 1]] = b]

(* How much of the data this pass writes.                                  *)
(* A slip the properties catch: a pass that does not end with its block.   *)
ChunkAnywhere == Lesser(Len(call.data) - call.done, PAYLOAD)

Chunk == Lesser(Len(call.data) - call.done, PAYLOAD - (pos % PAYLOAD))

(* A slip the properties catch: the header of a free block is kept too.    *)
WriteToStillFree(fl, b) ==
  updateblock(fl, b, fl.next[b],
    [u \in 0 .. PAYLOAD - 1 |->
       IF u >= pos % PAYLOAD /\ u < (pos % PAYLOAD) + Chunk
         THEN call.data[call.done + 1 + u - (pos % PAYLOAD)] ELSE fl.data[b][u]])

(* Data and header of the block after the write: the link is kept, unless  *)
(* the block was free.                                                     *)
WriteTo(fl, b) ==
  updateblock(fl, b, IF fl.next[b] = -1 THEN 0 ELSE fl.next[b],
    [u \in 0 .. PAYLOAD - 1 |->
       IF u >= pos % PAYLOAD /\ u < (pos % PAYLOAD) + Chunk
         THEN call.data[call.done + 1 + u - (pos % PAYLOAD)] ELSE fl.data[b][u]])

(* A slip the properties catch: what overwrites counts as growth.          *)
AdvanceAlwaysGrows(fat) ==
  LET n == call.done + Chunk
      end == call.start + n IN
  IF n < Len(call.data)
    THEN call' = [call EXCEPT !.done = n] /\ fatbuffer' = fat /\ UNCHANGED file
    ELSE /\ call' = << >>
         /\ fatbuffer' = [fat EXCEPT ![call.entry].filesize = @ + n]
         /\ file' = [file EXCEPT ![fd].offset = end]

(* After the last pass the entry gets its size and the handle its offset.  *)
Advance(fat) ==
  LET n == call.done + Chunk
      end == call.start + n IN
  IF n < Len(call.data)
    THEN call' = [call EXCEPT !.done = n] /\ fatbuffer' = fat /\ UNCHANGED file
    ELSE /\ call' = << >>
         /\ fatbuffer' = [fat EXCEPT ![call.entry].filesize = Greater(@, end)]
         /\ file' = [file EXCEPT ![fd].offset = end]

WriteInPlace ==
  /\ ~Idle /\ Found
  /\ flash' = WriteTo(flash, Path[Wanted])
  /\ Advance(fatbuffer)
  /\ UNCHANGED <<mounted, fd>>

WriteNewBlock ==
  LET b == emptyblock(flash) IN
  /\ ~Idle /\ ~Found /\ MissingAt = Wanted /\ Path[Wanted] = 0 /\ b # 0
  /\ flash' = WriteTo(IF Wanted = 0 THEN flash
                      ELSE [flash EXCEPT !.next[Path[Wanted - 1]] = b], b)
  /\ Advance(IF Wanted = 0 THEN [fatbuffer EXCEPT ![call.entry].nextblock = b] ELSE fatbuffer)
  /\ UNCHANGED <<mounted, fd>>

(* The call fails and leaves size and offset as they were: no block is     *)
(* free (ENOSPC), or the way to the position leads over an erased block    *)
(* (ESPIPE), be it the one that this call has just linked.                 *)
WriteFails ==
  /\ ~Idle /\ ~Found /\ call' = << >>
  /\ \/ Path[MissingAt] = 0 /\ emptyblock(flash) = 0 /\ UNCHANGED <<fatbuffer, flash>>
     \/ Path[MissingAt] = -1 /\ UNCHANGED <<fatbuffer, flash>>
     \/ /\ Path[MissingAt] = 0 /\ emptyblock(flash) # 0 /\ MissingAt < Wanted
        /\ Grown(emptyblock(flash))
  /\ UNCHANGED <<mounted, file, fd>>

(* What mtffs_fo_read finds in a file: ESPIPE where the chain ends before  *)
(* the file does.                                                          *)
ESPIPE == "ESPIPE"
Content(fl, fe) ==
  LET at == Chain(fl, fe.nextblock) IN
  [i \in 1 .. fe.filesize |->
     LET b == at[(i - 1) \div PAYLOAD]
     IN IF b \in Block THEN fl.data[b][(i - 1) % PAYLOAD] ELSE ESPIPE]

(* Power is lost: the FAT in RAM and every open file are gone.             *)
PowerLoss ==
  /\ powered /\ powered' = FALSE /\ mounted' = FALSE /\ fatbuffer' = NoFat
  /\ file' = [h \in Handles |-> Closed]
  /\ call' = << >>
  /\ UNCHANGED <<flash, fd>>

(* The same between two flash operations of a call: after the FAT or a     *)
(* block was erased and before it is written anew; with part of a chain    *)
(* erased; with a block linked that is not written yet.                    *)
FatErased(fl) == [fl EXCEPT !.fat = << >>]

TornUnlink(n) ==
  LET at == Chain(flash, fatbuffer[findfile(n)].nextblock)
      cut[k \in 0 .. BLOCKS] ==
        IF k = 0 THEN flash
        ELSE IF at[k - 1] \in Block THEN Erase(cut[k - 1], at[k - 1]) ELSE cut[k - 1]
  IN {cut[k] : k \in 0 .. BLOCKS}
       \cup (IF Walked(findfile(n)) THEN {FatErased(cut[BLOCKS])} ELSE {})

TornWrite ==
  IF Found THEN {Erase(flash, Path[Wanted])}
  ELSE IF MissingAt = 0 \/ Path[MissingAt] # 0 \/ emptyblock(flash) = 0 THEN {}
  ELSE LET last == Path[MissingAt - 1]
       IN {Erase(flash, last), [flash EXCEPT !.next[last] = emptyblock(flash)]}

PowerLossWithin ==
  /\ "tear" \in Careless /\ powered /\ mounted
  /\ \/ AllClosed /\ flash' = FatErased(flash)
     \/ Idle /\ \E n \in Names : Unlinkable(n) /\ flash' \in TornUnlink(n)
     \/ ~Idle /\ flash' \in TornWrite
  /\ powered' = FALSE /\ mounted' = FALSE /\ fatbuffer' = NoFat
  /\ file' = [h \in Handles |-> Closed]
  /\ call' = << >> /\ UNCHANGED fd

PowerOn == ~powered /\ powered' = TRUE /\ UNCHANGED <<mounted, fatbuffer, flash, file, call, fd>>

FsCall ==
  \/ Mount \/ Umount
  \/ \E n \in Names : Unlink(n) \/ \E m \in Names : Rename(n, m)
  \/ \E h \in Handles :
       \/ \E n \in Names, creat, append \in BOOLEAN : Open(h, n, creat, append)
       \/ Close(h)
       \/ \E p \in 0 .. BLOCKS * PAYLOAD : Lseek(h, p)
       \/ \E w \in Writes : Write(h, w)

Next ==
  \/ powered /\ (FsCall \/ WriteInPlace \/ WriteNewBlock \/ WriteFails) /\ UNCHANGED powered
  \/ PowerLoss \/ PowerLossWithin \/ PowerOn

Spec == Init /\ [][Next]_vars

-----------------------------------------------------------------------------

Unit == Units \cup {ERASED}
Fe == [filename : Names \cup {""}, filesize : 0 .. BLOCKS * PAYLOAD, nextblock : 0 .. BLOCKS]

TypeOK ==
  /\ powered \in BOOLEAN /\ mounted \in BOOLEAN
  /\ fatbuffer \in [Entry -> Fe]
  /\ flash.fat \in {<< >>} \cup [Entry -> Fe]
  /\ flash.next \in [Block -> -1 .. BLOCKS]
  /\ flash.data \in [Block -> [0 .. PAYLOAD - 1 -> Unit]]
  /\ \A h \in Handles : file[h].fe \in 0 .. FILES /\ file[h].offset \in 0 .. BLOCKS * PAYLOAD
  /\ Idle \/ call.done < Len(call.data)

(* The blocks an entry of the FAT reaches.                                 *)
Reached(fat, e) == BlocksOf(flash, fat[e].nextblock)
Fats == {fat \in {fatbuffer, flash.fat} : fat # << >>}

(* "Will update FAT-mem cache and old blocks (if needed) to keep links     *)
(* intact" (mtffs.c:792), "find next empty block" (mtffs.c:711): a block   *)
(* belongs to one file, in RAM and in the FAT that a loss of power brings  *)
(* back, and a block that belongs to a file is never taken for an empty    *)
(* one.                                                                    *)
NoCrossLink ==
  \A f, g \in Fats, d, e \in Entry :
    /\ d # e => Reached(f, d) \cap Reached(g, e) = {}
    /\ \A b \in Reached(f, d) : flash.next[b] # -1

(* The walks along a chain (mtffs_unlink 170, mtffs_allocnewblock 804,     *)
(* mtffs_fo_write 378) end: at 0 or, in a chain that a careless write or a *)
(* loss of power has broken, at an erased block with an error.  No chain   *)
(* leads back into itself, not one with blocks of another file either.     *)
ChainsEnd ==
  \A f \in Fats, e \in Entry : Chain(flash, f[e].nextblock)[BLOCKS] \notin Block

(* Blocks that are not free and that no file has.                          *)
Leaked == {b \in Block : flash.next[b] # -1 /\ \A e \in Entry : b \notin Reached(fatbuffer, e)}

(* Only a loss of power costs blocks: no call, neither one that runs out   *)
(* of space half way nor an unlink that fails on a broken chain, leaves a  *)
(* block that belongs to no file (mtffs.c 162-182, 375-391).               *)
NoLeak == [][mounted /\ mounted' => Leaked' \subseteq Leaked]_vars

(* What the name and the blocks of an entry mean to a reader.              *)
AsFile(fe) ==
  IF fe.filename = "" THEN << >>
  ELSE <<fe.filename, Content(flash, fe)>>

Store == INSTANCE FileStore WITH
  Entries <- Entry,
  files <- [e \in Entry |-> IF mounted THEN AsFile(fatbuffer[e]) ELSE << >>],
  saved <- [e \in Entry |-> IF flash.fat = << >> THEN << >> ELSE AsFile(flash.fat[e])]

(* Files hold what was written to them, through every way a chain grows,   *)
(* is overwritten, erased and reused, and power losses between two steps:  *)
(* the files of the last umount or unlink come back, with the data written *)
(* inside them since.                                                      *)
Implements == Store!Spec

=============================================================================
