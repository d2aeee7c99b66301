------------------------------ MODULE CfsFile ------------------------------
(***************************************************************************)
(* The file layer of cfs.c over the block store of storage.c: worker       *)
(* threads that register and read blocks of CFS files under                *)
(* cfs_state_t.lock.                                                       *)
(*                                                                         *)
(* A CFS file on disk is a header (size, total_blocks) and a sequence of   *)
(* index-hash pairs; a block file is a reference counter and the block's   *)
(* bytes, and its name is the block's hash.  A handle is a slot of the     *)
(* table of open files: it has its own descriptor and its own copy of the  *)
(* header.  A hash is identified with the block it is the hash of (SHA-1   *)
(* is taken to be injective), so a pair holds a block, or one of three     *)
(* marks for twenty bytes that are the hash of none:                       *)
(*   "torn"  the pair ends after its index; what follows it is misaligned  *)
(*   "zero"  the gap which a write far beyond the end leaves               *)
(*   "bad"   twenty bytes which are in place and are no block's hash       *)
(*                                                                         *)
(* A step is one system call, or several of them when only the last one    *)
(* changes what survives a crash.  The reference counter is always 1:      *)
(* nothing calls block_inc_ref or block_dec_ref.                           *)
(***************************************************************************)
EXTENDS Integers, Sequences, FiniteSetsExt

CONSTANTS
  Threads,      \* the FUSE worker threads
  Handles,      \* slots of the table of open files
  Files,        \* CFS files, created and never removed
  Indexes,      \* the block indexes that requests name
  Blocks,       \* block contents, each with its hash
  SizeOf,       \* bytes of data of each block
  RefSize,      \* REF_SIZE, bytes of the reference counter
  Shared,       \* may a file be open through several handles at a time?
  Landings,     \* where s_lseek(fd, -HASH_LENGTH, SEEK_CUR) may land
  Faults,       \* which library calls may fail
  MaxRequests,  \* bound on the requests of a behaviour
  MaxFaults,    \* bound on its failing calls
  MaxCrashes,   \* bound on its crashes
  None          \* no file, no request, no answer

\* The block indexes are file offsets divided by BLOCK_SIZE.
ASSUME IndexesAssumption == Indexes \subseteq Nat
\* bb_write registers no empty block.
ASSUME SizeAssumption == SizeOf \in [Blocks -> Nat \ {0}] /\ RefSize \in Nat \ {0}
\* io.h declares the offset of s_lseek as int, io.c defines it as off_t: a call
\* with -20 is undefined.  It lands 20 bytes back where the calling convention
\* sign-extends an int argument, 2^32 - 20 bytes ahead where it does not.
ASSUME LandingsAssumption == Landings \subseteq {"back", "far"} /\ Landings # {}
ASSUME FaultsAssumption == Faults \subseteq {"store", "append", "load", "search"}
\* A search that is out of step in a gap of zeroes is not modelled.
ASSUME SearchAssumption == "search" \in Faults => Landings = {"back"}
\* A block is none of the marks, and is not what a read of a hole returns.
ASSUME MarksAssumption == Blocks \cap {"torn", "zero", "bad", "hole"} = {}

VARIABLES
  meta,      \* meta[f]: the header and the pairs of file f on disk
  blocks,    \* blocks[b]: length in bytes of the block file of b, or NoFile
  cache,     \* cache[h]: the cfs_file_t of handle h
  mutex,     \* is cfs_state_t.lock held?
  pc,        \* pc[t]: where thread t is
  req,       \* req[t]: the request it executes, or None
  ret,       \* ret[t]: what its last request returned, or None
  requests, faults, crashes  \* how many there have been

vars == <<meta, blocks, cache, mutex, pc, req, ret, requests, faults, crashes>>

NoFile == -1   \* also what block_get_size returns of a missing block
Junk == -1     \* an index that is made of other bytes
Astray == -1   \* where a search ends that has read no index

Marks == {"torn", "zero", "bad"}
Pair == [index : Indexes \cup {0, Junk}, hash : Blocks \cup Marks]

\* cfs_create_file: magic, a size of 0, a total of 0 blocks, no pairs.
\* base tells where the file ends when a seek has gone astray (FarFiles).
NewFile == [size |-> 0, total |-> 0, body |-> <<>>, base |-> 0]
Closed == [file |-> None, size |-> 0, total |-> 0]

Requests ==
  [op : {"write"}, handle : Handles, index : Indexes, block : Blocks] \cup
  [op : {"read"}, handle : Handles, index : Indexes, block : {None}]

ASSUME NoneAssumption ==
  /\ None \notin Files \cup {"stored", "hole", "partial", "error"}
  /\ None \notin Requests
  /\ None \notin [op : {"read", "write"}, file : Files, index : Indexes,
                  block : Blocks \cup {None}]

Init ==
  /\ meta = [f \in Files |-> NewFile]
  /\ blocks = [b \in Blocks |-> NoFile]
  /\ cache = [h \in Handles |-> Closed]
  /\ mutex = FALSE
  /\ pc = [t \in Threads |-> "idle"]
  /\ req = [t \in Threads |-> None]
  /\ ret = [t \in Threads |-> None]
  /\ requests = 0 /\ faults = 0 /\ crashes = 0

-----------------------------------------------------------------------------
(* What is on disk.                                                         *)

Whole(b) == RefSize + SizeOf[b]

\* The scan of find_index reads pair after pair from the start of the body:
\* past a torn pair it reads between the pairs, and it comes through the gap,
\* whose pairs all read as index 0 with a hash of zeroes, whatever is before.
Reachable(body, k) ==
  \/ \A j \in 1..(k - 1) : body[j].hash \notin {"torn", "zero"}
  \/ body[k].hash = "zero"

Hits(body, i) ==
  {k \in DOMAIN body : Reachable(body, k) /\ body[k].index = i}

\* Position of the pair of index i, or 0.  A handle whose copy of the header
\* counts no blocks does not look at the file.
FindIndex(h, i) ==
  LET hits == Hits(meta[cache[h].file].body, i)
  IN  IF cache[h].total = 0 \/ hits = {} THEN 0 ELSE Min(hits)

\* The file ends right after the index of pair k: there is no hash to read,
\* and the buffer keeps what it held.
AtEnd(body, k) == k = Len(body) /\ body[k].hash = "torn"

\* The hash that is read there.
HashAt(body, k, buffer) ==
  IF k = Astray THEN "bad" ELSE IF AtEnd(body, k) THEN buffer ELSE body[k].hash

\* Position of the gap that a write 2^32 - 20 bytes ahead leaves, or 0.
GapAt(body) ==
  LET gaps == {j \in DOMAIN body : body[j].hash = "zero"}
  IN  IF gaps = {} THEN 0 ELSE Min(gaps)

\* Twenty bytes, mark, over the hash of the pair at place, beyond the end of the
\* body or not: what is skipped reads as zeroes.
Stamped(body, place, mark) ==
  [j \in 1..(IF place > Len(body) THEN place ELSE Len(body)) |->
     IF j = place
       THEN [index |-> IF j \in DOMAIN body THEN body[j].index ELSE 0, hash |-> mark]
     ELSE IF j \in DOMAIN body THEN body[j]
     ELSE [index |-> 0, hash |-> "bad"]]

\* The hash of pair k written again 2^32 - 20 bytes ahead.  The first time this
\* leaves a gap, and the file ends where pair k would end 2^32 bytes further on
\* (base): pairs appended from then on follow there.  So the same write for pair
\* base + d is over the hash of the d-th pair behind the gap.  A torn pair shifts
\* all this, and any hashes behind the gap may be hit.
FarFiles(file, k) ==
  LET body == file.body
      gap == GapAt(body)
      place == gap + k - file.base
      mark == IF body[k].hash \in Blocks THEN body[k].hash ELSE "bad"
      tail == {j \in DOMAIN body : j > gap /\ body[j].hash # "torn"}
  IN  IF gap = 0
        THEN {[file EXCEPT !.body = Append(@, [index |-> 0, hash |-> "zero"]),
                           !.base = k]}
      ELSE IF \E j \in DOMAIN body : body[j].hash = "torn"
        THEN {[file EXCEPT !.body =
                 [j \in DOMAIN @ |->
                    IF j \in over THEN [@[j] EXCEPT !.hash = m] ELSE @[j]]] :
                over \in SUBSET tail, m \in {mark, "bad"}}
      ELSE IF place > gap
        THEN {[file EXCEPT !.body = Stamped(@, place, mark)]}
      ELSE {file}

\* Twenty bytes written twenty bytes before the end of a body that ends with a
\* torn pair: over its index and over the end of the hash before.  (When there
\* is no pair before, they go over the header, which the next two steps write
\* again; a crash between them is not modelled.)
Smashed(body) ==
  [k \in DOMAIN body |->
     IF k = Len(body) THEN [index |-> Junk, hash |-> "torn"]
     ELSE IF k = Len(body) - 1 THEN [body[k] EXCEPT !.hash = "bad"]
     ELSE body[k]]

\* File file once the hash of pair k is written where the seek lands.
Rewritten(file, k, landing) ==
  IF landing = "far" THEN FarFiles(file, k)
  ELSE {[file EXCEPT !.body = IF AtEnd(@, k) THEN Smashed(@) ELSE @]}

\* block_get_size: the length of the whole block file, the counter included.
BlockGetSize(hash) == IF hash \in Blocks THEN blocks[hash] ELSE NoFile

-----------------------------------------------------------------------------
(* The table of open files, of which module FdTable has the slots.          *)

\* cfs_register_file: the handle gets its copy of the header.
Open(h, f) ==
  /\ ~mutex
  /\ cache[h].file = None
  /\ Shared \/ \A g \in Handles : cache[g].file # f
  /\ cache' = [cache EXCEPT
       ![h] = [file |-> f, size |-> meta[f].size, total |-> meta[f].total]]
  /\ UNCHANGED <<meta, blocks, mutex, pc, req, ret, requests, faults, crashes>>

\* Mutant: a handle is released under a request.
ReleaseBusy(h) ==
  /\ ~mutex
  /\ cache[h].file # None
  /\ cache' = [cache EXCEPT ![h] = Closed]
  /\ UNCHANGED <<meta, blocks, mutex, pc, req, ret, requests, faults, crashes>>

\* cfs_release_file.  FUSE releases a handle after its last request.
Release(h) ==
  /\ ~mutex
  /\ cache[h].file # None
  /\ \A t \in Threads : pc[t] # "idle" => req[t].handle # h
  /\ cache' = [cache EXCEPT ![h] = Closed]
  /\ UNCHANGED <<meta, blocks, mutex, pc, req, ret, requests, faults, crashes>>

-----------------------------------------------------------------------------
(* A request: cfs_file_register_block or cfs_file_read_block.               *)

\* bb_read or bb_write calls with an open handle.
Call(t) ==
  /\ pc[t] = "idle"
  /\ requests < MaxRequests
  /\ \E r \in Requests :
       /\ cache[r.handle].file # None
       /\ req' = [req EXCEPT ![t] = r]
  /\ pc' = [pc EXCEPT ![t] = "wait"]
  /\ ret' = [ret EXCEPT ![t] = None]
  /\ requests' = requests + 1
  /\ UNCHANGED <<meta, blocks, cache, mutex, faults, crashes>>

\* Where a thread holds the lock, or takes itself to hold it.
Critical(t) == pc[t] \notin {"idle", "wait", "fail2"}

\* Two threads in the critical section use one table, one descriptor and its
\* offset without synchronisation.
Overlap == \E t, u \in Threads : t # u /\ Critical(t) /\ Critical(u)

\* Thread t goes on from a label.  What threads do once they overlap is not
\* defined: the model stops them.
At(t, label) == pc[t] = label /\ ~Overlap

Goto(t, label) == pc' = [pc EXCEPT ![t] = label]

Fault(kind) ==
  /\ kind \in Faults
  /\ faults < MaxFaults
  /\ faults' = faults + 1

Positions(t) == {FindIndex(req[t].handle, req[t].index), Astray}

\* The search of thread t ends at k.  When a read of an index fails, which
\* find_index does not notice, the offset is out of step from there on, and no
\* hash looks like an index: nothing is found.  When it is the first one, the
\* index is compared with what the stack holds, which may be the index of the
\* search before, and the start of the body is taken for a hash.
Found(t, k) ==
  LET h == req[t].handle
      body == meta[cache[h].file].body
  IN  \/ k = FindIndex(h, req[t].index) /\ UNCHANGED faults
      \/ /\ k \in {0, Astray} /\ Fault("search")
         /\ cache[h].total # 0 /\ body # <<>> /\ ~AtEnd(body, 1)

\* Unlock, and return v.
Return(t, v) ==
  /\ Goto(t, "idle")
  /\ req' = [req EXCEPT ![t] = None]
  /\ ret' = [ret EXCEPT ![t] = v]
  /\ mutex' = FALSE

Acquire(t) ==
  /\ At(t, "wait")
  /\ ~mutex
  /\ mutex' = TRUE
  /\ Goto(t, IF req[t].op = "write" THEN "store" ELSE "find")
  /\ UNCHANGED <<meta, blocks, cache, req, ret, requests, faults, crashes>>

\* Mutant: the block file is created with O_TRUNC, existing or not.
StoreTruncates(t) ==
  /\ At(t, "store")
  /\ Goto(t, "refs")
  /\ blocks' = [blocks EXCEPT ![req[t].block] = 0]
  /\ UNCHANGED <<meta, cache, mutex, req, ret, requests, faults, crashes>>

\* store_block: a block whose file exists is taken as stored; else the file is
\* created, empty.
StoreBlock(t) ==
  /\ At(t, "store")
  /\ IF blocks[req[t].block] # NoFile
       THEN Goto(t, "find") /\ UNCHANGED blocks
       ELSE /\ Goto(t, "refs")
            /\ blocks' = [blocks EXCEPT ![req[t].block] = 0]
  /\ UNCHANGED <<meta, cache, mutex, req, ret, requests, faults, crashes>>

\* Mutant: only the counter is written.
WriteRefsOnly(t) ==
  /\ At(t, "refs")
  /\ Goto(t, "find")
  /\ blocks' = [blocks EXCEPT ![req[t].block] = RefSize]
  /\ UNCHANGED <<meta, cache, mutex, req, ret, requests, faults, crashes>>

WriteRefs(t) ==
  /\ At(t, "refs")
  /\ Goto(t, "data")
  /\ blocks' = [blocks EXCEPT ![req[t].block] = RefSize]
  /\ UNCHANGED <<meta, cache, mutex, req, ret, requests, faults, crashes>>

WriteData(t) ==
  /\ At(t, "data")
  /\ Goto(t, "find")
  /\ blocks' = [blocks EXCEPT ![req[t].block] = Whole(req[t].block)]
  /\ UNCHANGED <<meta, cache, mutex, req, ret, requests, faults, crashes>>

\* The lengths at which a failing store_block leaves the block file: open or
\* lock fails, the counter or the data is not or not all written.  All of it,
\* too: s_write returns the size of its last chunk, and a write that needed two
\* counts as failed.
FailedLengths(label, b) ==
  CASE label = "store" -> {NoFile, 0}
    [] label = "refs" -> {0, RefSize}
    [] label = "data" -> RefSize..Whole(b)

\* Mutant: the result of store_block is not looked at.
StoreFailureIgnored(t) ==
  /\ Fault("store")
  /\ \E label \in {"store", "refs", "data"} : At(t, label)
  /\ pc[t] = "store" => blocks[req[t].block] = NoFile
  /\ Goto(t, "find")
  /\ \E n \in FailedLengths(pc[t], req[t].block) :
       blocks' = [blocks EXCEPT ![req[t].block] = n]
  /\ UNCHANGED <<meta, cache, mutex, req, ret, requests, crashes>>

StoreFails(t) ==
  /\ Fault("store")
  /\ \E label \in {"store", "refs", "data"} : At(t, label)
  /\ pc[t] = "store" => blocks[req[t].block] = NoFile
  /\ Goto(t, "fail")
  /\ \E n \in FailedLengths(pc[t], req[t].block) :
       blocks' = [blocks EXCEPT ![req[t].block] = n]
  /\ UNCHANGED <<meta, cache, mutex, req, ret, requests, crashes>>

\* The error path of cfs_file_register_block unlocks ...
Unlock(t) ==
  /\ At(t, "fail")
  /\ Goto(t, "fail2")
  /\ mutex' = FALSE
  /\ UNCHANGED <<meta, blocks, cache, req, ret, requests, faults, crashes>>

\* ... and unlocks again, which is undefined: the lock may be another thread's
\* by now, and a default mutex is released whoever holds it.
UnlockAgain(t) ==
  /\ At(t, "fail2")
  /\ Goto(t, "idle")
  /\ req' = [req EXCEPT ![t] = None]
  /\ ret' = [ret EXCEPT ![t] = "error"]
  /\ mutex' \in {FALSE, mutex}
  /\ UNCHANGED <<meta, blocks, cache, requests, faults, crashes>>

-----------------------------------------------------------------------------
(* The rest of cfs_file_register_block, with the block stored.              *)

\* Mutant: the new hash is written over the old one.
ReplaceNewHash(t) ==
  LET h == req[t].handle
      f == cache[h].file
      k == FindIndex(h, req[t].index)
  IN
  /\ At(t, "find") /\ req[t].op = "write" /\ k # 0
  /\ meta' = [meta EXCEPT ![f].body[k].hash = req[t].block]
  /\ Goto(t, "size")
  /\ UNCHANGED <<blocks, cache, mutex, req, ret, requests, faults, crashes>>

\* Mutant: a block written again is counted again.
ReplaceCounts(t) ==
  LET h == req[t].handle IN
  /\ At(t, "find") /\ req[t].op = "write" /\ FindIndex(h, req[t].index) # 0
  /\ cache' = [cache EXCEPT ![h].total = @ + 1]
  /\ Goto(t, "size")
  /\ UNCHANGED <<meta, blocks, mutex, req, ret, requests, faults, crashes>>

\* The index has a pair: its hash is read over the new one, and the same bytes
\* are written again at the place where the seek lands.
Replace(t) ==
  LET h == req[t].handle
      f == cache[h].file
  IN
  /\ At(t, "find") /\ req[t].op = "write"
  /\ \E k \in Positions(t), landing \in Landings :
       /\ Found(t, k) /\ k # 0
       /\ \E file \in Rewritten(meta[f], k, landing) :
            meta' = [meta EXCEPT ![f] = file]
       /\ cache' = [cache EXCEPT ![h].size =
            @ - BlockGetSize(HashAt(meta[f].body, k, req[t].block))
              + SizeOf[req[t].block]]
  /\ Goto(t, "size")
  /\ UNCHANGED <<blocks, mutex, req, ret, requests, crashes>>

\* Mutant: the file is not searched.
AppendAlways(t) ==
  /\ At(t, "find") /\ req[t].op = "write"
  /\ meta' = [meta EXCEPT ![cache[req[t].handle].file].body =
                Append(@, [index |-> req[t].index, hash |-> "torn"])]
  /\ Goto(t, "hash")
  /\ UNCHANGED <<blocks, cache, mutex, req, ret, requests, faults, crashes>>

\* Mutant: the pair goes where the handle's count of blocks puts the end.
AppendAtTotal(t) ==
  LET h == req[t].handle
      f == cache[h].file
  IN
  /\ At(t, "find") /\ req[t].op = "write" /\ FindIndex(h, req[t].index) = 0
  /\ meta' = [meta EXCEPT ![f].body =
                Append(SubSeq(@, 1, cache[h].total),
                       [index |-> req[t].index, hash |-> "torn"])]
  /\ Goto(t, "hash")
  /\ UNCHANGED <<blocks, cache, mutex, req, ret, requests, faults, crashes>>

\* The index has none: a pair is appended, the index first ...
AppendIndex(t) ==
  /\ At(t, "find") /\ req[t].op = "write" /\ Found(t, 0)
  /\ meta' = [meta EXCEPT ![cache[req[t].handle].file].body =
                Append(@, [index |-> req[t].index, hash |-> "torn"])]
  /\ Goto(t, "hash")
  /\ UNCHANGED <<blocks, cache, mutex, req, ret, requests, crashes>>

\* Mutant: the pair is not counted.
CountSizeOnly(t) ==
  cache' = [cache EXCEPT
    ![req[t].handle].size = @ + SizeOf[req[t].block]]

\* total_blocks and size of the handle's copy once the pair is written, or not:
\* the results of the writes are not looked at.
Count(t) ==
  cache' = [cache EXCEPT
    ![req[t].handle].total = @ + 1,
    ![req[t].handle].size = @ + SizeOf[req[t].block]]

Completed(body, b) ==
  [k \in DOMAIN body |->
     IF k = Len(body) THEN [body[k] EXCEPT !.hash = b] ELSE body[k]]

\* ... then the hash.
AppendHash(t) ==
  /\ At(t, "hash")
  /\ meta' = [meta EXCEPT ![cache[req[t].handle].file].body =
                Completed(@, req[t].block)]
  /\ Count(t)
  /\ Goto(t, "size")
  /\ UNCHANGED <<blocks, mutex, req, ret, requests, faults, crashes>>

\* The write of the hash fails: the pair stays torn.
HashFails(t) ==
  /\ Fault("append")
  /\ At(t, "hash")
  /\ Count(t)
  /\ Goto(t, "size")
  /\ UNCHANGED <<meta, blocks, mutex, req, ret, requests, crashes>>

\* The write of the index fails, and so does that of the hash: a disk that is
\* full stays full.
IndexFails(t) ==
  /\ Fault("append")
  /\ At(t, "find") /\ req[t].op = "write"
  /\ FindIndex(req[t].handle, req[t].index) = 0
  /\ Count(t)
  /\ Goto(t, "size")
  /\ UNCHANGED <<meta, blocks, mutex, req, ret, requests, crashes>>

WriteSize(t) ==
  LET h == req[t].handle IN
  /\ At(t, "size")
  /\ meta' = [meta EXCEPT ![cache[h].file].size = cache[h].size]
  /\ Goto(t, "total")
  /\ UNCHANGED <<blocks, cache, mutex, req, ret, requests, faults, crashes>>

WriteTotal(t) ==
  LET h == req[t].handle IN
  /\ At(t, "total")
  /\ meta' = [meta EXCEPT ![cache[h].file].total = cache[h].total]
  /\ Return(t, "stored")
  /\ UNCHANGED <<blocks, cache, requests, faults, crashes>>

-----------------------------------------------------------------------------
(* The rest of cfs_file_read_block.                                         *)

\* Mutants: a hole is returned with the lock held, or the lock is released twice.
ReadHoleLocked(t) ==
  /\ At(t, "find") /\ req[t].op = "read"
  /\ FindIndex(req[t].handle, req[t].index) = 0
  /\ Goto(t, "idle")
  /\ req' = [req EXCEPT ![t] = None]
  /\ ret' = [ret EXCEPT ![t] = "hole"]
  /\ UNCHANGED <<meta, blocks, cache, mutex, requests, faults, crashes>>

ReadHoleTwice(t) ==
  /\ At(t, "find") /\ req[t].op = "read"
  /\ FindIndex(req[t].handle, req[t].index) = 0
  /\ Goto(t, "fail")
  /\ UNCHANGED <<meta, blocks, cache, mutex, req, ret, requests, faults, crashes>>

\* No pair: a hole.
ReadHole(t) ==
  /\ At(t, "find") /\ req[t].op = "read" /\ Found(t, 0)
  /\ Return(t, "hole")
  /\ UNCHANGED <<meta, blocks, cache, requests, crashes>>

\* The hash that is read at pair k.  Where the file ends before it, the buffer
\* is not initialised, and may hold the hash an earlier call left there.
HashesRead(body, k) ==
  IF AtEnd(body, k) THEN Blocks \cup {"bad"} ELSE {HashAt(body, k, "bad")}

\* load_block asks for one byte of data at least, and for no length.
Loaded(hash) ==
  IF hash \notin Blocks THEN "error"
  ELSE IF blocks[hash] <= RefSize THEN "error"
  ELSE IF blocks[hash] < Whole(hash) THEN "partial"
  ELSE hash

Load(t) ==
  /\ At(t, "find") /\ req[t].op = "read"
  /\ \E k \in Positions(t) :
       /\ Found(t, k) /\ k # 0
       /\ \E hash \in HashesRead(meta[cache[req[t].handle].file].body, k) :
            Return(t, Loaded(hash))
  /\ UNCHANGED <<meta, blocks, cache, requests, crashes>>

\* Mutant: the error path keeps the lock.
LoadFailsLocked(t) ==
  /\ Fault("load")
  /\ At(t, "find") /\ req[t].op = "read"
  /\ FindIndex(req[t].handle, req[t].index) # 0
  /\ Goto(t, "idle")
  /\ req' = [req EXCEPT ![t] = None]
  /\ ret' = [ret EXCEPT ![t] = "error"]
  /\ UNCHANGED <<meta, blocks, cache, mutex, requests, crashes>>

\* open, lock or read of the block file fails.
LoadFails(t) ==
  /\ Fault("load")
  /\ At(t, "find") /\ req[t].op = "read"
  /\ FindIndex(req[t].handle, req[t].index) # 0
  /\ Return(t, "error")
  /\ UNCHANGED <<meta, blocks, cache, requests, crashes>>

-----------------------------------------------------------------------------
\* The process is killed and started again: the files stay.
Crash ==
  /\ crashes < MaxCrashes
  /\ crashes' = crashes + 1
  /\ cache' = [h \in Handles |-> Closed]
  /\ mutex' = FALSE
  /\ pc' = [t \in Threads |-> "idle"]
  /\ req' = [t \in Threads |-> None]
  /\ ret' = [t \in Threads |-> None]
  /\ UNCHANGED <<meta, blocks, requests, faults>>

Register(t) ==
  \/ StoreBlock(t) \/ WriteRefs(t) \/ WriteData(t)
  \/ StoreFails(t) \/ Unlock(t) \/ UnlockAgain(t)
  \/ Replace(t) \/ AppendIndex(t) \/ AppendHash(t)
  \/ HashFails(t) \/ IndexFails(t)
  \/ WriteSize(t) \/ WriteTotal(t)

ReadBlock(t) == ReadHole(t) \/ Load(t) \/ LoadFails(t)

\* What a thread does once it has a request.
Step(t) == Acquire(t) \/ Register(t) \/ ReadBlock(t)

Next ==
  \/ \E h \in Handles : Release(h) \/ \E f \in Files : Open(h, f)
  \/ \E t \in Threads : Call(t) \/ Step(t)
  \/ Crash

Spec == Init /\ [][Next]_vars

\* The kernel runs every thread that is not blocked.
FairSpec == Spec /\ \A t \in Threads : WF_vars(Step(t))

-----------------------------------------------------------------------------
(* Properties.                                                              *)

FileState == [size : Int, total : Nat, body : Seq(Pair), base : Nat]
HandleState == [file : Files \cup {None}, size : Int, total : Nat]
Labels == {"idle", "wait", "store", "refs", "data", "find", "hash", "size",
           "total", "fail", "fail2"}
Answers == Blocks \cup {None, "stored", "hole", "partial", "error"}

\* Every variable has its type; a thread that is not idle executes a request on
\* an open handle, and is on the path of that request.
TypeOK ==
  /\ meta \in [Files -> FileState]
  /\ blocks \in [Blocks -> Int]
  /\ cache \in [Handles -> HandleState]
  /\ mutex \in BOOLEAN
  /\ pc \in [Threads -> Labels]
  /\ req \in [Threads -> Requests \cup {None}]
  /\ ret \in [Threads -> Answers]
  /\ requests \in Nat /\ faults \in Nat /\ crashes \in Nat
  /\ \A t \in Threads :
       pc[t] # "idle" => req[t] # None /\ cache[req[t].handle].file # None
  /\ \A t \in Threads :
       pc[t] \notin {"idle", "wait", "find"} => req[t].op = "write"

\* At most one thread is between pthread_mutex_lock and pthread_mutex_unlock
\* in cfs_file_register_block and cfs_file_read_block.
MutualExclusion == ~Overlap

\* The lock is never left behind: when it is taken, whoever took it is still in
\* one of the two critical sections, on all the ways out of them, with the two
\* unlocks of a block that fails to be stored, and after a crash.
LockHasHolder == mutex => \E t \in Threads : Critical(t)

\* A pair never names a block that has no file, whatever fails and whenever the
\* process dies: store_block comes before the pair, its failure is returned
\* before it, and nothing unlinks a block that pairs name.
NamedBlocksExist ==
  \A f \in Files : \A k \in DOMAIN meta[f].body :
    meta[f].body[k].hash \in Blocks => blocks[meta[f].body[k].hash] # NoFile

\* Until a call fails or the process dies, the block file that a pair names is
\* all there: the pair is written when store_block has written the block.
NamedBlocksWhole ==
  faults = 0 /\ crashes = 0 =>
    \A f \in Files : \A k \in DOMAIN meta[f].body :
      LET hash == meta[f].body[k].hash
      IN  hash \in Blocks => blocks[hash] = Whole(hash)

\* The header never promises pairs that are not in the file: cfscat reads
\* total_blocks pairs and takes them as they come.  This holds with stale
\* copies of the header in several handles, and after a crash.
HeaderNeverOvercounts ==
  \A f \in Files : meta[f].total <= Len(meta[f].body)

\* Is a thread past its search in file f, with the header not yet written?
BeingWritten(f) ==
  \E t \in Threads : /\ pc[t] \in {"hash", "size", "total"}
                     /\ cache[req[t].handle].file = f

\* The header counts the pairs of a file that is not being written: "X
\* total_blocks times", in the file format at the top of cfs.c.
HeaderExact ==
  \A f \in Files : BeingWritten(f) \/ meta[f].total = Len(meta[f].body)

\* No index has two pairs: find_index looks no further than the first.
UniqueIndex ==
  \A f \in Files : \A j, k \in DOMAIN meta[f].body :
    meta[f].body[j].index = meta[f].body[k].index => j = k

\* Until a call fails or the process dies, a complete pair that a search comes to
\* stays as it is and stays within reach: neither a later write of its index nor
\* one of another index, through this or a stale handle, near or far, changes it,
\* takes it away or cuts it off.  (Pairs behind a gap are not kept.)
PairsKept ==
  [][faults' = 0 /\ crashes' = 0 =>
     \A f \in Files : \A k \in DOMAIN meta[f].body :
       meta[f].body[k].hash \in Blocks /\ Reachable(meta[f].body, k) =>
         /\ k \in DOMAIN meta'[f].body
         /\ meta'[f].body[k] = meta[f].body[k]
         /\ Reachable(meta'[f].body, k)]_vars

\* A block file that is whole stays whole: storing the same content again, in
\* any thread, and failing at it, does not cut what earlier pairs refer to.
WholeBlocksStay ==
  [][\A b \in Blocks : blocks[b] = Whole(b) => blocks'[b] = Whole(b)]_vars

\* What a handle opened now finds at index i of file f.
Content(f, i) ==
  LET hits == Hits(meta[f].body, i)
  IN  IF hits = {} THEN "hole"
      ELSE IF meta[f].body[Min(hits)].hash \in Blocks
        THEN meta[f].body[Min(hits)].hash
        ELSE "hole"

Readable(f, i) ==
  /\ meta[f].total # 0
  /\ Content(f, i) \in Blocks
  /\ blocks[Content(f, i)] = Whole(Content(f, i))

\* Does this step answer "stored" to a write of index i of file f with block b?
Acknowledges(f, i, b) ==
  \E t \in Threads :
    /\ pc[t] = "total" /\ ret'[t] = "stored"
    /\ cache[req[t].handle].file = f /\ req[t].index = i /\ req[t].block = b

\* When register_block has returned 0, its index reads as a whole block.
StoredMeansReadable ==
  [][\A f \in Files, i \in Indexes, b \in Blocks :
       Acknowledges(f, i, b) => Readable(f, i)']_vars

\* ... and that block is the one registered ("replace the block hash at this
\* index").
StoredMeansWritten ==
  [][\A f \in Files, i \in Indexes, b \in Blocks :
       Acknowledges(f, i, b) => Content(f, i)' = b]_vars

\* The lock is always released.
LockReleased == mutex ~> ~mutex

\* Every request is answered: the bound on requests stands for a load that
\* pauses, since a pthread mutex promises no order among those who wait.
Answered == \A t \in Threads : pc[t] = "wait" ~> pc[t] = "idle"

Abstract == INSTANCE WriteOnceFile WITH
  content <- [f \in Files |-> [i \in Indexes |-> Content(f, i)]],
  call <- [t \in Threads |->
             IF pc[t] = "idle" THEN None
             ELSE [op |-> req[t].op, file |-> cache[req[t].handle].file,
                   index |-> req[t].index, block |-> req[t].block]],
  answer <- ret,
  Hole <- "hole"

\* With one handle per file, and nothing failing, the requests behave as those
\* of a map that keeps the first block written at each index.
ImplementsWriteOnce == Abstract!Spec

=============================================================================
