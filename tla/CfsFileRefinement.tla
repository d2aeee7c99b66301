------------------------- MODULE CfsFileRefinement -------------------------
(***************************************************************************)
(* Theorems about what module CfsFile promises as long as nothing has      *)
(* gone wrong: no call has failed and the process has not died.  The       *)
(* first part is about any number of handles per file, the second about a  *)
(* file that is open through one handle at a time: there, the file layer   *)
(* implements module WriteOnceFile.                                        *)
(***************************************************************************)
EXTENDS CfsFileProofs

\* Nothing has gone wrong.
Fresh == faults = 0 /\ crashes = 0

LastTorn(body) == body # <<>> /\ body[Len(body)].hash = "torn"

\* The body of the file that thread t works on, and the block it writes.
BodyOf(t) == meta[cache[req[t].handle].file].body
BlockOf(t) == req[t].block

\* The block is stored and its pair is not yet complete.
HasBlock(t) == pc[t] = "hash" \/ (pc[t] = "find" /\ req[t].op = "write")

(* Until something goes wrong, a block file that is not whole is being      *)
(* written, by the one thread in the critical section; a thread that is     *)
(* past store_block, and every pair, names a whole one.                     *)
WholeInv ==
  /\ LockInv
  /\ \A b \in Blocks :
       \/ blocks[b] \in {NoFile, Whole(b)}
       \/ \E t \in Threads : pc[t] \in {"refs", "data"} /\ BlockOf(t) = b
  /\ \A t \in Threads : HasBlock(t) => blocks[BlockOf(t)] = Whole(BlockOf(t))
  /\ \A f \in Files : \A b \in Names(meta[f].body) : blocks[b] = Whole(b)

(* Until something goes wrong, a torn pair at the end of a file is that of  *)
(* the thread which is about to complete it.                                *)
TornInv ==
  /\ \A f \in Files : LastTorn(meta[f].body) =>
       \E t \in Threads : pc[t] = "hash" /\ cache[req[t].handle].file = f
  /\ \A t \in Threads : pc[t] = "hash" => LastTorn(BodyOf(t))

\* In a body that does not end with a torn pair, every pair has its hash.
LEMMA NotAtEnd ==
  ASSUME NEW body \in Seq(Pair), ~LastTorn(body), NEW k \in DOMAIN body
  PROVE  k # Astray /\ ~AtEnd(body, k)
<1>1. k \in Nat \ {0} /\ Len(body) \in Nat /\ body # <<>>
  OBVIOUS
<1>2. k # Astray
  BY <1>1 DEF Astray
<1>3. k = Len(body) => body[k].hash # "torn"
  BY <1>1 DEF LastTorn
<1> QED
  BY <1>2, <1>3 DEF AtEnd

-----------------------------------------------------------------------------
(* What the steps leave alone.                                              *)

\* A thread past "wait" that is not the one that steps stays where it is.
Stays(u) ==
  /\ pc'[u] = pc[u] /\ req'[u] = req[u]
  /\ cache'[req[u].handle].file = cache[req[u].handle].file

\* A step of a thread in which no call fails.
LEMMA NoFailure ==
  ASSUME \A kind : ~Fault(kind), NEW t \in Threads, Step(t)
  PROVE  UNCHANGED <<faults, crashes>>
<1>1. ~StoreFails(t) /\ ~HashFails(t) /\ ~IndexFails(t) /\ ~LoadFails(t)
  BY DEF StoreFails, HashFails, IndexFails, LoadFails
<1>2. \A k : Found(t, k) => faults' = faults
  BY DEF Found
<1>3. CASE Replace(t) \/ AppendIndex(t)
  BY <1>2, <1>3 DEF Replace, AppendIndex
<1>4. CASE ReadHole(t) \/ Load(t)
  BY <1>2, <1>4 DEF ReadHole, Load
<1>5. CASE Acquire(t) \/ StoreBlock(t) \/ WriteRefs(t) \/ WriteData(t)
  BY <1>5 DEF Acquire, StoreBlock, WriteRefs, WriteData
<1>6. CASE Unlock(t) \/ UnlockAgain(t) \/ AppendHash(t)
  BY <1>6 DEF Unlock, UnlockAgain, AppendHash
<1>7. CASE WriteSize(t) \/ WriteTotal(t)
  BY <1>7 DEF WriteSize, WriteTotal
<1> QED
  BY <1>1, <1>3, <1>4, <1>5, <1>6, <1>7 DEF Step, Register, ReadBlock

\* A step in which no call fails and the process does not die.
LEMMA NothingWrong ==
  ASSUME [Next]_vars, ~Crash, \A kind : ~Fault(kind)
  PROVE  UNCHANGED <<faults, crashes>>
<1>1. CASE \E t \in Threads : Step(t)
  BY <1>1, NoFailure
<1>2. CASE \E t \in Threads : Call(t)
  BY <1>2 DEF Call
<1>3. CASE \E h \in Handles : Release(h) \/ \E f \in Files : Open(h, f)
  BY <1>3 DEF Release, Open
<1>4. CASE UNCHANGED vars
  BY <1>4 DEF vars
<1> QED
  BY <1>1, <1>2, <1>3, <1>4 DEF Next

\* A step in which nothing goes wrong is one before which nothing had.
LEMMA FreshBefore ==
  ASSUME TypeOK, [Next]_vars, Fresh'
  PROVE  /\ Fresh /\ ~Crash
         /\ \A t \in Threads : ~StoreFails(t) /\ ~HashFails(t) /\ ~IndexFails(t)
<1>1. faults \in Nat /\ crashes \in Nat /\ faults' = 0 /\ crashes' = 0
  BY DEF TypeOK, Fresh
<1>2. ~Crash
  BY <1>1 DEF Crash
<1>3. \A kind : ~Fault(kind)
  BY <1>1 DEF Fault
<1>4. UNCHANGED <<faults, crashes>>
  BY <1>2, <1>3, NothingWrong
<1> QED
  BY <1>1, <1>2, <1>3, <1>4 DEF Fresh, StoreFails, HashFails, IndexFails

\* A search in which nothing goes wrong ends at the pair of its index.
LEMMA FreshSearch ==
  ASSUME TypeOK, Fresh', NEW t \in Threads, NEW k, Found(t, k)
  PROVE  k = FindIndex(req[t].handle, req[t].index)
  BY DEF Found, Fault, Fresh, TypeOK

\* A step of a thread opens and closes no handle.
LEMMA FilesStay ==
  ASSUME TypeOK, NEW t \in Threads, Step(t), NEW h \in Handles
  PROVE  cache'[h].file = cache[h].file
<1>1. cache[h] \in HandleState
  BY DEF TypeOK
<1>2. CASE Replace(t)
  <2>1. PICK size : cache' = [cache EXCEPT ![req[t].handle].size = size]
    BY <1>2 DEF Replace
  <2> QED
    BY <1>1, <2>1 DEF TypeOK, HandleState
<1>3. CASE AppendHash(t) \/ HashFails(t) \/ IndexFails(t)
  <2>1. Count(t)
    BY <1>3 DEF AppendHash, HashFails, IndexFails
  <2> QED
    BY <1>1, <2>1 DEF Count, TypeOK, HandleState
<1>4. CASE cache' = cache
  BY <1>4
<1> QED
  BY <1>2, <1>3, <1>4 DEF Step, Acquire, Register, StoreBlock, WriteRefs,
     WriteData, StoreFails, Unlock, UnlockAgain, AppendIndex, WriteSize,
     WriteTotal, ReadBlock, ReadHole, Load, LoadFails

\* A step that is no thread's leaves the disk, and those past "wait", alone.
LEMMA QuietStep ==
  ASSUME TypeOK, [Next]_vars, ~Crash, \A t \in Threads : ~Step(t)
  PROVE  /\ UNCHANGED <<meta, blocks, faults, crashes>>
         /\ \A u \in Threads : Critical(u) \/ Critical(u)' => Stays(u)
<1>1. ASSUME NEW t \in Threads, Call(t), NEW u \in Threads, Critical(u) \/ Critical(u)'
      PROVE  Stays(u)
  BY <1>1 DEF Call, Critical, Stays, TypeOK
<1>2. \A u \in Threads : Critical(u) =>
        req[u].handle \in Handles /\ cache[req[u].handle].file \in Files
  BY RequestType DEF Critical
<1>3. ASSUME NEW h \in Handles, Release(h), NEW u \in Threads, Critical(u) \/ Critical(u)'
      PROVE  Stays(u)
  BY <1>2, <1>3 DEF Release, Critical, Stays, TypeOK
<1>4. ASSUME NEW h \in Handles, NEW f \in Files, Open(h, f), NEW u \in Threads,
             Critical(u) \/ Critical(u)'
      PROVE  Stays(u)
  BY <1>2, <1>4, NoneAssumption DEF Open, Critical, Stays, TypeOK
<1>5. CASE UNCHANGED vars
  BY <1>5 DEF vars, Stays
<1> QED
  BY <1>1, <1>3, <1>4, <1>5 DEF Next, Call, Release, Open, vars

\* A thread that changes a file or a block file is in the critical section.
LEMMA Writers ==
  ASSUME NEW t \in Threads, Step(t), ~Critical(t)
  PROVE  UNCHANGED <<meta, blocks>> /\ (Acquire(t) \/ UnlockAgain(t))
  BY DEF Step, Acquire, Register, StoreBlock, WriteRefs, WriteData, StoreFails,
     Unlock, UnlockAgain, Replace, AppendIndex, AppendHash, HashFails,
     IndexFails, WriteSize, WriteTotal, ReadBlock, ReadHole, Load, LoadFails,
     At, Critical

-----------------------------------------------------------------------------
(* Until something goes wrong, pairs name whole block files.                *)

\* Names are blocks.
LEMMA NamesAreBlocks ==
  ASSUME NEW body
  PROVE  Names(body) \subseteq Blocks
  BY DEF Names

\* What the steps of store_block do to the block files.
LEMMA StoreStep ==
  ASSUME TypeOK, NEW t \in Threads, Step(t), ~StoreFails(t)
  PROVE  \/ UNCHANGED blocks /\ pc[t] \notin {"refs", "data"}
         \/ /\ Critical(t) /\ BlockOf(t) \in Blocks /\ req' = req
            /\ pc'[t] \in {"refs", "data"} \/ blocks'[BlockOf(t)] = Whole(BlockOf(t))
            /\ \A b \in Blocks : b # BlockOf(t) => blocks'[b] = blocks[b]
<1>1. CASE StoreBlock(t) \/ WriteRefs(t) \/ WriteData(t)
  <2>1. Critical(t) /\ BlockOf(t) \in Blocks /\ req' = req
    BY <1>1, RequestType
       DEF StoreBlock, WriteRefs, WriteData, At, Critical, BlockOf, TypeOK
  <2>2. \/ UNCHANGED blocks /\ StoreBlock(t)
        \/ pc'[t] \in {"refs", "data"}
        \/ blocks'[BlockOf(t)] = Whole(BlockOf(t))
    BY <1>1, <2>1 DEF StoreBlock, WriteRefs, WriteData, Goto, BlockOf, TypeOK
  <2>3. \A b \in Blocks : b # BlockOf(t) => blocks'[b] = blocks[b]
    BY <1>1, <2>1 DEF StoreBlock, WriteRefs, WriteData, BlockOf, TypeOK
  <2> QED
    BY <2>1, <2>2, <2>3 DEF StoreBlock, At
<1>2. CASE ~(StoreBlock(t) \/ WriteRefs(t) \/ WriteData(t))
  BY <1>2 DEF Step, Acquire, Register, Unlock, UnlockAgain, Replace,
     AppendIndex, AppendHash, HashFails, IndexFails, WriteSize, WriteTotal,
     ReadBlock, ReadHole, Load, LoadFails, At
<1> QED
  BY <1>1, <1>2

\* A block file that is not whole after a step is being written.
LEMMA WholeFiles ==
  ASSUME TypeOK, WholeInv, NEW t \in Threads, Step(t), ~StoreFails(t),
         NEW b \in Blocks
  PROVE  \/ blocks'[b] \in {NoFile, Whole(b)}
         \/ \E u \in Threads : pc'[u] \in {"refs", "data"} /\ BlockOf(u)' = b
<1>1. CASE blocks'[b] = blocks[b] /\ blocks[b] \in {NoFile, Whole(b)}
  BY <1>1
<1>2. CASE blocks'[b] = blocks[b] /\ blocks[b] \notin {NoFile, Whole(b)}
  <2>1. PICK u \in Threads : pc[u] \in {"refs", "data"} /\ BlockOf(u) = b
    BY <1>2 DEF WholeInv
  <2>2. CASE u # t
    BY <2>1, <2>2, OthersStay DEF BlockOf
  <2>3. CASE u = t
    BY <1>2, <2>1, <2>3, StoreStep DEF BlockOf
  <2> QED
    BY <2>2, <2>3
<1>3. CASE blocks'[b] # blocks[b]
  BY <1>3, StoreStep DEF BlockOf
<1> QED
  BY <1>1, <1>2, <1>3

\* The block of a thread that is past store_block is whole.
LEMMA WholeThreads ==
  ASSUME TypeOK, PartialInv, WholeInv, [Next]_vars, NEW t \in Threads, Step(t),
         ~StoreFails(t), NEW u \in Threads, HasBlock(u)'
  PROVE  blocks'[BlockOf(u)'] = Whole(BlockOf(u)')
<1>1. CASE HasBlock(u) /\ req'[u] = req[u]
  <2>1. BlockOf(u) \in Blocks
    BY <1>1, RequestType DEF HasBlock, BlockOf, TypeOK
  <2>2. blocks[BlockOf(u)] = Whole(BlockOf(u))
    BY <1>1 DEF WholeInv
  <2> QED
    BY <1>1, <2>1, <2>2, WholeStep DEF BlockOf
<1>2. CASE u = t /\ StoreBlock(t)
  <2>1. /\ Critical(t) /\ pc[t] = "store" /\ BlockOf(t) \in Blocks /\ req' = req
        /\ blocks[BlockOf(t)] # NoFile /\ UNCHANGED blocks
    BY <1>2, RequestType DEF StoreBlock, At, Critical, BlockOf, HasBlock, Goto, TypeOK
  <2>2. \A w \in Threads : pc[w] \notin {"refs", "data"}
    BY <2>1 DEF WholeInv, LockInv, Critical
  <2>3. blocks[BlockOf(t)] = Whole(BlockOf(t))
    BY <2>1, <2>2 DEF WholeInv
  <2> QED
    BY <1>2, <2>1, <2>3 DEF BlockOf
<1>3. CASE u = t /\ WriteData(t)
  <2>1. BlockOf(t) \in Blocks
    BY <1>3, RequestType DEF WriteData, At, BlockOf, TypeOK
  <2> QED
    BY <1>3, <2>1 DEF WriteData, BlockOf, TypeOK
<1>4. CASE u = t /\ ~StoreBlock(t) /\ ~WriteData(t)
  <2>1. HasBlock(t) /\ req'[t] = req[t]
    BY <1>4 DEF Step, Acquire, Register, WriteRefs, StoreFails, Unlock,
       UnlockAgain, Replace, AppendIndex, AppendHash, HashFails, IndexFails,
       WriteSize, WriteTotal, ReadBlock, ReadHole, Load, LoadFails, Return, At,
       Goto, HasBlock, TypeOK
  <2> QED
    BY <1>1, <1>4, <2>1
<1>5. CASE u # t
  BY <1>1, <1>5, OthersStay DEF HasBlock
<1> QED
  BY <1>2, <1>3, <1>4, <1>5

\* The blocks that pairs name are whole.
LEMMA WholeNames ==
  ASSUME TypeOK, PartialInv, WholeInv, [Next]_vars, NEW t \in Threads, Step(t),
         NEW f \in Files, NEW b \in Names(meta'[f].body)
  PROVE  blocks'[b] = Whole(b)
<1>1. b \in Names(meta[f].body) \/ (pc[t] = "hash" /\ b = req[t].block)
  BY NamesStep
<1>2. b \in Blocks
  BY NamesAreBlocks
<1>3. blocks[b] = Whole(b)
  BY <1>1 DEF WholeInv, HasBlock, BlockOf
<1> QED
  BY <1>2, <1>3, WholeStep

\* Every step in which nothing goes wrong keeps the invariant.
LEMMA WholeNext ==
  ASSUME TypeOK, PartialInv, Fresh => WholeInv, [Next]_vars, Fresh'
  PROVE  WholeInv'
<1>1. WholeInv /\ ~Crash /\ \A t \in Threads : ~StoreFails(t)
  BY FreshBefore
<1>2. LockInv'
  BY <1>1, LockNext DEF WholeInv
<1>3. ASSUME NEW t \in Threads, Step(t) PROVE WholeInv'
  BY <1>1, <1>2, <1>3, WholeFiles, WholeThreads, WholeNames DEF WholeInv
<1>4. CASE \A t \in Threads : ~Step(t)
  <2>1. /\ UNCHANGED <<meta, blocks>>
        /\ \A u \in Threads : Critical(u) \/ Critical(u)' => Stays(u)
    BY <1>1, <1>4, QuietStep
  <2>2. \A u \in Threads : pc[u] \in {"refs", "data"} =>
          pc'[u] = pc[u] /\ BlockOf(u)' = BlockOf(u)
    BY <2>1 DEF Critical, Stays, BlockOf
  <2>3. \A u \in Threads : HasBlock(u)' => HasBlock(u) /\ BlockOf(u)' = BlockOf(u)
    BY <2>1 DEF HasBlock, Critical, Stays, BlockOf
  <2> QED
    BY <1>1, <1>2, <2>1, <2>2, <2>3 DEF WholeInv
<1> QED
  BY <1>3, <1>4

\* Until a call fails or the process dies, every pair names a block file that
\* is all there.  After a failed store_block, or a crash in one, it need not:
\* the next write of the block finds the file and takes it as stored.
THEOREM NamedBlocksWholeHolds == Spec => []NamedBlocksWhole
<1>1. Init => WholeInv
  BY DEF Init, WholeInv, LockInv, Critical, HasBlock, NewFile, Names
<1>2. Init => PartialInv
  BY DEF Init, PartialInv
<1>3. TypeOK /\ PartialInv /\ [Next]_vars => PartialInv'
  BY PartialNext
<1>4. TypeOK /\ PartialInv /\ (Fresh => WholeInv) /\ [Next]_vars =>
        (Fresh => WholeInv)'
  BY WholeNext
<1>5. (Fresh => WholeInv) => NamedBlocksWhole
  BY DEF Fresh, WholeInv, NamedBlocksWhole, Names
<1> QED
  BY <1>1, <1>2, <1>3, <1>4, <1>5, TypeCorrect, PTL DEF Spec

-----------------------------------------------------------------------------
(* Until something goes wrong, complete pairs stay as they are.             *)

\* Every pair of one body that is complete and within reach is in the other, and
\* within reach.
Keeps(body, next) ==
  \A k \in DOMAIN body : body[k].hash \in Blocks /\ Reachable(body, k) =>
    k \in DOMAIN next /\ next[k] = body[k] /\ Reachable(next, k)

\* A body that is the same up to its complete pairs within reach keeps them.
LEMMA KeepsUpTo ==
  ASSUME NEW body \in Seq(Pair), NEW next \in Seq(Pair),
         \A k \in 1..Len(body) :
           body[k].hash \in Blocks /\ (\A j \in 1..(k - 1) : body[j].hash \notin {"torn", "zero"})
             => \A j \in 1..k : j <= Len(next) /\ next[j] = body[j]
  PROVE  Keeps(body, next)
<1>1. "zero" \notin Blocks
  BY MarksAssumption
<1>2. SUFFICES ASSUME NEW k \in 1..Len(body), body[k].hash \in Blocks, Reachable(body, k)
               PROVE  k \in DOMAIN next /\ next[k] = body[k] /\ Reachable(next, k)
  BY DEF Keeps
<1>3. \A j \in 1..(k - 1) : body[j].hash \notin {"torn", "zero"}
  BY <1>1, <1>2 DEF Reachable
<1>4. \A j \in 1..k : j <= Len(next) /\ next[j] = body[j]
  BY <1>2, <1>3
<1>5. k \in 1..k /\ \A j \in 1..(k - 1) : j \in 1..k
  OBVIOUS
<1> QED
  BY <1>3, <1>4, <1>5 DEF Reachable

TornPair(i) == [index |-> i, hash |-> "torn"]

\* What becomes of the last pair, and of the complete ones.
LEMMA LastPair ==
  ASSUME NEW body \in Seq(Pair)
  PROVE  /\ \A next : FarBody(body, next) =>
              /\ LastTorn(next) => LastTorn(body)
              /\ Keeps(body, next)
         /\ \A i \in Indexes : /\ LastTorn(Append(body, TornPair(i)))
                               /\ Keeps(body, Append(body, TornPair(i)))
         /\ \A b \in Blocks : LastTorn(body) =>
              /\ ~LastTorn(Completed(body, b))
              /\ Keeps(body, Completed(body, b))
<1>1. "torn" \notin Blocks
  BY MarksAssumption
<1>2. ASSUME NEW i \in Indexes
      PROVE  LastTorn(Append(body, TornPair(i))) /\ Keeps(body, Append(body, TornPair(i)))
  <2> DEFINE next == Append(body, TornPair(i))
  <2>1. TornPair(i) \in Pair /\ TornPair(i).hash = "torn"
    BY DEF TornPair, Pair, Marks
  <2>2. /\ next \in Seq(Pair) /\ Len(next) = Len(body) + 1
        /\ next[Len(next)] = TornPair(i)
        /\ \A j \in 1..Len(body) : next[j] = body[j]
    BY <2>1
  <2>3. Len(body) \in Nat
    OBVIOUS
  <2> HIDE DEF next
  <2>4. LastTorn(next)
    BY <2>1, <2>2, <2>3 DEF LastTorn
  <2>5. \A k \in 1..Len(body) : \A j \in 1..k : j <= Len(next) /\ next[j] = body[j]
    BY <2>2, <2>3
  <2>6. Keeps(body, next)
    BY <2>2, <2>5, KeepsUpTo
  <2> QED
    BY <2>4, <2>6 DEF next
<1>3. ASSUME NEW next, FarBody(body, next)
      PROVE  (LastTorn(next) => LastTorn(body)) /\ Keeps(body, next)
  <2>1. next \in Seq(Pair) /\ Len(body) \in Nat /\ Len(next) \in Nat /\ Len(body) <= Len(next)
    BY <1>3 DEF FarBody
  <2>2. ASSUME LastTorn(next)
        PROVE  LastTorn(body)
    <3>1. Len(next) \in 1..Len(next) /\ next[Len(next)].hash = "torn"
      BY <2>1, <2>2 DEF LastTorn
    <3>2. "torn" \notin Names(body) \cup {"bad", "zero"}
      BY <1>1 DEF Names
    <3>3. Len(next) <= Len(body) /\ next[Len(next)] = body[Len(next)]
      BY <1>3, <3>1, <3>2 DEF FarBody
    <3> QED
      BY <2>1, <3>1, <3>3 DEF LastTorn
  <2>3. ASSUME NEW k \in 1..Len(body),
               \A j \in 1..(k - 1) : body[j].hash \notin {"torn", "zero"},
               NEW j \in 1..k
        PROVE  j <= Len(next) /\ next[j] = body[j]
    <3>1. j \in 1..Len(next) /\ j <= Len(body) /\ \A i \in 1..(j - 1) : i \in 1..(k - 1)
      BY <2>1
    <3> QED
      BY <1>3, <2>3, <3>1 DEF FarBody
  <2>4. Keeps(body, next)
    BY <2>1, <2>3, KeepsUpTo
  <2> QED
    BY <2>2, <2>4
<1>6. ASSUME NEW b \in Blocks, LastTorn(body)
      PROVE  ~LastTorn(Completed(body, b)) /\ Keeps(body, Completed(body, b))
  <2>1. /\ Completed(body, b) \in Seq(Pair) /\ Len(Completed(body, b)) = Len(body)
        /\ Len(body) \in 1..Len(body) /\ DOMAIN body = 1..Len(body)
    BY <1>6, CompletedType DEF LastTorn
  <2>2. body[Len(body)] \in Pair
    BY <2>1
  <2>3. Completed(body, b)[Len(body)].hash = b
    BY <2>1, <2>2 DEF Completed, Pair
  <2>4. ~LastTorn(Completed(body, b))
    BY <1>1, <2>1, <2>3 DEF LastTorn
  <2>5. \A j \in 1..Len(body) : j # Len(body) => Completed(body, b)[j] = body[j]
    BY <2>1 DEF Completed
  <2>6. \A k \in 1..Len(body) : body[k].hash \in Blocks => k < Len(body)
    BY <1>1, <1>6, <2>1 DEF LastTorn
  <2>7. \A k \in 1..Len(body) : body[k].hash \in Blocks =>
          \A j \in 1..k : j <= Len(body) /\ j # Len(body)
    BY <2>6
  <2>8. Keeps(body, Completed(body, b))
    BY <2>1, <2>5, <2>7, KeepsUpTo
  <2> QED
    BY <2>4, <2>8
<1> QED
  BY <1>2, <1>3, <1>6

\* How a step of a thread changes a body.
BodyStep(t, f) ==
  \/ meta'[f].body = meta[f].body
  \/ /\ pc[t] = "find" /\ Critical(t)
     /\ \/ FarBody(meta[f].body, meta'[f].body)
        \/ meta'[f].body = Smashed(meta[f].body) /\ LastTorn(meta[f].body)
  \/ /\ AppendIndex(t) /\ f = cache[req[t].handle].file
     /\ meta'[f].body = Append(meta[f].body, TornPair(req[t].index))
  \/ /\ AppendHash(t) /\ f = cache[req[t].handle].file
     /\ meta'[f].body = Completed(meta[f].body, req[t].block)

\* Writing an index again smashes a body only if its last pair is torn.
LEMMA ReplaceBody ==
  ASSUME TypeOK, NEW t \in Threads, Replace(t), NEW g \in Files
  PROVE  \/ FarBody(meta[g].body, meta'[g].body)
         \/ meta'[g].body = Smashed(meta[g].body) /\ LastTorn(meta[g].body)
<1>1. meta[g].body \in Seq(Pair)
  BY DEF TypeOK, FileState
<1>2. \A k : k # 0 /\ AtEnd(meta[g].body, k) => LastTorn(meta[g].body)
  BY <1>1 DEF AtEnd, LastTorn
<1> QED
  BY <1>2, ReplaceMeta

\* Every step of a thread changes bodies in one of these ways.
LEMMA BodySteps ==
  ASSUME TypeOK, NEW t \in Threads, Step(t), NEW f \in Files
  PROVE  BodyStep(t, f)
<1>1. CASE Replace(t)
  <2>1. pc[t] = "find" /\ Critical(t)
    BY <1>1 DEF Replace, At, Critical
  <2> QED
    BY <1>1, <2>1, ReplaceBody DEF BodyStep
<1>2. CASE AppendIndex(t) \/ AppendHash(t)
  <2>1. ~(AppendIndex(t) /\ AppendHash(t))
    BY DEF AppendIndex, AppendHash, At
  <2> QED
    BY <1>2, <2>1, AppendMeta DEF BodyStep, TornPair
<1>3. CASE WriteSize(t) \/ WriteTotal(t)
  BY <1>3, HeaderMeta DEF BodyStep
<1>4. CASE meta' = meta
  BY <1>4 DEF BodyStep
<1> QED
  BY <1>1, <1>2, <1>3, <1>4 DEF Step, Acquire, Register, StoreBlock, WriteRefs,
     WriteData, StoreFails, Unlock, UnlockAgain, HashFails, IndexFails,
     ReadBlock, ReadHole, Load, LoadFails

\* No thread is between the index and the hash of a pair when another one, or
\* the same one at another label, is in the critical section.
LEMMA NoTorn ==
  ASSUME LockInv, TornInv, NEW t \in Threads, Critical(t), pc[t] # "hash"
  PROVE  \A f \in Files : ~LastTorn(meta[f].body)
  BY DEF LockInv, TornInv, Critical

\* What thread t at "hash" writes is the only torn pair there is.
LEMMA OneTorn ==
  ASSUME LockInv, TornInv, NEW t \in Threads, pc[t] = "hash", NEW f \in Files,
         LastTorn(meta[f].body)
  PROVE  f = cache[req[t].handle].file
<1>1. PICK u \in Threads : pc[u] = "hash" /\ cache[req[u].handle].file = f
  BY DEF TornInv
<1>2. u = t
  BY <1>1 DEF LockInv, Critical
<1> QED
  BY <1>1, <1>2

\* A step of a thread in which nothing goes wrong leaves a torn pair at the end
\* of a file only to complete it, and keeps the complete ones.
LEMMA TornFiles ==
  ASSUME TypeOK, LockInv, TornInv, NEW t \in Threads, Step(t), NEW f \in Files,
         ~HashFails(t)
  PROVE  /\ Keeps(meta[f].body, meta'[f].body)
         /\ LastTorn(meta'[f].body) =>
              \E u \in Threads : pc'[u] = "hash" /\ cache'[req'[u].handle].file = f
<1>1. meta[f].body \in Seq(Pair)
  BY DEF TypeOK, FileState
<1>2. BodyStep(t, f)
  BY BodySteps
<1>3. CASE meta'[f].body = meta[f].body
  <2>1. ASSUME LastTorn(meta[f].body)
        PROVE  \E u \in Threads : pc'[u] = "hash" /\ cache'[req'[u].handle].file = f
    <3>1. PICK u \in Threads : pc[u] = "hash" /\ cache[req[u].handle].file = f
      BY <2>1 DEF TornInv
    <3>2. u # t
      <4>1. CASE u = t
        <5>1. pc[t] = "hash"
          BY <3>1, <4>1
        <5>2. AppendHash(t)
          BY <5>1 DEF Step, Acquire, Register, StoreBlock, WriteRefs, WriteData,
             StoreFails, Unlock, UnlockAgain, Replace, AppendIndex, IndexFails,
             WriteSize, WriteTotal, ReadBlock, ReadHole, Load, LoadFails, At
        <5>3. meta'[f].body = Completed(meta[f].body, req[t].block)
          BY <3>1, <4>1, <5>2, AppendMeta DEF AppendIndex, AppendHash, At
        <5>4. req[t].block \in Blocks
          BY <5>1, RequestType DEF TypeOK
        <5> QED
          BY <1>1, <1>3, <2>1, <5>3, <5>4, LastPair
      <4> QED
        BY <4>1
    <3>3. pc'[u] = "hash" /\ req'[u] = req[u] /\ req[u].handle \in Handles
      BY <3>1, <3>2, OthersStay, RequestType
    <3> QED
      BY <3>1, <3>3, FilesStay
  <2>2. Keeps(meta[f].body, meta[f].body)
    BY <1>1, FarSame, LastPair
  <2> QED
    BY <1>3, <2>1, <2>2
<1>4. CASE pc[t] = "find" /\ Critical(t)
           /\ \/ FarBody(meta[f].body, meta'[f].body)
              \/ meta'[f].body = Smashed(meta[f].body) /\ LastTorn(meta[f].body)
  <2>1. ~LastTorn(meta[f].body)
    BY <1>4, NoTorn
  <2> QED
    BY <1>1, <1>4, <2>1, LastPair
<1>5. CASE /\ AppendIndex(t) /\ f = cache[req[t].handle].file
           /\ meta'[f].body = Append(meta[f].body, TornPair(req[t].index))
  <2>1. pc[t] = "find"
    BY <1>5 DEF AppendIndex, At
  <2>2. req[t].index \in Indexes
    BY <2>1, RequestType
  <2>3. pc'[t] = "hash" /\ cache'[req'[t].handle].file = f
    BY <1>5 DEF AppendIndex, Goto, TypeOK
  <2>4. \A i \in Indexes : Keeps(meta[f].body, Append(meta[f].body, TornPair(i)))
    BY <1>1, LastPair
  <2>5. Keeps(meta[f].body, meta'[f].body)
    BY <1>5, <2>2, <2>4
  <2> QED
    BY <2>3, <2>5
<1>6. CASE /\ AppendHash(t) /\ f = cache[req[t].handle].file
           /\ meta'[f].body = Completed(meta[f].body, req[t].block)
  <2>1. pc[t] = "hash"
    BY <1>6 DEF AppendHash, At
  <2>2. req[t].block \in Blocks
    BY <2>1, RequestType DEF TypeOK
  <2>3. LastTorn(meta[f].body)
    BY <1>6, <2>1 DEF TornInv, BodyOf
  <2>4. \A b \in Blocks : /\ ~LastTorn(Completed(meta[f].body, b))
                           /\ Keeps(meta[f].body, Completed(meta[f].body, b))
    BY <1>1, <2>3, LastPair
  <2> QED
    BY Zenon, <1>6, <2>2, <2>4
<1> QED
  BY <1>2, <1>3, <1>4, <1>5, <1>6 DEF BodyStep

\* A thread that has written an index finds it at the end of its file.
LEMMA TornThreads ==
  ASSUME TypeOK, LockInv, TornInv, NEW t \in Threads, Step(t), ~HashFails(t),
         NEW u \in Threads, pc'[u] = "hash"
  PROVE  LastTorn(BodyOf(u)')
<1>1. CASE u = t
  <2>1. AppendIndex(t)
    BY <1>1 DEF Step, Acquire, Register, StoreBlock, WriteRefs, WriteData,
       StoreFails, Unlock, UnlockAgain, Replace, AppendHash, HashFails,
       IndexFails, WriteSize, WriteTotal, ReadBlock, ReadHole, Load, LoadFails,
       Return, Goto, TypeOK
  <2>2. pc[t] = "find"
    BY <2>1 DEF AppendIndex, At
  <2>3. req[t].index \in Indexes /\ cache[req[t].handle].file \in Files
    BY <2>2, RequestType
  <2>4. BodyOf(t)' = Append(BodyOf(t), TornPair(req[t].index))
    BY <2>1, <2>3, AppendMeta DEF AppendIndex, BodyOf, TornPair
  <2>5. BodyOf(t) \in Seq(Pair)
    BY <2>3 DEF TypeOK, FileState, BodyOf
  <2> QED
    BY <1>1, <2>3, <2>4, <2>5, LastPair
<1>2. CASE u # t
  <2>1. pc[u] = "hash" /\ req'[u] = req[u]
    BY <1>2, OthersStay
  <2>2. req[u].handle \in Handles /\ ~Critical(t)
    BY <1>2, <2>1, RequestType DEF LockInv, Critical
  <2>3. cache'[req[u].handle].file = cache[req[u].handle].file /\ meta' = meta
    BY <2>2, FilesStay, Writers
  <2> QED
    BY <2>1, <2>3 DEF TornInv, BodyOf
<1> QED
  BY <1>1, <1>2

\* Every step in which nothing goes wrong keeps the torn pairs to their threads.
LEMMA TornNext ==
  ASSUME TypeOK, Fresh => LockInv /\ TornInv, [Next]_vars, Fresh'
  PROVE  TornInv' /\ \A f \in Files : Keeps(meta[f].body, meta'[f].body)
<1>1. LockInv /\ TornInv /\ ~Crash /\ \A t \in Threads : ~HashFails(t)
  BY FreshBefore
<1>2. ASSUME NEW t \in Threads, Step(t)
      PROVE  TornInv' /\ \A f \in Files : Keeps(meta[f].body, meta'[f].body)
  BY <1>1, <1>2, TornFiles, TornThreads DEF TornInv
<1>3. CASE \A t \in Threads : ~Step(t)
  <2>1. /\ UNCHANGED meta
        /\ \A u \in Threads : Critical(u) \/ Critical(u)' => Stays(u)
    BY <1>1, <1>3, QuietStep
  <2>2. \A u \in Threads : pc[u] = "hash" \/ pc'[u] = "hash" => Stays(u)
    BY <2>1 DEF Critical
  <2>3. TornInv'
    BY <1>1, <2>1, <2>2 DEF TornInv, BodyOf, Stays
  <2> QED
    BY <2>1, <2>3 DEF Keeps
<1> QED
  BY <1>2, <1>3

\* Until a call fails or the process dies, no write of any index, through any
\* number of handles with stale copies of the header and wherever a rewrite
\* lands, changes a complete pair that a search comes to, takes it away or cuts
\* it off.
THEOREM PairsKeptHolds == Spec => PairsKept
<1>1. Init => WholeInv /\ TornInv /\ PartialInv
  BY DEF Init, WholeInv, TornInv, PartialInv, LockInv, Critical, HasBlock,
     LastTorn, NewFile, Names
<1>2. TypeOK /\ PartialInv /\ [Next]_vars => PartialInv'
  BY PartialNext
<1>3. TypeOK /\ PartialInv /\ (Fresh => WholeInv) /\ [Next]_vars =>
        (Fresh => WholeInv)'
  BY WholeNext
<1>4. TypeOK /\ (Fresh => WholeInv) /\ (Fresh => TornInv) /\ [Next]_vars =>
        (Fresh => TornInv)'
  BY TornNext DEF WholeInv
<1>5. TypeOK /\ (Fresh => WholeInv) /\ (Fresh => TornInv) /\ [Next]_vars =>
        [faults' = 0 /\ crashes' = 0 =>
           \A f \in Files : \A k \in DOMAIN meta[f].body :
             meta[f].body[k].hash \in Blocks /\ Reachable(meta[f].body, k) =>
               /\ k \in DOMAIN meta'[f].body
               /\ meta'[f].body[k] = meta[f].body[k]
               /\ Reachable(meta'[f].body, k)]_vars
  <2> SUFFICES ASSUME TypeOK, Fresh => WholeInv, Fresh => TornInv, [Next]_vars, Fresh'
               PROVE  \A f \in Files : Keeps(meta[f].body, meta'[f].body)
    BY DEF Keeps, Fresh
  <2> QED
    BY TornNext DEF WholeInv
<1> QED
  BY <1>1, <1>2, <1>3, <1>4, <1>5, TypeCorrect, PTL DEF Spec, PairsKept

-----------------------------------------------------------------------------
(* One handle per file, no failing call, no crash, and seeks that land      *)
(* where they should.                                                       *)
Calm == ~Shared /\ MaxFaults = 0 /\ MaxCrashes = 0 /\ Landings = {"back"}

(* Bodies.                                                                  *)

HasPair(body, i) == \E k \in DOMAIN body : body[k].index = i

\* How many of its pairs are complete.
CompletePairs(body) == IF LastTorn(body) THEN Len(body) - 1 ELSE Len(body)

\* At most one pair per index, and all of them complete, except that the last
\* one may be torn.
WellFormed(body) ==
  /\ \A k \in DOMAIN body :
       /\ body[k].index \in Indexes
       /\ body[k].hash \in Blocks \/ (k = Len(body) /\ LastTorn(body))
  /\ \A j, k \in DOMAIN body : body[j].index = body[k].index => j = k

\* The block at index i of a body, or "hole".
Held(body, i) ==
  LET hits == Hits(body, i)
  IN  IF hits = {} THEN "hole"
      ELSE IF body[Min(hits)].hash \in Blocks THEN body[Min(hits)].hash
      ELSE "hole"

\* The smallest member of a set of one number.
LEMMA MinOne ==
  ASSUME NEW k \in Int
  PROVE  Min({k}) = k
  BY DEF Min

\* In a well formed body the search misses no pair, and finds no other one.
LEMMA OneHit ==
  ASSUME NEW body \in Seq(Pair), WellFormed(body), NEW i
  PROVE  /\ ~HasPair(body, i) => Hits(body, i) = {}
         /\ \A k \in DOMAIN body : body[k].index = i => Hits(body, i) = {k}
<1>1. \A k \in DOMAIN body : Reachable(body, k)
  BY MarksAssumption DEF WellFormed, Reachable
<1> QED
  BY <1>1 DEF Hits, HasPair, WellFormed

\* What is at an index is what its pair has.
LEMMA HeldIs ==
  ASSUME NEW body \in Seq(Pair), WellFormed(body), NEW i
  PROVE  /\ ~HasPair(body, i) => Held(body, i) = "hole"
         /\ \A k \in DOMAIN body : body[k].index = i =>
              Held(body, i) = IF body[k].hash \in Blocks THEN body[k].hash ELSE "hole"
<1>1. ASSUME NEW k \in DOMAIN body, body[k].index = i
      PROVE  Held(body, i) = IF body[k].hash \in Blocks THEN body[k].hash ELSE "hole"
  <2>1. Hits(body, i) = {k} /\ Min({k}) = k
    BY <1>1, OneHit, MinOne
  <2> QED
    BY <2>1 DEF Held
<1> QED
  BY <1>1, OneHit DEF Held

\* An index without a pair gets a torn one.
LEMMA AppendTorn ==
  ASSUME NEW body \in Seq(Pair), WellFormed(body), ~LastTorn(body),
         NEW i \in Indexes, ~HasPair(body, i)
  PROVE  LET next == Append(body, TornPair(i))
         IN  /\ next \in Seq(Pair) /\ WellFormed(next) /\ LastTorn(next)
             /\ CompletePairs(next) = CompletePairs(body)
             /\ next[Len(next)].index = i
             /\ \A j : Held(next, j) = Held(body, j)
<1> DEFINE next == Append(body, TornPair(i))
<1>1. TornPair(i) \in Pair
  BY DEF Pair, TornPair, Marks
<1>2. /\ next \in Seq(Pair) /\ LastTorn(next) /\ Len(next) = Len(body) + 1
      /\ Len(body) \in Nat
      /\ DOMAIN body = 1..Len(body) /\ DOMAIN next = 1..(Len(body) + 1)
      /\ \A k \in DOMAIN body : next[k] = body[k]
      /\ next[Len(body) + 1] = TornPair(i)
  BY <1>1, LastPair
<1>3. next[Len(body) + 1].index = i /\ next[Len(body) + 1].hash = "torn"
  BY <1>2 DEF TornPair
<1> HIDE DEF next
<1>4. WellFormed(next)
  BY <1>2, <1>3 DEF WellFormed, HasPair
<1>5. CompletePairs(next) = CompletePairs(body)
  BY <1>2 DEF CompletePairs
<1>6. ASSUME NEW j PROVE Held(next, j) = Held(body, j)
  <2>1. CASE HasPair(body, j)
    <3>1. PICK k \in DOMAIN body : body[k].index = j
      BY <2>1 DEF HasPair
    <3>2. k \in DOMAIN next /\ next[k] = body[k]
      BY <1>2
    <3> QED
      BY <1>2, <1>4, <3>1, <3>2, HeldIs
  <2>2. CASE ~HasPair(body, j) /\ j = i
    <3>1. "torn" \notin Blocks /\ Len(body) + 1 \in DOMAIN next
      BY <1>2, MarksAssumption
    <3>2. Held(next, j) = "hole"
      BY <1>2, <1>3, <1>4, <2>2, <3>1, HeldIs
    <3> QED
      BY <2>2, <3>2, HeldIs
  <2>3. CASE ~HasPair(body, j) /\ j # i
    <3>1. ~HasPair(next, j)
      BY <1>2, <1>3, <2>3 DEF HasPair
    <3> QED
      BY <1>2, <1>4, <2>3, <3>1, HeldIs
  <2> QED
    BY <2>1, <2>2, <2>3
<1> QED
  BY <1>2, <1>3, <1>4, <1>5, <1>6 DEF next

\* A torn pair is completed.
LEMMA CompleteTorn ==
  ASSUME NEW body \in Seq(Pair), WellFormed(body), LastTorn(body), NEW b \in Blocks
  PROVE  LET next == Completed(body, b)
             i == body[Len(body)].index
         IN  /\ next \in Seq(Pair) /\ WellFormed(next) /\ ~LastTorn(next)
             /\ CompletePairs(next) = CompletePairs(body) + 1
             /\ HasPair(next, i)
             /\ Held(body, i) = "hole" /\ Held(next, i) = b
             /\ \A j : j # i => Held(next, j) = Held(body, j)
<1> DEFINE next == Completed(body, b)
           last == Len(body)
           i == body[last].index
<1>1. /\ next \in Seq(Pair) /\ ~LastTorn(next) /\ Len(next) = last /\ last \in Nat
      /\ DOMAIN body = 1..last /\ DOMAIN next = 1..last /\ last \in 1..last
  BY CompletedType, LastPair DEF LastTorn
<1>2. \A k \in 1..last : k # last => next[k] = body[k]
  BY <1>1 DEF Completed
<1>3. body[last] \in Pair /\ body[last].hash = "torn" /\ "torn" \notin Blocks
  BY <1>1, MarksAssumption DEF LastTorn
<1>4. next[last].index = i /\ next[last].hash = b
  BY <1>1, <1>3 DEF Completed, Pair
<1> HIDE DEF next, last
<1>5. \A k \in 1..last : next[k].index = body[k].index
  BY <1>2, <1>4
<1>6. \A k \in 1..last : next[k].hash \in Blocks
  BY <1>1, <1>2, <1>4 DEF WellFormed, last
<1>7. WellFormed(next)
  BY <1>1, <1>5, <1>6 DEF WellFormed
<1>8. CompletePairs(next) = CompletePairs(body) + 1
  BY <1>1 DEF CompletePairs, last
<1>9. HasPair(next, i) /\ Held(next, i) = b
  BY <1>1, <1>4, <1>7, HeldIs DEF HasPair
<1>10. Held(body, i) = "hole"
  BY <1>1, <1>3, HeldIs
<1>11. ASSUME NEW j, j # i PROVE Held(next, j) = Held(body, j)
  <2>1. CASE HasPair(body, j)
    <3>1. PICK k \in 1..last : body[k].index = j
      BY <1>1, <2>1 DEF HasPair
    <3>2. next[k] = body[k] /\ next[k].index = j
      BY <1>2, <1>11, <3>1
    <3> QED
      BY <1>1, <1>7, <3>1, <3>2, HeldIs
  <2>2. CASE ~HasPair(body, j)
    <3>1. ~HasPair(next, j)
      BY <1>1, <1>5, <2>2 DEF HasPair
    <3> QED
      BY <1>1, <1>7, <2>2, <3>1, HeldIs
  <2> QED
    BY <2>1, <2>2
<1> QED
  BY <1>1, <1>7, <1>8, <1>9, <1>10, <1>11 DEF next, last

\* The search of a thread in the critical section.
LEMMA Search ==
  ASSUME NEW h \in Handles, NEW i,
         meta[cache[h].file].body \in Seq(Pair),
         WellFormed(meta[cache[h].file].body),
         cache[h].total = Len(meta[cache[h].file].body)
  PROVE  /\ FindIndex(h, i) = 0 => ~HasPair(meta[cache[h].file].body, i)
         /\ FindIndex(h, i) # 0 =>
              /\ FindIndex(h, i) \in DOMAIN meta[cache[h].file].body
              /\ meta[cache[h].file].body[FindIndex(h, i)].index = i
<1> DEFINE body == meta[cache[h].file].body
<1>1. CASE HasPair(body, i)
  <2>1. PICK k \in DOMAIN body : body[k].index = i
    BY <1>1 DEF HasPair
  <2>2. Hits(body, i) = {k} /\ Min({k}) = k /\ k # 0 /\ Len(body) # 0
    BY <2>1, OneHit, MinOne
  <2>3. FindIndex(h, i) = k
    BY <2>2 DEF FindIndex
  <2> QED
    BY <2>1, <2>2, <2>3
<1>2. CASE ~HasPair(body, i)
  <2>1. FindIndex(h, i) = 0
    BY <1>2, OneHit DEF FindIndex
  <2> QED
    BY <1>2, <2>1
<1> QED
  BY <1>1, <1>2

(* The inductive invariant.                                                 *)

\* No two open handles are of one file.
OneHandle ==
  \A g, h \in Handles :
    cache[g].file # None /\ cache[g].file = cache[h].file => g = h

\* A handle's copy of the header counts the complete pairs of its file.
CopiesExact ==
  \A h \in Handles : cache[h].file # None =>
    cache[h].total = CompletePairs(meta[cache[h].file].body)

\* A thread that completes a pair has the pair of its index at the end; one
\* that is past it has a pair.
PairOf(t) ==
  /\ pc[t] = "hash" => BodyOf(t)[Len(BodyOf(t))].index = req[t].index
  /\ pc[t] \in {"size", "total"} => HasPair(BodyOf(t), req[t].index)

PairsInv ==
  /\ OneHandle
  /\ CopiesExact
  /\ HeaderExact
  /\ \A f \in Files : WellFormed(meta[f].body)
  /\ \A t \in Threads : PairOf(t)
  /\ \A t \in Threads : pc[t] # "idle" => ret[t] = None

\* Everything that holds of a state before a step.
CalmInv == TypeOK /\ PartialInv /\ Fresh /\ WholeInv /\ TornInv /\ PairsInv

\* Nothing goes wrong in a calm system.
LEMMA CalmFresh ==
  ASSUME Calm, TypeOK, Fresh, [Next]_vars
  PROVE  Fresh'
<1>1. \A kind : ~Fault(kind)
  BY DEF Fault, Calm, Fresh, TypeOK
<1>2. ~Crash
  BY DEF Crash, Calm, Fresh, TypeOK
<1>3. UNCHANGED <<faults, crashes>>
  BY <1>1, <1>2, NothingWrong
<1> QED
  BY <1>3 DEF Fresh

\* The file of a thread in the critical section.
LEMMA CalmFile ==
  ASSUME CalmInv, NEW t \in Threads, Critical(t)
  PROVE  /\ req[t].handle \in Handles /\ req[t].index \in Indexes
         /\ cache[req[t].handle].file \in Files
         /\ BodyOf(t) \in Seq(Pair) /\ WellFormed(BodyOf(t))
         /\ cache[req[t].handle].total = CompletePairs(BodyOf(t))
         /\ pc[t] # "hash" => /\ ~LastTorn(BodyOf(t))
                              /\ CompletePairs(BodyOf(t)) = Len(BodyOf(t))
         /\ pc[t] = "hash" => /\ LastTorn(BodyOf(t))
                              /\ BodyOf(t)[Len(BodyOf(t))].index = req[t].index
                              /\ req[t].block \in Blocks
<1>1. /\ req[t].handle \in Handles /\ req[t].index \in Indexes
      /\ cache[req[t].handle].file \in Files
      /\ pc[t] = "hash" => req[t].block \in Blocks
  BY RequestType DEF CalmInv, Critical, TypeOK
<1>2. BodyOf(t) \in Seq(Pair) /\ WellFormed(BodyOf(t))
  BY <1>1 DEF CalmInv, TypeOK, FileState, PairsInv, BodyOf
<1>3. cache[req[t].handle].total = CompletePairs(BodyOf(t))
  BY <1>1, NoneAssumption DEF CalmInv, PairsInv, CopiesExact, BodyOf
<1>4. pc[t] # "hash" => ~LastTorn(BodyOf(t))
  BY <1>1, NoTorn DEF CalmInv, WholeInv, BodyOf
<1>5. pc[t] = "hash" => /\ LastTorn(BodyOf(t))
                        /\ BodyOf(t)[Len(BodyOf(t))].index = req[t].index
  BY DEF CalmInv, TornInv, PairsInv, PairOf
<1> QED
  BY <1>1, <1>2, <1>3, <1>4, <1>5 DEF CompletePairs

\* What the search of a thread says of its file.
LEMMA CalmSearch ==
  ASSUME CalmInv, Fresh', NEW t \in Threads, Critical(t), pc[t] # "hash",
         NEW k, Found(t, k)
  PROVE  /\ k = 0 => ~HasPair(BodyOf(t), req[t].index)
         /\ k # 0 => /\ k \in DOMAIN BodyOf(t)
                     /\ BodyOf(t)[k].index = req[t].index
<1>1. k = FindIndex(req[t].handle, req[t].index)
  BY FreshSearch DEF CalmInv
<1>2. /\ req[t].handle \in Handles
      /\ BodyOf(t) \in Seq(Pair) /\ WellFormed(BodyOf(t))
      /\ cache[req[t].handle].total = Len(BodyOf(t))
  BY CalmFile
<1> QED
  BY <1>1, <1>2, Search DEF BodyOf

\* A write of an index that has a pair changes nothing in the file.
LEMMA CalmReplace ==
  ASSUME Calm, CalmInv, Fresh', NEW t \in Threads, Replace(t)
  PROVE  meta' = meta /\ HasPair(BodyOf(t), req[t].index)
<1> DEFINE f == cache[req[t].handle].file
<1>1. PICK k \in Positions(t), landing \in Landings :
        /\ Found(t, k) /\ k # 0
        /\ \E file \in Rewritten(meta[f], k, landing) : meta' = [meta EXCEPT ![f] = file]
  BY DEF Replace
<1>2. Critical(t) /\ pc[t] = "find"
  BY DEF Replace, At, Critical
<1>3. k \in DOMAIN BodyOf(t) /\ BodyOf(t)[k].index = req[t].index
  BY <1>1, <1>2, CalmSearch
<1>4. /\ f \in Files /\ BodyOf(t) \in Seq(Pair) /\ ~LastTorn(BodyOf(t))
      /\ BodyOf(t) = meta[f].body
  BY <1>2, CalmFile DEF BodyOf
<1>5. ~AtEnd(meta[f].body, k)
  BY <1>3, <1>4, NotAtEnd
<1>6. meta' = [meta EXCEPT ![f] = [meta[f] EXCEPT !.body = meta[f].body]]
  <2>1. landing = "back"
    BY DEF Calm
  <2>2. Rewritten(meta[f], k, landing) = {[meta[f] EXCEPT !.body = meta[f].body]}
    BY Zenon, <1>5, <2>1 DEF Rewritten
  <2> QED
    BY Zenon, <1>1, <2>2
<1>7. meta \in [Files -> FileState] /\ meta[f] \in FileState
  BY <1>4 DEF CalmInv, TypeOK
<1>8. [meta[f] EXCEPT !.body = meta[f].body] = meta[f]
  BY <1>7 DEF FileState
<1>9. meta' = meta
  BY <1>6, <1>7, <1>8
<1> QED
  BY <1>3, <1>9 DEF HasPair

\* The write of an index, into a file without a pair for it.
LEMMA CalmIndex ==
  ASSUME CalmInv, Fresh', NEW t \in Threads, AppendIndex(t)
  PROVE  /\ Critical(t) /\ pc[t] = "find" /\ pc'[t] = "hash"
         /\ UNCHANGED <<cache, req, ret>>
         /\ ~HasPair(BodyOf(t), req[t].index)
         /\ BodyOf(t)' = Append(BodyOf(t), TornPair(req[t].index))
         /\ \A f \in Files : f # cache[req[t].handle].file =>
              meta'[f].body = meta[f].body
         /\ \A f \in Files : meta'[f].total = meta[f].total
<1>1. /\ Critical(t) /\ pc[t] = "find" /\ Found(t, 0) /\ UNCHANGED <<cache, req, ret>>
  BY DEF AppendIndex, At, Critical
<1>2. pc'[t] = "hash"
  BY DEF AppendIndex, Goto, CalmInv, TypeOK
<1>3. ~HasPair(BodyOf(t), req[t].index)
  BY <1>1, CalmSearch
<1>4. cache[req[t].handle].file \in Files
  BY <1>1, CalmFile
<1>5. BodyOf(t)' = Append(BodyOf(t), TornPair(req[t].index))
  BY <1>1, <1>4, AppendMeta DEF CalmInv, BodyOf, TornPair
<1>6. \A f \in Files : /\ meta'[f].total = meta[f].total
                       /\ f # cache[req[t].handle].file => meta'[f].body = meta[f].body
  BY AppendMeta DEF CalmInv
<1> QED
  BY <1>1, <1>2, <1>3, <1>5, <1>6

\* The write of a hash.
LEMMA CalmHash ==
  ASSUME CalmInv, NEW t \in Threads, AppendHash(t)
  PROVE  /\ Critical(t) /\ pc[t] = "hash" /\ pc'[t] = "size"
         /\ UNCHANGED <<req, ret>>
         /\ BodyOf(t)' = Completed(BodyOf(t), req[t].block)
         /\ \A f \in Files : f # cache[req[t].handle].file =>
              meta'[f].body = meta[f].body
         /\ \A f \in Files : meta'[f].total = meta[f].total
         /\ cache'[req[t].handle].total = cache[req[t].handle].total + 1
         /\ \A h \in Handles : h # req[t].handle => cache'[h] = cache[h]
<1>1. /\ Critical(t) /\ pc[t] = "hash" /\ UNCHANGED <<req, ret>> /\ Count(t)
  BY DEF AppendHash, At, Critical
<1>2. pc'[t] = "size"
  BY DEF AppendHash, Goto, CalmInv, TypeOK
<1>3. req[t].handle \in Handles /\ cache[req[t].handle].file \in Files
  BY <1>1, CalmFile
<1>4. cache[req[t].handle] \in HandleState
  BY <1>3 DEF CalmInv, TypeOK
<1>5. /\ cache'[req[t].handle].total = cache[req[t].handle].total + 1
      /\ cache'[req[t].handle].file = cache[req[t].handle].file
      /\ \A h \in Handles : h # req[t].handle => cache'[h] = cache[h]
  BY <1>1, <1>3, <1>4 DEF Count, HandleState, CalmInv, TypeOK
<1>6. ~AppendIndex(t)
  BY <1>1 DEF AppendIndex, At
<1>7. \A f \in Files :
        /\ meta'[f].total = meta[f].total
        /\ f # cache[req[t].handle].file => meta'[f].body = meta[f].body
        /\ f = cache[req[t].handle].file =>
             meta'[f].body = Completed(meta[f].body, req[t].block)
  BY <1>6, AppendMeta DEF CalmInv
<1>8. BodyOf(t)' = Completed(BodyOf(t), req[t].block)
  BY <1>1, <1>3, <1>5, <1>7 DEF BodyOf
<1> QED
  BY <1>1, <1>2, <1>5, <1>7, <1>8

\* Every other step of a thread leaves the pairs as they are.
LEMMA CalmOther ==
  ASSUME Calm, CalmInv, Fresh', NEW t \in Threads, Step(t),
         ~AppendIndex(t), ~AppendHash(t)
  PROVE  \A f \in Files : meta'[f].body = meta[f].body
<1>1. CASE Replace(t)
  BY <1>1, CalmReplace
<1>2. CASE WriteSize(t) \/ WriteTotal(t)
  BY <1>2, HeaderMeta DEF CalmInv
<1>3. CASE meta' = meta
  BY <1>3
<1> QED
  BY <1>1, <1>2, <1>3 DEF Step, Acquire, Register, StoreBlock, WriteRefs,
     WriteData, StoreFails, Unlock, UnlockAgain, HashFails, IndexFails,
     ReadBlock, ReadHole, Load, LoadFails

\* A thread's own step.
LEMMA CalmBodies ==
  ASSUME Calm, CalmInv, Fresh', NEW t \in Threads, Step(t)
  PROVE  \A f \in Files : WellFormed(meta'[f].body)
<1>1. \A f \in Files : WellFormed(meta[f].body)
  BY DEF CalmInv, PairsInv
<1>2. CASE AppendIndex(t)
  <2>1. WellFormed(BodyOf(t)')
    <3>1. /\ BodyOf(t) \in Seq(Pair) /\ WellFormed(BodyOf(t))
          /\ ~LastTorn(BodyOf(t)) /\ ~HasPair(BodyOf(t), req[t].index)
          /\ req[t].index \in Indexes
          /\ BodyOf(t)' = Append(BodyOf(t), TornPair(req[t].index))
      BY <1>2, CalmIndex, CalmFile
    <3> QED
      BY <3>1, AppendTorn
  <2>2. BodyOf(t)' = meta'[cache[req[t].handle].file].body
    BY <1>2, CalmIndex DEF BodyOf
  <2> QED
    BY <1>1, <1>2, <2>1, <2>2, CalmIndex
<1>3. CASE AppendHash(t)
  <2>1. WellFormed(BodyOf(t)')
    <3>1. /\ BodyOf(t) \in Seq(Pair) /\ WellFormed(BodyOf(t))
          /\ LastTorn(BodyOf(t)) /\ req[t].block \in Blocks
          /\ BodyOf(t)' = Completed(BodyOf(t), req[t].block)
      BY <1>3, CalmHash, CalmFile
    <3> QED
      BY <3>1, CompleteTorn
  <2>2. req[t].handle \in Handles
    BY <1>3, CalmHash, CalmFile
  <2>3. BodyOf(t)' = meta'[cache[req[t].handle].file].body
    BY <1>3, <2>2, CalmHash, FilesStay DEF BodyOf, CalmInv
  <2> QED
    BY <1>1, <1>3, <2>1, <2>3, CalmHash
<1>4. CASE ~AppendIndex(t) /\ ~AppendHash(t)
  BY <1>1, <1>4, CalmOther
<1> QED
  BY <1>2, <1>3, <1>4

\* The copies of the header still count the complete pairs.
LEMMA CalmCopies ==
  ASSUME Calm, CalmInv, Fresh', NEW t \in Threads, Step(t),
         ~HashFails(t), ~IndexFails(t)
  PROVE  OneHandle' /\ CopiesExact'
<1>1. \A h \in Handles : cache'[h].file = cache[h].file
  BY FilesStay DEF CalmInv
<1>2. OneHandle /\ CopiesExact
  BY DEF CalmInv, PairsInv
<1>3. OneHandle'
  BY <1>1, <1>2 DEF OneHandle
<1>4. ASSUME NEW h \in Handles, cache[h].file # None
      PROVE  cache'[h].total = CompletePairs(meta'[cache[h].file].body)
  <2>1. cache[h].file \in Files /\ cache[h].total = CompletePairs(meta[cache[h].file].body)
    BY <1>2, <1>4 DEF CopiesExact, CalmInv, TypeOK, HandleState
  <2>2. CASE AppendIndex(t)
    <3>1. cache'[h].total = cache[h].total
      BY <2>2, CalmIndex
    <3>2. CASE cache[h].file = cache[req[t].handle].file
      <4>1. /\ BodyOf(t) \in Seq(Pair) /\ WellFormed(BodyOf(t))
            /\ ~LastTorn(BodyOf(t)) /\ ~HasPair(BodyOf(t), req[t].index)
            /\ req[t].index \in Indexes
            /\ BodyOf(t)' = Append(BodyOf(t), TornPair(req[t].index))
            /\ UNCHANGED <<cache, req>>
        BY <2>2, CalmIndex, CalmFile
      <4>2. CompletePairs(BodyOf(t)') = CompletePairs(BodyOf(t))
        BY <4>1, AppendTorn
      <4> QED
        BY <2>1, <3>1, <3>2, <4>1, <4>2 DEF BodyOf
    <3>3. CASE cache[h].file # cache[req[t].handle].file
      BY <2>1, <2>2, <3>1, <3>3, CalmIndex
    <3> QED
      BY <3>2, <3>3
  <2>3. CASE AppendHash(t)
    <3>1. CASE h = req[t].handle
      <4>1. /\ BodyOf(t) \in Seq(Pair) /\ WellFormed(BodyOf(t))
            /\ LastTorn(BodyOf(t)) /\ req[t].block \in Blocks
            /\ BodyOf(t)' = Completed(BodyOf(t), req[t].block)
            /\ UNCHANGED req
        BY <2>3, CalmHash, CalmFile
      <4>2. CompletePairs(BodyOf(t)') = CompletePairs(BodyOf(t)) + 1
        BY <4>1, CompleteTorn
      <4>3. cache'[h].total = cache[h].total + 1
        BY <2>3, <3>1, CalmHash
      <4> QED
        BY <1>1, <2>1, <3>1, <4>1, <4>2, <4>3 DEF BodyOf
    <3>2. CASE h # req[t].handle
      <4>1. cache[h].file # cache[req[t].handle].file
        <5>1. req[t].handle \in Handles
          BY <2>3, CalmHash, CalmFile
        <5> QED
          BY <1>2, <1>4, <3>2, <5>1 DEF OneHandle
      <4> QED
        BY <2>1, <2>3, <3>2, <4>1, CalmHash
    <3> QED
      BY <3>1, <3>2
  <2>4. CASE ~AppendIndex(t) /\ ~AppendHash(t)
    <3>1. cache'[h].total = cache[h].total
      BY <2>4, CacheStep DEF CalmInv
    <3> QED
      BY <2>1, <2>4, <3>1, CalmOther
  <2> QED
    BY <2>2, <2>3, <2>4
<1>5. CopiesExact'
  BY <1>1, <1>4 DEF CopiesExact
<1> QED
  BY <1>3, <1>5

\* Where the steps that write a file take their thread.
LEMMA CalmPath ==
  ASSUME CalmInv, NEW t \in Threads, Step(t), ~HashFails(t), ~IndexFails(t)
  PROVE  /\ pc'[t] = "hash" => AppendIndex(t)
         /\ pc'[t] = "size" => AppendHash(t) \/ Replace(t)
         /\ pc'[t] = "total" => WriteSize(t)
         /\ pc[t] = "size" => pc'[t] = "total"
         /\ pc[t] = "hash" => AppendHash(t)
         /\ pc[t] = "total" => WriteTotal(t)
         /\ pc'[t] # "idle" => req'[t] = req[t] /\ ret'[t] = ret[t]
         /\ pc[t] # "idle"
  BY DEF CalmInv, TypeOK, Step, Acquire, Register, StoreBlock, WriteRefs,
     WriteData, StoreFails, Unlock, UnlockAgain, Replace, AppendIndex,
     AppendHash, WriteSize, WriteTotal, ReadBlock, ReadHole, Load, LoadFails,
     Return, At, Goto

\* A file that is not being written has an exact header.
LEMMA CalmHeader ==
  ASSUME Calm, CalmInv, Fresh', NEW t \in Threads, Step(t),
         ~HashFails(t), ~IndexFails(t)
  PROVE  HeaderExact'
<1> SUFFICES ASSUME NEW f \in Files, ~BeingWritten(f)'
             PROVE  meta'[f].total = Len(meta'[f].body)
  BY DEF HeaderExact
<1> DEFINE own == cache[req[t].handle].file
<1>1. \A u \in Threads : u # t =>
        /\ pc'[u] = pc[u] /\ req'[u] = req[u]
        /\ pc[u] # "idle" => cache'[req[u].handle].file = cache[req[u].handle].file
  BY OthersStay, FilesStay, RequestType DEF CalmInv
<1>2. \A u \in Threads : pc'[u] \in {"hash", "size", "total"} =>
        cache'[req'[u].handle].file # f
  BY DEF BeingWritten
<1>3. \A u \in Threads : u # t /\ pc[u] \in {"hash", "size", "total"} =>
        cache[req[u].handle].file # f
  BY <1>1, <1>2
<1>4. pc[t] # "idle" /\ (pc'[t] # "idle" => req'[t] = req[t])
  BY CalmPath
<1>5. req[t].handle \in Handles /\ cache'[req[t].handle].file = own
  BY <1>4, RequestType, FilesStay DEF CalmInv
<1>6. CASE own # f
  <2>1. ~BeingWritten(f)
    BY <1>3, <1>6 DEF BeingWritten
  <2>2. meta[f].total = Len(meta[f].body)
    BY <2>1 DEF CalmInv, PairsInv, HeaderExact
  <2>3. meta'[f].body = meta[f].body /\ meta'[f].total = meta[f].total
    <3>1. CASE AppendIndex(t)
      BY <1>6, <3>1, CalmIndex
    <3>2. CASE AppendHash(t)
      BY <1>6, <3>2, CalmHash
    <3>3. CASE ~AppendIndex(t) /\ ~AppendHash(t)
      <4>1. meta'[f].body = meta[f].body
        BY <3>3, CalmOther
      <4>2. CASE Replace(t)
        BY <4>2, CalmReplace
      <4>3. CASE WriteSize(t) \/ WriteTotal(t)
        BY <1>6, <4>3, HeaderMeta DEF CalmInv
      <4>4. CASE meta' = meta
        BY <4>4
      <4> QED
        BY <3>3, <4>1, <4>2, <4>3, <4>4 DEF Step, Acquire, Register, StoreBlock,
           WriteRefs, WriteData, StoreFails, Unlock, UnlockAgain, HashFails,
           IndexFails, ReadBlock, ReadHole, Load, LoadFails
    <3> QED
      BY <3>1, <3>2, <3>3
  <2> QED
    BY <2>2, <2>3
<1>7. CASE own = f
  <2>1. pc'[t] \notin {"hash", "size", "total"}
    BY <1>2, <1>4, <1>5, <1>7
  <2>2. ~AppendIndex(t) /\ ~AppendHash(t) /\ ~Replace(t) /\ ~WriteSize(t)
    BY <2>1 DEF AppendIndex, AppendHash, Replace, WriteSize, Goto, CalmInv, TypeOK
  <2>3. meta'[f].body = meta[f].body
    BY <2>2, CalmOther
  <2>4. CASE WriteTotal(t)
    <3>1. Critical(t) /\ pc[t] = "total"
      BY <2>4 DEF WriteTotal, At, Critical
    <3>2. /\ cache[req[t].handle].total = Len(meta[f].body)
          /\ cache[req[t].handle] \in HandleState
      BY <1>5, <1>7, <3>1, CalmFile DEF BodyOf, CalmInv, TypeOK
    <3>3. meta'[f] = [meta[f] EXCEPT !.total = cache[req[t].handle].total]
      BY <1>7, <2>4 DEF WriteTotal, CalmInv, TypeOK
    <3>4. meta'[f].total = cache[req[t].handle].total
      BY <3>3 DEF CalmInv, TypeOK, FileState
    <3> QED
      BY <2>3, <3>2, <3>4
  <2>5. CASE ~WriteTotal(t)
    <3>1. pc[t] \notin {"hash", "size", "total"}
      BY <2>1, <2>2, <2>5, CalmPath
    <3>2. meta' = meta
      BY <2>2, <2>5 DEF Step, Acquire, Register, StoreBlock, WriteRefs,
         WriteData, StoreFails, Unlock, UnlockAgain, HashFails, IndexFails,
         ReadBlock, ReadHole, Load, LoadFails
    <3>3. ~BeingWritten(f)
      BY <1>3, <3>1 DEF BeingWritten
    <3> QED
      BY <3>2, <3>3 DEF CalmInv, PairsInv, HeaderExact
  <2> QED
    BY <2>4, <2>5
<1> QED
  BY <1>6, <1>7

\* Every thread that writes has the pair of its index.
LEMMA CalmPairs ==
  ASSUME Calm, CalmInv, Fresh', NEW t \in Threads, Step(t),
         ~HashFails(t), ~IndexFails(t), NEW u \in Threads
  PROVE  PairOf(u)' /\ (pc'[u] # "idle" => ret'[u] = None)
<1>1. PairOf(u) /\ (pc[u] # "idle" => ret[u] = None)
  BY DEF CalmInv, PairsInv
<1>2. CASE u = t /\ AppendIndex(t)
  <2>1. /\ BodyOf(t) \in Seq(Pair) /\ WellFormed(BodyOf(t))
        /\ ~LastTorn(BodyOf(t)) /\ ~HasPair(BodyOf(t), req[t].index)
        /\ req[t].index \in Indexes /\ UNCHANGED <<req, ret>> /\ pc'[t] = "hash"
        /\ BodyOf(t)' = Append(BodyOf(t), TornPair(req[t].index))
        /\ pc[t] # "idle"
    BY <1>2, CalmIndex, CalmFile
  <2>2. BodyOf(t)'[Len(BodyOf(t)')].index = req[t].index
    BY <2>1, AppendTorn
  <2> QED
    BY <1>1, <1>2, <2>1, <2>2 DEF PairOf
<1>3. CASE u = t /\ AppendHash(t)
  <2>1. /\ BodyOf(t) \in Seq(Pair) /\ WellFormed(BodyOf(t))
        /\ LastTorn(BodyOf(t)) /\ req[t].block \in Blocks
        /\ BodyOf(t)' = Completed(BodyOf(t), req[t].block)
        /\ BodyOf(t)[Len(BodyOf(t))].index = req[t].index
        /\ UNCHANGED <<req, ret>> /\ pc'[t] = "size" /\ pc[t] # "idle"
    BY <1>3, CalmHash, CalmFile
  <2>2. HasPair(BodyOf(t)', req[t].index)
    BY <2>1, CompleteTorn
  <2> QED
    BY <1>1, <1>3, <2>1, <2>2 DEF PairOf
<1>4. CASE u = t /\ ~AppendIndex(t) /\ ~AppendHash(t)
  <2>1. pc'[t] # "idle" => req'[t] = req[t] /\ ret'[t] = ret[t] /\ pc[t] # "idle"
    BY CalmPath
  <2>2. req[t].handle \in Handles /\ cache[req[t].handle].file \in Files
    BY CalmPath, RequestType DEF CalmInv
  <2>3. pc'[t] # "idle" => BodyOf(t)' = BodyOf(t)
    BY <1>4, <2>1, <2>2, CalmOther, FilesStay DEF BodyOf, CalmInv
  <2>4. pc'[t] # "hash"
    BY <1>4, CalmPath
  <2>5. pc'[t] \in {"size", "total"} => HasPair(BodyOf(t), req[t].index)
    <3>1. CASE Replace(t)
      BY <3>1, CalmReplace
    <3>2. CASE WriteSize(t)
      BY <1>1, <1>4, <3>2 DEF WriteSize, At, PairOf
    <3> QED
      BY <1>4, <3>1, <3>2, CalmPath
  <2> QED
    BY <1>1, <1>4, <2>1, <2>3, <2>4, <2>5 DEF PairOf
<1>5. CASE u # t
  <2>1. pc'[u] = pc[u] /\ req'[u] = req[u]
    BY <1>5, OthersStay DEF CalmInv
  <2>2. ret'[u] = ret[u]
    BY <1>5 DEF CalmInv, TypeOK, Step, Acquire, Register, StoreBlock, WriteRefs,
       WriteData, StoreFails, Unlock, UnlockAgain, Replace, AppendIndex,
       AppendHash, HashFails, IndexFails, WriteSize, WriteTotal, ReadBlock,
       ReadHole, Load, LoadFails, Return
  <2>3. CASE pc[u] \in {"hash", "size", "total"}
    <3>1. ~Critical(t)
      BY <1>5, <2>3 DEF CalmInv, WholeInv, LockInv, Critical
    <3>2. meta' = meta
      BY <3>1, Writers
    <3>3. cache'[req[u].handle].file = cache[req[u].handle].file
      BY <2>3, FilesStay, RequestType DEF CalmInv
    <3>4. BodyOf(u)' = BodyOf(u)
      BY <2>1, <3>2, <3>3 DEF BodyOf
    <3> QED
      BY <1>1, <2>1, <2>2, <3>4 DEF PairOf
  <2>4. CASE pc[u] \notin {"hash", "size", "total"}
    BY <1>1, <2>1, <2>2, <2>4 DEF PairOf
  <2> QED
    BY <2>3, <2>4
<1> QED
  BY <1>2, <1>3, <1>4, <1>5

\* Handles that are opened and closed, and requests that arrive.
LEMMA CalmQuiet ==
  ASSUME Calm, CalmInv, [Next]_vars, ~Crash, \A t \in Threads : ~Step(t)
  PROVE  PairsInv'
<1>1. /\ UNCHANGED meta
      /\ \A u \in Threads : Critical(u) \/ Critical(u)' => Stays(u)
  BY QuietStep DEF CalmInv
<1>2. \A u \in Threads : {pc[u], pc'[u]} \cap {"hash", "size", "total"} # {} =>
        Stays(u)
  BY <1>1 DEF Critical
<1>3. ASSUME NEW u \in Threads PROVE PairOf(u)'
  <2>1. CASE pc'[u] \notin {"hash", "size", "total"}
    BY <2>1 DEF PairOf
  <2>2. CASE pc'[u] \in {"hash", "size", "total"}
    <3>1. pc'[u] = pc[u] /\ req'[u] = req[u] /\ BodyOf(u)' = BodyOf(u)
      BY <1>1, <1>2, <2>2 DEF Stays, BodyOf
    <3>2. PairOf(u)
      BY DEF CalmInv, PairsInv
    <3> QED
      BY <3>1, <3>2 DEF PairOf
  <2> QED
    BY <2>1, <2>2
<1>4. \A f \in Files : BeingWritten(f) <=> BeingWritten(f)'
  <2>1. \A u \in Threads :
          pc[u] \in {"hash", "size", "total"} \/ pc'[u] \in {"hash", "size", "total"}
            => /\ pc'[u] = pc[u]
               /\ cache'[req'[u].handle].file = cache[req[u].handle].file
    BY <1>2 DEF Stays
  <2> QED
    BY <2>1 DEF BeingWritten
<1>5. HeaderExact'
  BY <1>1, <1>4 DEF CalmInv, PairsInv, HeaderExact
<1>6. \A f \in Files : WellFormed(meta'[f].body)
  BY <1>1 DEF CalmInv, PairsInv
<1>7. \A u \in Threads : pc'[u] # "idle" => ret'[u] = None
  BY DEF CalmInv, TypeOK, PairsInv, Next, Call, Open, Release, vars
<1>8. ASSUME NEW h \in Handles, NEW f \in Files, Open(h, f)
      PROVE  OneHandle' /\ CopiesExact'
  <2>1. /\ \A g \in Handles : cache[g].file # f
        /\ \A g \in Handles : g # h => cache'[g] = cache[g]
        /\ cache'[h].file = f /\ cache'[h].total = meta[f].total
    BY <1>8 DEF Open, Calm, CalmInv, TypeOK
  <2>2. \A t \in Threads : pc[t] # "idle" => cache[req[t].handle].file # f
    BY <2>1, RequestType DEF CalmInv
  <2>3. ~BeingWritten(f) /\ ~LastTorn(meta[f].body)
    BY <2>2 DEF BeingWritten, CalmInv, TornInv
  <2>4. meta[f].total = CompletePairs(meta[f].body)
    BY <2>3 DEF CompletePairs, CalmInv, PairsInv, HeaderExact
  <2> QED
    BY <1>1, <2>1, <2>4 DEF OneHandle, CopiesExact, CalmInv, PairsInv
<1>9. ASSUME NEW h \in Handles, Release(h)
      PROVE  OneHandle' /\ CopiesExact'
  <2>1. /\ \A g \in Handles : g # h => cache'[g] = cache[g]
        /\ cache'[h].file = None
    BY <1>9 DEF Release, Closed, CalmInv, TypeOK
  <2> QED
    BY <1>1, <2>1 DEF OneHandle, CopiesExact, CalmInv, PairsInv
<1>10. ASSUME cache' = cache PROVE OneHandle' /\ CopiesExact'
  BY <1>1, <1>10 DEF OneHandle, CopiesExact, CalmInv, PairsInv
<1>11. OneHandle' /\ CopiesExact'
  BY <1>8, <1>9, <1>10 DEF Next, Call, vars
<1> QED
  BY <1>3, <1>5, <1>6, <1>7, <1>11 DEF PairsInv

\* A calm system starts so ...
LEMMA CalmInit == Init => CalmInv
<1>1. ASSUME Init PROVE WholeInv /\ TornInv /\ PartialInv /\ Fresh
  BY <1>1 DEF Init, WholeInv, TornInv, PartialInv, Fresh, LockInv, Critical,
     HasBlock, LastTorn, NewFile, Names
<1>2. ASSUME Init PROVE PairsInv
  BY <1>2, NoneAssumption DEF Init, PairsInv, OneHandle, CopiesExact,
     HeaderExact, WellFormed, PairOf, Closed, NewFile
<1> QED
  BY <1>1, <1>2, TypeInit DEF CalmInv

\* ... and stays so.
LEMMA CalmNext ==
  ASSUME Calm, CalmInv, [Next]_vars
  PROVE  CalmInv' /\ Fresh'
<1>1. Fresh'
  BY CalmFresh DEF CalmInv
<1>2. TypeOK' /\ PartialInv' /\ WholeInv' /\ TornInv'
  BY <1>1, TypeNext, PartialNext, WholeNext, TornNext DEF CalmInv, WholeInv
<1>3. ~Crash /\ \A t \in Threads : ~HashFails(t) /\ ~IndexFails(t)
  BY <1>1, FreshBefore DEF CalmInv
<1>4. ASSUME NEW t \in Threads, Step(t) PROVE PairsInv'
  BY <1>1, <1>3, <1>4, CalmBodies, CalmCopies, CalmHeader, CalmPairs DEF PairsInv
<1>5. PairsInv'
  BY <1>3, <1>4, CalmQuiet
<1> QED
  BY <1>1, <1>2, <1>5 DEF CalmInv

\* The header counts the pairs of every file that is not being written, when
\* each file is open through one handle and nothing goes wrong.
THEOREM HeaderExactHolds ==
  ASSUME Calm
  PROVE  Spec => []HeaderExact
<1>1. CalmInv /\ [Next]_vars => CalmInv'
  BY CalmNext
<1>2. CalmInv => HeaderExact
  BY DEF CalmInv, PairsInv
<1> QED
  BY <1>1, <1>2, CalmInit, PTL DEF Spec

\* In that case no index has two pairs, so that find_index, which looks no
\* further than the first, misses nothing.
THEOREM UniqueIndexHolds ==
  ASSUME Calm
  PROVE  Spec => []UniqueIndex
<1>1. CalmInv /\ [Next]_vars => CalmInv'
  BY CalmNext
<1>2. CalmInv => UniqueIndex
  BY DEF CalmInv, PairsInv, WellFormed, UniqueIndex
<1> QED
  BY <1>1, <1>2, CalmInit, PTL DEF Spec

\* What is at an index of a file is what its body holds there.
LEMMA ContentIs ==
  ASSUME NEW f, NEW i
  PROVE  Content(f, i) = Held(meta[f].body, i)
  BY DEF Content, Held

\* A file that is not in the middle of a pair has a block at an index that has
\* a pair, whose file is whole.
LEMMA HeldWhole ==
  ASSUME CalmInv, NEW f \in Files, ~LastTorn(meta[f].body), NEW i,
         HasPair(meta[f].body, i)
  PROVE  Content(f, i) \in Blocks /\ blocks[Content(f, i)] = Whole(Content(f, i))
<1> DEFINE body == meta[f].body
<1>1. body \in Seq(Pair) /\ WellFormed(body)
  BY DEF CalmInv, TypeOK, FileState, PairsInv
<1>2. PICK k \in DOMAIN body : body[k].index = i
  BY DEF HasPair
<1>3. body[k].hash \in Blocks
  BY <1>1 DEF WellFormed
<1>4. Content(f, i) = body[k].hash
  BY <1>1, <1>2, <1>3, HeldIs, ContentIs
<1>5. body[k].hash \in Names(body)
  BY <1>3 DEF Names
<1> QED
  BY <1>3, <1>4, <1>5 DEF CalmInv, WholeInv

\* The last step of a write leaves its block readable.
LEMMA StoredReads ==
  ASSUME Calm, CalmInv, [Next]_vars, NEW t \in Threads, WriteTotal(t),
         NEW f \in Files, NEW i \in Indexes,
         cache[req[t].handle].file = f, req[t].index = i
  PROVE  Readable(f, i)'
<1>1. pc[t] = "total" /\ Critical(t)
  BY DEF WriteTotal, At, Critical
<1>2. /\ ~LastTorn(BodyOf(t)) /\ BodyOf(t) = meta[f].body
      /\ cache[req[t].handle].total = Len(meta[f].body)
      /\ req[t].handle \in Handles
  BY <1>1, CalmFile DEF BodyOf
<1>3. HasPair(meta[f].body, i)
  BY <1>1, <1>2 DEF CalmInv, PairsInv, PairOf
<1>4. meta'[f].body = meta[f].body
  BY HeaderMeta DEF CalmInv
<1>5. meta'[f].total # 0
  <2>1. meta'[f] = [meta[f] EXCEPT !.total = cache[req[t].handle].total]
    BY DEF WriteTotal, CalmInv, TypeOK
  <2>2. meta'[f].total = cache[req[t].handle].total
    BY <2>1 DEF CalmInv, TypeOK, FileState
  <2>3. meta[f].body \in Seq(Pair) /\ Len(meta[f].body) # 0
    BY <1>3 DEF HasPair, CalmInv, TypeOK, FileState
  <2> QED
    BY <1>2, <2>2, <2>3
<1>6. Content(f, i) \in Blocks /\ blocks[Content(f, i)] = Whole(Content(f, i))
  BY <1>2, <1>3, HeldWhole
<1>7. Content(f, i)' = Content(f, i)
  BY <1>4 DEF Content
<1>8. blocks' = blocks
  BY DEF WriteTotal
<1> QED
  BY <1>5, <1>6, <1>7, <1>8 DEF Readable

\* A write is answered as stored by its last step.
LEMMA Answering ==
  ASSUME Calm, CalmInv, [Next]_vars, NEW f \in Files, NEW i \in Indexes,
         NEW b \in Blocks, Acknowledges(f, i, b)
  PROVE  \E t \in Threads :
           /\ WriteTotal(t) /\ cache[req[t].handle].file = f
           /\ req[t].index = i /\ req[t].block = b
<1>1. PICK t \in Threads :
        /\ pc[t] = "total" /\ ret'[t] = "stored"
        /\ cache[req[t].handle].file = f /\ req[t].index = i /\ req[t].block = b
  BY DEF Acknowledges
<1>2. ret[t] = None /\ None # "stored" /\ ret \in [Threads -> Answers]
  BY <1>1, NoneAssumption DEF CalmInv, PairsInv, TypeOK
<1>3. ~Crash /\ \A u \in Threads : ~HashFails(u) /\ ~IndexFails(u)
  BY CalmNext, FreshBefore DEF CalmInv
<1>4. ASSUME NEW u \in Threads, Step(u), u # t PROVE ret'[t] = ret[t]
  BY <1>2, <1>4 DEF Step, Acquire, Register, StoreBlock, WriteRefs,
     WriteData, StoreFails, Unlock, UnlockAgain, Replace, AppendIndex,
     AppendHash, HashFails, IndexFails, WriteSize, WriteTotal, ReadBlock,
     ReadHole, Load, LoadFails, Return
<1>5. (\A u \in Threads : ~Step(u)) => ret'[t] \in {ret[t], None}
  BY <1>2, <1>3 DEF Next, Call, Open, Release, vars
<1>6. Step(t)
  BY <1>1, <1>2, <1>4, <1>5
<1>7. WriteTotal(t)
  BY <1>1, <1>3, <1>6, CalmPath
<1> QED
  BY <1>1, <1>7

\* When register_block has returned 0, its index reads as a whole block: every
\* file is open through one handle, and nothing goes wrong.
THEOREM StoredMeansReadableHolds ==
  ASSUME Calm
  PROVE  Spec => StoredMeansReadable
<1>1. CalmInv /\ [Next]_vars => CalmInv'
  BY CalmNext
<1>2. ASSUME CalmInv, [Next]_vars, NEW f \in Files, NEW i \in Indexes,
             NEW b \in Blocks, Acknowledges(f, i, b)
      PROVE  Readable(f, i)'
  BY <1>2, Answering, StoredReads
<1>3. CalmInv /\ [Next]_vars =>
        [\A f \in Files, i \in Indexes, b \in Blocks :
           Acknowledges(f, i, b) => Readable(f, i)']_vars
  BY <1>2
<1> QED
  BY <1>1, <1>3, CalmInit, PTL DEF Spec, StoredMeansReadable

-----------------------------------------------------------------------------
(* The file layer implements a map in which the first write of an index     *)
(* stays.                                                                   *)

\* What the variables of WriteOnceFile stand for.
MapContent == [f \in Files |-> [i \in Indexes |-> Content(f, i)]]

RequestOf(t) ==
  IF pc[t] = "idle" THEN None
  ELSE [op |-> req[t].op, file |-> cache[req[t].handle].file,
        index |-> req[t].index, block |-> req[t].block]

MapCall == [t \in Threads |-> RequestOf(t)]

\* Steps in which no index gets a block.
LEMMA SameContent ==
  ASSUME \A f \in Files, i \in Indexes : Content(f, i)' = Content(f, i)
  PROVE  MapContent' = MapContent
  BY DEF MapContent

\* A body that stays holds what it held.
LEMMA SameBodies ==
  ASSUME \A f \in Files : meta'[f].body = meta[f].body
  PROVE  MapContent' = MapContent
<1>1. \A f \in Files, i \in Indexes : Content(f, i)' = Content(f, i)
  BY DEF Content
<1> QED
  BY <1>1, SameContent

\* The write of an index shows nothing.
LEMMA IndexContent ==
  ASSUME CalmInv, Fresh', NEW t \in Threads, AppendIndex(t)
  PROVE  MapContent' = MapContent
<1>1. ASSUME NEW f \in Files, NEW i \in Indexes PROVE Content(f, i)' = Content(f, i)
  <2>1. CASE f = cache[req[t].handle].file
    <3>1. /\ BodyOf(t) \in Seq(Pair) /\ WellFormed(BodyOf(t))
          /\ ~LastTorn(BodyOf(t)) /\ ~HasPair(BodyOf(t), req[t].index)
          /\ req[t].index \in Indexes
          /\ BodyOf(t)' = Append(BodyOf(t), TornPair(req[t].index))
          /\ UNCHANGED <<cache, req>>
      BY CalmIndex, CalmFile
    <3>2. Held(BodyOf(t)', i) = Held(BodyOf(t), i)
      BY <3>1, AppendTorn
    <3>3. Held(meta'[f].body, i) = Held(meta[f].body, i)
      BY <2>1, <3>1, <3>2 DEF BodyOf
    <3> QED
      BY <3>3 DEF Content, Held
  <2>2. CASE f # cache[req[t].handle].file
    BY <2>2, CalmIndex DEF Content
  <2> QED
    BY <2>1, <2>2
<1> QED
  BY <1>1, SameContent

\* The write of a hash fills a hole.
LEMMA HashContent ==
  ASSUME CalmInv, NEW t \in Threads, AppendHash(t)
  PROVE  LET f == cache[req[t].handle].file
             i == req[t].index
         IN  /\ MapContent[f][i] = "hole"
             /\ MapContent' = [MapContent EXCEPT ![f][i] = req[t].block]
<1> DEFINE own == cache[req[t].handle].file
           index == req[t].index
<1>1. /\ BodyOf(t) \in Seq(Pair) /\ WellFormed(BodyOf(t))
      /\ LastTorn(BodyOf(t)) /\ req[t].block \in Blocks
      /\ BodyOf(t)' = Completed(BodyOf(t), req[t].block)
      /\ BodyOf(t)[Len(BodyOf(t))].index = index
      /\ UNCHANGED req /\ pc[t] # "idle" /\ Critical(t)
      /\ req[t].handle \in Handles /\ own \in Files /\ index \in Indexes
  BY CalmHash, CalmFile
<1>2. /\ Held(BodyOf(t), index) = "hole"
      /\ Held(Completed(BodyOf(t), req[t].block), index) = req[t].block
      /\ \A j : j # index =>
           Held(Completed(BodyOf(t), req[t].block), j) = Held(BodyOf(t), j)
  BY <1>1, CompleteTorn
<1>3. BodyOf(t) = meta[own].body
  BY DEF BodyOf
<1>4. Step(t)
  BY DEF Step, Register
<1>5. meta'[own].body = Completed(meta[own].body, req[t].block)
  BY <1>1, <1>3, <1>4, FilesStay DEF BodyOf, CalmInv
<1>6. ASSUME NEW f \in Files, NEW i \in Indexes
      PROVE  Content(f, i)' = IF f = own /\ i = index THEN req[t].block
                              ELSE Content(f, i)
  <2>1. CASE f = own
    <3>1. Held(meta'[f].body, i) = IF i = index THEN req[t].block
                                   ELSE Held(meta[f].body, i)
      BY <1>2, <1>3, <1>5, <2>1
    <3> QED
      BY <2>1, <3>1 DEF Content, Held
  <2>2. CASE f # own
    <3>1. meta'[f].body = meta[f].body
      BY <2>2, CalmHash
    <3> QED
      BY <2>2, <3>1 DEF Content
  <2> QED
    BY <2>1, <2>2
<1>7. MapContent[own][index] = "hole"
  <2>1. Content(own, index) = "hole"
    BY <1>2, <1>3, ContentIs
  <2> QED
    BY <1>1, <2>1 DEF MapContent
<1> HIDE DEF own, index
<1>8. MapContent' = [MapContent EXCEPT ![own][index] = req[t].block]
  BY <1>1, <1>6 DEF MapContent
<1> QED
  BY <1>7, <1>8 DEF own, index

\* A thread that executes a request has a call, and its steps leave the calls of
\* the others alone.
LEMMA TheCall ==
  ASSUME TypeOK, NEW t \in Threads, pc[t] # "idle"
  PROVE  /\ MapCall[t] # None
         /\ MapCall[t] = [op |-> req[t].op, file |-> cache[req[t].handle].file,
                          index |-> req[t].index, block |-> req[t].block]
<1>1. /\ req[t] \in Requests /\ req[t].index \in Indexes
      /\ cache[req[t].handle].file \in Files
  BY RequestType
<1>2. req[t].op \in {"read", "write"} /\ req[t].block \in Blocks \cup {None}
  BY <1>1 DEF Requests
<1> QED
  BY <1>1, <1>2, NoneAssumption DEF MapCall, RequestOf

\* A thread that returns has no call any more.
LEMMA CallEnds ==
  ASSUME TypeOK, NEW t \in Threads, Step(t), pc'[t] = "idle"
  PROVE  MapCall' = [MapCall EXCEPT ![t] = None]
<1>1. ASSUME NEW u \in Threads, u # t PROVE RequestOf(u)' = RequestOf(u)
  <2>1. pc'[u] = pc[u] /\ req'[u] = req[u]
    BY <1>1, OthersStay
  <2>2. pc[u] # "idle" => cache'[req[u].handle].file = cache[req[u].handle].file
    BY RequestType, FilesStay
  <2> QED
    BY <2>1, <2>2 DEF RequestOf
<1>2. RequestOf(t)' = None
  BY DEF RequestOf
<1> QED
  BY <1>1, <1>2 DEF MapCall

\* A thread that goes on keeps its call.
LEMMA CallStays ==
  ASSUME CalmInv, NEW t \in Threads, Step(t), ~HashFails(t), ~IndexFails(t),
         pc'[t] # "idle"
  PROVE  MapCall' = MapCall
<1>1. ASSUME NEW u \in Threads PROVE RequestOf(u)' = RequestOf(u)
  <2>1. req'[u] = req[u] /\ (pc'[u] = "idle" <=> pc[u] = "idle")
    BY OthersStay, CalmPath DEF CalmInv
  <2>2. pc[u] # "idle" => cache'[req[u].handle].file = cache[req[u].handle].file
    BY RequestType, FilesStay DEF CalmInv
  <2> QED
    BY <2>1, <2>2 DEF RequestOf
<1> QED
  BY <1>1 DEF MapCall

\* A request arrives.
LEMMA BeginStep ==
  ASSUME TypeOK, NEW t \in Threads, Call(t)
  PROVE  Abstract!Begin(t)
<1>1. PICK r \in Requests : cache[r.handle].file # None /\ req' = [req EXCEPT ![t] = r]
  BY DEF Call
<1> DEFINE call == [op |-> r.op, file |-> cache[r.handle].file,
                    index |-> r.index, block |-> r.block]
<1>2. r.handle \in Handles /\ cache[r.handle].file \in Files
  BY <1>1 DEF Requests, TypeOK, HandleState
<1>3. call \in Abstract!Requests
  BY <1>2 DEF Requests, Abstract!Requests
<1>4. /\ pc[t] = "idle" /\ pc' = [pc EXCEPT ![t] = "wait"] /\ cache' = cache
      /\ meta' = meta /\ ret' = [ret EXCEPT ![t] = None]
  BY DEF Call
<1>5. RequestOf(t) = None /\ RequestOf(t)' = call
  BY <1>1, <1>4 DEF RequestOf, TypeOK
<1>6. \A u \in Threads : u # t => RequestOf(u)' = RequestOf(u)
  BY <1>1, <1>4 DEF RequestOf, TypeOK
<1> HIDE DEF call
<1>7. MapCall[t] = None /\ MapCall' = [MapCall EXCEPT ![t] = call]
  BY <1>5, <1>6 DEF MapCall
<1>8. MapContent' = MapContent
  BY <1>4, SameBodies
<1> QED
  BY <1>3, <1>4, <1>7, <1>8
     DEF Abstract!Begin, MapCall, RequestOf, MapContent

\* The hash is written: a write takes effect.
LEMMA WriteStep ==
  ASSUME CalmInv, NEW t \in Threads, AppendHash(t)
  PROVE  Abstract!Write(t)
<1>1. pc[t] = "hash" /\ pc'[t] = "size" /\ ret' = ret /\ Step(t)
  BY CalmHash DEF Step, Register
<1>2. MapCall' = MapCall
  <2>1. ASSUME NEW u \in Threads PROVE RequestOf(u)' = RequestOf(u)
    <3>1. req' = req /\ (pc'[u] = "idle" <=> pc[u] = "idle")
      BY <1>1, CalmHash, OthersStay DEF CalmInv
    <3>2. pc[u] # "idle" => cache'[req[u].handle].file = cache[req[u].handle].file
      BY <1>1, RequestType, FilesStay DEF CalmInv
    <3> QED
      BY <3>1, <3>2 DEF RequestOf
  <2> QED
    BY <2>1 DEF MapCall
<1>3. /\ MapCall[t] # None
      /\ MapCall[t] = [op |-> req[t].op, file |-> cache[req[t].handle].file,
                       index |-> req[t].index, block |-> req[t].block]
  BY <1>1, TheCall DEF CalmInv
<1>4. req[t].op = "write"
  BY <1>1 DEF CalmInv, TypeOK
<1>5. /\ MapCall[t].op = "write"
      /\ MapContent[MapCall[t].file][MapCall[t].index] = "hole"
      /\ MapContent' = [MapContent EXCEPT ![MapCall[t].file][MapCall[t].index] =
                          MapCall[t].block]
  <2>1. /\ MapCall[t].op = "write"
        /\ MapCall[t].file = cache[req[t].handle].file
        /\ MapCall[t].index = req[t].index /\ MapCall[t].block = req[t].block
    BY <1>3, <1>4
  <2>2. /\ MapContent[cache[req[t].handle].file][req[t].index] = "hole"
        /\ MapContent' = [MapContent EXCEPT
             ![cache[req[t].handle].file][req[t].index] = req[t].block]
    BY Zenon, HashContent
  <2> QED
    BY Zenon, <2>1, <2>2
<1> QED
  BY <1>1, <1>2, <1>3, <1>5
     DEF Abstract!Write, MapCall, RequestOf, MapContent

\* The total is written: a write is answered.
LEMMA FinishStep ==
  ASSUME CalmInv, NEW t \in Threads, WriteTotal(t)
  PROVE  Abstract!Finish(t)
<1> DEFINE own == cache[req[t].handle].file
           index == req[t].index
<1>1. /\ pc[t] = "total" /\ Critical(t) /\ Step(t)
      /\ ret' = [ret EXCEPT ![t] = "stored"] /\ pc'[t] = "idle"
  BY DEF WriteTotal, At, Critical, Step, Register, Return, Goto, CalmInv, TypeOK
<1>2. MapCall' = [MapCall EXCEPT ![t] = None]
  BY <1>1, CallEnds DEF CalmInv
<1>3. /\ MapCall[t] # None
      /\ MapCall[t] = [op |-> req[t].op, file |-> own,
                       index |-> index, block |-> req[t].block]
  BY <1>1, TheCall DEF CalmInv
<1>4. req[t].op = "write"
  BY <1>1 DEF CalmInv, TypeOK
<1>5. /\ own \in Files /\ index \in Indexes /\ ~LastTorn(meta[own].body)
      /\ HasPair(meta[own].body, index)
  BY <1>1, CalmFile DEF BodyOf, CalmInv, PairsInv, PairOf
<1>6. MapContent[own][index] # "hole"
  <2>1. Content(own, index) \in Blocks
    BY <1>5, HeldWhole
  <2> QED
    BY <1>5, <2>1, MarksAssumption DEF MapContent
<1>7. MapContent' = MapContent
  <2>1. \A f \in Files : meta'[f].body = meta[f].body
    BY HeaderMeta DEF CalmInv
  <2> QED
    BY <2>1, SameBodies
<1> HIDE DEF own, index
<1>8. MapCall[t].op = "write" /\ MapContent[MapCall[t].file][MapCall[t].index] # "hole"
  BY <1>3, <1>4, <1>6
<1> QED
  BY <1>1, <1>2, <1>3, <1>7, <1>8
     DEF Abstract!Finish, MapCall, RequestOf, MapContent

\* What a read returns is what its index holds.
LEMMA ReadReturns ==
  ASSUME CalmInv, Fresh', NEW t \in Threads, ReadBlock(t)
  PROVE  /\ pc[t] = "find" /\ Critical(t) /\ req[t].op = "read"
         /\ Return(t, MapContent[cache[req[t].handle].file][req[t].index])
         /\ meta' = meta
<1> DEFINE own == cache[req[t].handle].file
           index == req[t].index
<1>1. ~LoadFails(t)
  BY DEF LoadFails, Fault, Fresh, CalmInv, TypeOK
<1>2. /\ pc[t] = "find" /\ Critical(t) /\ req[t].op = "read" /\ meta' = meta
  BY <1>1 DEF ReadBlock, ReadHole, Load, At, Critical
<1>3. /\ own \in Files /\ index \in Indexes
      /\ BodyOf(t) \in Seq(Pair) /\ WellFormed(BodyOf(t)) /\ ~LastTorn(BodyOf(t))
      /\ BodyOf(t) = meta[own].body
  BY <1>2, CalmFile DEF BodyOf
<1>4. MapContent[own][index] = Content(own, index)
  BY <1>3 DEF MapContent
<1>5. CASE ReadHole(t)
  <2>1. Found(t, 0) /\ Return(t, "hole")
    BY <1>5 DEF ReadHole
  <2>2. ~HasPair(BodyOf(t), index)
    BY <1>2, <2>1, CalmSearch
  <2>3. Content(own, index) = "hole"
    <3>1. Held(BodyOf(t), index) = "hole"
      BY <1>3, <2>2, HeldIs
    <3>2. Content(own, index) = Held(meta[own].body, index)
      BY ContentIs
    <3> QED
      BY <1>3, <3>1, <3>2
  <2> QED
    BY <1>2, <1>4, <2>1, <2>3
<1>6. CASE Load(t)
  <2>1. PICK k \in Positions(t) :
          /\ Found(t, k) /\ k # 0
          /\ \E hash \in HashesRead(meta[own].body, k) : Return(t, Loaded(hash))
    BY <1>6 DEF Load
  <2>2. k \in DOMAIN BodyOf(t) /\ BodyOf(t)[k].index = index
    BY <1>2, <2>1, CalmSearch
  <2>3. k # Astray /\ ~AtEnd(meta[own].body, k)
    BY <1>3, <2>2, NotAtEnd
  <2>4. HashesRead(meta[own].body, k) = {meta[own].body[k].hash}
    BY <2>3 DEF HashesRead, HashAt
  <2>5. /\ Content(own, index) \in Blocks
        /\ blocks[Content(own, index)] = Whole(Content(own, index))
    BY <1>3, <2>2, HeldWhole DEF HasPair
  <2>6. meta[own].body[k].hash = Content(own, index)
    <3>1. meta[own].body[k].hash \in Blocks
      BY <1>3, <2>2 DEF WellFormed
    <3> QED
      BY <1>3, <2>2, <3>1, HeldIs, ContentIs
  <2>7. Loaded(Content(own, index)) = Content(own, index)
    <3>1. /\ Whole(Content(own, index)) \in Int
          /\ Whole(Content(own, index)) > RefSize /\ RefSize \in Int
      BY <2>5, SizeAssumption DEF Whole
    <3> QED
      BY <2>5, <3>1 DEF Loaded
  <2> QED
    BY <1>2, <1>4, <2>1, <2>4, <2>6, <2>7
<1> QED
  BY <1>1, <1>5, <1>6 DEF ReadBlock

\* A read takes place.
LEMMA ReadStep ==
  ASSUME CalmInv, Fresh', NEW t \in Threads, ReadBlock(t)
  PROVE  Abstract!Read(t)
<1> DEFINE held == MapContent[cache[req[t].handle].file][req[t].index]
<1>1. /\ pc[t] = "find" /\ req[t].op = "read" /\ Return(t, held) /\ meta' = meta
  BY ReadReturns
<1>2. Step(t)
  BY DEF Step
<1>3. pc'[t] = "idle" /\ ret' = [ret EXCEPT ![t] = held]
  BY <1>1 DEF Return, Goto, CalmInv, TypeOK
<1>4. MapCall' = [MapCall EXCEPT ![t] = None]
  BY <1>2, <1>3, CallEnds DEF CalmInv
<1>5. /\ MapCall[t] # None
      /\ MapCall[t] = [op |-> req[t].op, file |-> cache[req[t].handle].file,
                       index |-> req[t].index, block |-> req[t].block]
  BY <1>1, TheCall DEF CalmInv
<1>6. MapContent' = MapContent
  BY <1>1, SameBodies
<1>7. /\ MapCall[t].op = "read"
      /\ ret' = [ret EXCEPT ![t] = MapContent[MapCall[t].file][MapCall[t].index]]
  <2>1. /\ MapCall[t].op = "read"
        /\ MapCall[t].file = cache[req[t].handle].file
        /\ MapCall[t].index = req[t].index
    BY <1>1, <1>5
  <2>2. ret' = [ret EXCEPT ![t] =
                 MapContent[cache[req[t].handle].file][req[t].index]]
    BY <1>3
  <2> QED
    BY Zenon, <2>1, <2>2
<1> QED
  BY <1>4, <1>5, <1>6, <1>7
     DEF Abstract!Read, MapCall, RequestOf, MapContent

\* Nothing happens that the map shows.
LEMMA Stutters ==
  ASSUME MapContent' = MapContent, MapCall' = MapCall, ret' = ret
  PROVE  UNCHANGED Abstract!vars
  BY DEF Abstract!vars, MapContent, MapCall, RequestOf

\* Every other step of a thread is inside.
LEMMA InsideStep ==
  ASSUME Calm, CalmInv, Fresh', [Next]_vars, NEW t \in Threads, Step(t),
         ~AppendHash(t), ~WriteTotal(t), ~ReadBlock(t)
  PROVE  UNCHANGED Abstract!vars
<1>1. ~StoreFails(t) /\ ~HashFails(t) /\ ~IndexFails(t)
  BY FreshBefore DEF CalmInv
<1>2. pc'[t] # "idle"
  BY <1>1 DEF CalmInv, WholeInv, LockInv, TypeOK, Step, Acquire, Register,
     StoreBlock, WriteRefs, WriteData, Unlock, UnlockAgain, Replace,
     AppendIndex, WriteSize, At, Goto
<1>3. ret' = ret
  BY <1>1, <1>2 DEF Step, Acquire, Register, StoreBlock, WriteRefs, WriteData,
     Unlock, UnlockAgain, Replace, AppendIndex, WriteSize, Goto, CalmInv, TypeOK
<1>4. MapCall' = MapCall
  BY <1>1, <1>2, CallStays
<1>5. MapContent' = MapContent
  BY IndexContent, CalmOther, SameBodies
<1> QED
  BY <1>3, <1>4, <1>5, Stutters

\* So is the opening and closing of handles.
LEMMA HandleStep ==
  ASSUME CalmInv, [Next]_vars, ~Crash, \A t \in Threads : ~Step(t) /\ ~Call(t)
  PROVE  UNCHANGED Abstract!vars
<1>1. UNCHANGED <<meta, pc, req, ret>>
  BY DEF Next, Open, Release, vars
<1>2. \A u \in Threads : pc[u] # "idle" =>
        cache'[req[u].handle].file = cache[req[u].handle].file
  <2>1. \A u \in Threads : pc[u] # "idle" =>
          req[u].handle \in Handles /\ cache[req[u].handle].file \in Files
    BY RequestType DEF CalmInv
  <2> QED
    BY <2>1, NoneAssumption DEF Next, Open, Release, vars, CalmInv, TypeOK
<1>3. MapCall' = MapCall
  BY <1>1, <1>2 DEF MapCall, RequestOf
<1>4. MapContent' = MapContent
  BY <1>1, SameBodies
<1> QED
  BY <1>1, <1>3, <1>4, Stutters

\* Every step is a step of the map, or shows nothing of it.
LEMMA MapNext ==
  ASSUME Calm, CalmInv, [Next]_vars
  PROVE  [Abstract!Next]_(Abstract!vars)
<1>1. Fresh' /\ ~Crash
  BY CalmNext, FreshBefore DEF CalmInv
<1>2. ASSUME NEW t \in Threads, Call(t) PROVE Abstract!Next
  BY <1>2, BeginStep DEF CalmInv, Abstract!Next
<1>3. ASSUME NEW t \in Threads, Step(t) PROVE [Abstract!Next]_(Abstract!vars)
  <2>1. CASE AppendHash(t)
    BY <2>1, WriteStep DEF Abstract!Next
  <2>2. CASE WriteTotal(t)
    BY <2>2, FinishStep DEF Abstract!Next
  <2>3. CASE ReadBlock(t)
    BY <1>1, <2>3, ReadStep DEF Abstract!Next
  <2> QED
    BY <1>1, <1>3, <2>1, <2>2, <2>3, InsideStep
<1> QED
  BY <1>1, <1>2, <1>3, HandleStep

\* A store in which nothing is written is an empty map.
LEMMA MapInit == Init => Abstract!Init
<1> SUFFICES ASSUME Init PROVE Abstract!Init
  OBVIOUS
<1>1. MapContent = [f \in Files |-> [i \in Indexes |-> "hole"]]
  BY DEF MapContent, Init, Content, Hits, NewFile
<1> QED
  BY <1>1 DEF Abstract!Init, MapContent, Init

\* The requests of cfs_file_register_block and cfs_file_read_block behave as
\* those of a map that keeps the first block written at each index, for every
\* number of threads, handles, files, indexes and blocks: every file is open
\* through one handle, and nothing goes wrong.
THEOREM ImplementsWriteOnceHolds ==
  ASSUME Calm
  PROVE  Spec => ImplementsWriteOnce
<1>1. CalmInv /\ [Next]_vars => CalmInv'
  BY CalmNext
<1>2. CalmInv /\ [Next]_vars => [Abstract!Next]_(Abstract!vars)
  BY MapNext
<1> QED
  BY <1>1, <1>2, MapInit, CalmInit, PTL
     DEF Spec, ImplementsWriteOnce, Abstract!Spec

-----------------------------------------------------------------------------
(* What is stored is what was written, as long as no write finds another    *)
(* block at its index.                                                      *)

\* What is in the file at the index of thread t.
ContentAt(t) == Content(cache[req[t].handle].file, req[t].index)

\* A write that has stored its block finds nothing at its index, or that block.
NoOverwrite ==
  \A t \in Threads : pc[t] = "find" /\ req[t].op = "write" =>
    ContentAt(t) \in {"hole", req[t].block}

\* Past its pair, a write has its block in the file.
WrittenInv ==
  \A t \in Threads : pc[t] \in {"size", "total"} => ContentAt(t) = req[t].block

\* The content of an index is as it was if the body of its file is.
LEMMA SameContentAt ==
  ASSUME NEW t \in Threads, Stays(t), NEW f, f = cache[req[t].handle].file,
         meta'[f].body = meta[f].body
  PROVE  ContentAt(t)' = ContentAt(t)
  BY DEF Stays, ContentAt, Content

\* A step of the writing thread itself.
LEMMA WrittenSelf ==
  ASSUME Calm, CalmInv, Fresh', [Next]_vars, NoOverwrite, WrittenInv,
         NEW t \in Threads, Step(t), pc'[t] \in {"size", "total"}
  PROVE  ContentAt(t)' = req'[t].block
<1> DEFINE f == cache[req[t].handle].file
<1>1. ~HashFails(t) /\ ~IndexFails(t)
  BY FreshBefore DEF CalmInv
<1>2. req'[t] = req[t] /\ pc[t] # "idle"
  BY <1>1, CalmPath
<1>3. /\ f \in Files /\ req[t].index \in Indexes /\ req[t].handle \in Handles
      /\ cache'[req[t].handle].file = f
  BY <1>2, RequestType, FilesStay DEF CalmInv
<1>4. CASE AppendHash(t)
  <2>1. MapContent' = [MapContent EXCEPT ![f][req[t].index] = req[t].block]
    BY <1>4, HashContent
  <2>2. MapContent'[f][req[t].index] = req[t].block
    BY <1>3, <2>1 DEF MapContent
  <2>3. \A g \in Files, i \in Indexes : MapContent'[g][i] = Content(g, i)'
    BY DEF MapContent
  <2> QED
    BY <1>2, <1>3, <2>2, <2>3 DEF ContentAt
<1>5. CASE Replace(t)
  <2>1. /\ meta' = meta /\ HasPair(meta[f].body, req[t].index)
        /\ pc[t] = "find" /\ req[t].op = "write" /\ Critical(t)
    BY <1>5, CalmReplace DEF Replace, At, Critical, BodyOf
  <2>2. ContentAt(t) # "hole"
    <3>1. ~LastTorn(meta[f].body)
      BY <2>1, CalmFile DEF BodyOf
    <3> QED
      BY <1>3, <2>1, <3>1, HeldWhole, MarksAssumption DEF ContentAt
  <2>3. ContentAt(t) = req[t].block
    BY <2>1, <2>2 DEF NoOverwrite
  <2> QED
    BY <1>2, <1>3, <2>1, <2>3 DEF ContentAt, Content
<1>6. CASE WriteSize(t)
  <2>1. ContentAt(t) = req[t].block
    BY <1>6 DEF WriteSize, At, WrittenInv
  <2>2. meta'[f].body = meta[f].body
    BY <1>3, <1>6, HeaderMeta DEF CalmInv
  <2> QED
    BY <1>2, <1>3, <2>1, <2>2 DEF ContentAt, Content
<1> QED
  BY <1>1, <1>4, <1>5, <1>6, CalmPath

\* Every step keeps what is written.
LEMMA WrittenNext ==
  ASSUME Calm, CalmInv, [Next]_vars, NoOverwrite, WrittenInv
  PROVE  WrittenInv'
<1>1. Fresh' /\ ~Crash
  BY CalmNext, FreshBefore DEF CalmInv
<1>2. SUFFICES ASSUME NEW t \in Threads, pc'[t] \in {"size", "total"}
               PROVE  ContentAt(t)' = req'[t].block
  BY DEF WrittenInv
<1>3. CASE Step(t)
  BY <1>1, <1>2, <1>3, WrittenSelf
<1>4. ASSUME NEW u \in Threads, u # t, Step(u) PROVE FALSE
  <2>1. pc[t] = pc'[t] /\ Critical(t)
    BY <1>2, <1>4, OthersStay DEF CalmInv, Critical
  <2>2. mutex /\ ~Critical(u) /\ pc[u] # "fail2"
    BY <1>4, <2>1 DEF CalmInv, WholeInv, LockInv
  <2> QED
    BY <1>4, <2>2 DEF Step, Acquire, Register, StoreBlock, WriteRefs, WriteData,
       StoreFails, Unlock, UnlockAgain, Replace, AppendIndex, AppendHash,
       HashFails, IndexFails, WriteSize, WriteTotal, ReadBlock, ReadHole, Load,
       LoadFails, At, Critical
<1>5. CASE \A u \in Threads : ~Step(u)
  <2>1. UNCHANGED meta /\ Stays(t)
    BY <1>1, <1>2, <1>5, QuietStep DEF CalmInv, Critical
  <2>2. ContentAt(t) = req[t].block
    BY <1>2, <2>1 DEF Stays, WrittenInv
  <2> QED
    BY <2>1, <2>2, SameContentAt DEF Stays
<1> QED
  BY <1>3, <1>4, <1>5

\* When register_block has returned 0, its block is the one at the index, unless
\* the write found another block there: a second write of an index, whose block
\* is not the first one's, is the only way in which StoredMeansWritten fails in
\* a calm system.
THEOREM StoredIsWritten ==
  ASSUME Calm
  PROVE  Spec /\ []NoOverwrite => StoredMeansWritten
<1>1. CalmInv /\ [Next]_vars => CalmInv'
  BY CalmNext
<1>2. Init => WrittenInv
  BY DEF Init, WrittenInv
<1>3. CalmInv /\ NoOverwrite /\ WrittenInv /\ [Next]_vars => WrittenInv'
  BY WrittenNext
<1>4. ASSUME CalmInv, WrittenInv, [Next]_vars, NEW f \in Files,
             NEW i \in Indexes, NEW b \in Blocks, Acknowledges(f, i, b)
      PROVE  Content(f, i)' = b
  <2>1. PICK t \in Threads : /\ WriteTotal(t) /\ cache[req[t].handle].file = f
                             /\ req[t].index = i /\ req[t].block = b
    BY <1>4, Answering
  <2>2. Content(f, i) = b
    BY <1>4, <2>1 DEF WrittenInv, WriteTotal, At, ContentAt
  <2>3. meta'[f].body = meta[f].body
    BY <1>4, <2>1, HeaderMeta DEF CalmInv
  <2> QED
    BY <2>2, <2>3 DEF Content
<1>5. CalmInv /\ WrittenInv /\ [Next]_vars =>
        [\A f \in Files, i \in Indexes, b \in Blocks :
           Acknowledges(f, i, b) => Content(f, i)' = b]_vars
  BY <1>4
<1> QED
  BY <1>1, <1>2, <1>3, <1>5, CalmInit, PTL DEF Spec, StoredMeansWritten

=============================================================================
