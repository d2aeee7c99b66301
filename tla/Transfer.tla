------------------------------ MODULE Transfer ------------------------------
(***************************************************************************)
(* bb_read and bb_write of bbfs.c: a request is cut into blocks, and each  *)
(* block is one call, or two, of the file layer.  The file layer is taken  *)
(* as what module WriteOnceFile promises and CfsFile implements: a block   *)
(* that is registered at an index stays there.  The lock is free between   *)
(* the calls, so the requests of other threads come in between.            *)
(*                                                                         *)
(* One open file.  A byte is Zero, or the byte that a write means for an   *)
(* offset of the file.  What the kernel's buffer of a read holds before    *)
(* bb_read fills it is Garbage.                                            *)
(***************************************************************************)
EXTENDS Integers, Sequences, FiniteSetsExt

CONSTANTS
  Threads,    \* FUSE worker threads
  BlockSize,  \* BLOCK_SIZE
  NumBlocks,  \* bound on the blocks of the file
  Spanning,   \* may a write start within a block and end in another?
  MaxFaults,  \* bound on failing calls of the file layer
  MaxWrites,  \* bound on the writes of a behaviour
  None        \* no request

ASSUME SizeAssumption == BlockSize \in Nat \ {0} /\ NumBlocks \in Nat \ {0}
ASSUME SpanningAssumption == Spanning \in BOOLEAN
ASSUME BoundsAssumption == MaxFaults \in Nat /\ MaxWrites \in Nat

VARIABLES
  content,  \* content[i]: the bytes of the block at index i; <<>> is a hole
  pc,       \* pc[t]: where thread t is
  req,      \* req[t]: its request, or None
  current,  \* current[t]: current_offset
  index,    \* index[t]: buffer_index
  block,    \* block[t]: the bytes of blk_buf that bb_write read
  buf,      \* buf[t]: the kernel's buffer of a read
  start,    \* start[t]: content when the request of t began
  writes, faults  \* how many there have been

locals == <<pc, req, current, index, block, buf, start>>
vars == <<content, locals, writes, faults>>

Zero == [write |-> 0, offset |-> 0]
Garbage == [write |-> -1, offset |-> 0]
Indexes == 0..(NumBlocks - 1)
Offsets == 0..(BlockSize * NumBlocks - 1)
Bytes == {Zero, Garbage} \cup [write : 1..MaxWrites, offset : Offsets]
MinOf(x, y) == IF x < y THEN x ELSE y
MaxOf(x, y) == IF x > y THEN x ELSE y

\* The kernel writes within the file's bound: any part of a block, or several
\* blocks from the start of one; from within one only if Spanning.
WriteRequests ==
  {r \in [op : {"write"}, id : {writes + 1}, offset : Offsets,
          size : 1..(BlockSize * NumBlocks)] :
     /\ r.offset + r.size <= BlockSize * NumBlocks
     /\ \/ Spanning
        \/ r.offset % BlockSize = 0
        \/ (r.offset % BlockSize) + r.size <= BlockSize}

\* It reads whole pages, into the page cache.
ReadRequests ==
  {r \in [op : {"read"}, id : {0}, offset : {BlockSize * i : i \in Indexes},
          size : {BlockSize * n : n \in 1..NumBlocks}] :
     r.offset + r.size <= BlockSize * NumBlocks}

Init ==
  /\ content = [i \in Indexes |-> <<>>]
  /\ pc = [t \in Threads |-> "idle"]
  /\ req = [t \in Threads |-> None]
  /\ current = [t \in Threads |-> 0]
  /\ index = [t \in Threads |-> 0]
  /\ block = [t \in Threads |-> <<>>]
  /\ buf = [t \in Threads |-> <<>>]
  /\ start = [t \in Threads |-> None]
  /\ writes = 0 /\ faults = 0

Begin(t) ==
  /\ pc[t] = "idle"
  /\ \/ /\ writes < MaxWrites
        /\ \E r \in WriteRequests :
             /\ req' = [req EXCEPT ![t] = r]
             /\ current' = [current EXCEPT ![t] = r.offset]
        /\ writes' = writes + 1
        /\ UNCHANGED buf
     \/ /\ \E r \in ReadRequests :
             /\ req' = [req EXCEPT ![t] = r]
             /\ current' = [current EXCEPT ![t] = r.offset]
             /\ buf' = [buf EXCEPT ![t] = [k \in 1..r.size |-> Garbage]]
        /\ UNCHANGED writes
  /\ pc' = [pc EXCEPT ![t] = "loop"]
  /\ index' = [index EXCEPT ![t] = 0]
  /\ start' = [start EXCEPT ![t] = content]
  /\ UNCHANGED <<content, block, faults>>

\* The condition of both loops.
More(t) == pc[t] = "loop" /\ current[t] < req[t].offset + req[t].size

Rem(t) == current[t] % BlockSize
BlockIndex(t) == current[t] \div BlockSize

\* The end of the part of this block that the request asks for.
Right(t) ==
  MinOf(BlockSize, Rem(t) + req[t].offset + req[t].size - current[t])

-----------------------------------------------------------------------------
(* bb_write.                                                                *)

Fault == faults < MaxFaults /\ faults' = faults + 1

\* The block buffer is cleared; in the middle of a block the old one is read
\* into it, if it is there and can be read.
WriteRead(t) ==
  /\ More(t) /\ req[t].op = "write"
  /\ \/ /\ block' = [block EXCEPT ![t] =
             IF Rem(t) # 0 THEN content[BlockIndex(t)] ELSE <<>>]
        /\ UNCHANGED faults
     \/ /\ Rem(t) # 0 /\ content[BlockIndex(t)] # <<>> /\ Fault
        /\ block' = [block EXCEPT ![t] = <<>>]
  /\ pc' = [pc EXCEPT ![t] = "register"]
  /\ UNCHANGED <<content, req, current, index, buf, start, writes>>

\* Mutants: a block goes on to the end of the request; each is filled from the
\* start of the buffer.
NewBlockUnbounded(t) ==
  [p \in 1..(Rem(t) + req[t].offset + req[t].size - current[t]) |->
     [write |-> req[t].id, offset |-> req[t].offset]]

NewBlockFromStart(t) ==
  [p \in 1..Right(t) |->
     IF p > Rem(t)
       THEN [write |-> req[t].id, offset |-> req[t].offset + (p - Rem(t)) - 1]
     ELSE IF p <= Len(block[t]) THEN block[t][p]
     ELSE Zero]

\* The block to register: the old bytes or zeroes before left, the buffer's
\* from left on.
NewBlock(t) ==
  [p \in 1..Right(t) |->
     IF p > Rem(t)
       THEN [write |-> req[t].id,
             offset |-> req[t].offset + index[t] + (p - Rem(t)) - 1]
     ELSE IF p <= Len(block[t]) THEN block[t][p]
     ELSE Zero]

\* The first block that is registered at an index stays there.
Registered(t) ==
  IF content[BlockIndex(t)] = <<>> THEN NewBlock(t) ELSE content[BlockIndex(t)]

\* Mutants: the buffer advances by whole blocks; the loop does not go on from an
\* index that is taken.
AdvanceWhole(t) == [current |-> Right(t), index |-> BlockSize - Rem(t)]

AdvanceNew(t) ==
  LET new == IF content[BlockIndex(t)] = <<>> THEN 1 ELSE 0
  IN  [current |-> new * Right(t), index |-> new * (Right(t) - Rem(t))]

Advance(t) == [current |-> Right(t), index |-> Right(t) - Rem(t)]

\* It is registered, or fails to: the result is not looked at.
WriteRegister(t) ==
  /\ pc[t] = "register"
  /\ \/ /\ content' = [content EXCEPT ![BlockIndex(t)] = Registered(t)]
        /\ UNCHANGED faults
     \/ Fault /\ UNCHANGED content
  /\ current' = [current EXCEPT ![t] = @ + Advance(t).current]
  /\ index' = [index EXCEPT ![t] = @ + Advance(t).index]
  /\ pc' = [pc EXCEPT ![t] = "loop"]
  /\ UNCHANGED <<req, block, buf, start, writes>>

-----------------------------------------------------------------------------
(* bb_read.                                                                 *)

\* The kernel's buffer with n bytes of data copied to it from left on.
Copied(t, data, left, n) ==
  [k \in DOMAIN buf[t] |->
     IF k \in (index[t] + 1)..(index[t] + n) THEN data[left + k - index[t]]
     ELSE buf[t][k]]

\* The bytes of blk_buf: those of the block, then zeroes.
Padded(bytes) ==
  [p \in 1..BlockSize |-> IF p <= Len(bytes) THEN bytes[p] ELSE Zero]

\* Mutant: a block that is not full is taken for a hole.
CopyFullBlock(t, bytes) ==
  Copied(t, Padded(IF Len(bytes) = BlockSize THEN bytes ELSE <<>>), 0, BlockSize)

\* A block of which size bytes were read is copied, from the offset on; the
\* code takes the offset off twice.
CopyBlock(t, bytes) ==
  LET left == Rem(t)
      right == MaxOf(Len(bytes) - left, 0)
  IN  Copied(t, Padded(bytes), left, MaxOf(right - left, 0))

\* Mutant: every hole is filled at the start of the buffer.
FillHoleAtStart(t) ==
  [k \in DOMAIN buf[t] |-> IF k <= Right(t) - Rem(t) THEN Zero ELSE buf[t][k]]

\* A hole is filled with zeroes.
FillHole(t) == Copied(t, Padded(<<>>), Rem(t), Right(t) - Rem(t))

\* A block that is there and cannot be read counts as one that was read, and
\* has no bytes.
ReadChunk(t) ==
  /\ More(t) /\ req[t].op = "read"
  /\ LET bytes == content[BlockIndex(t)] IN
       \/ /\ buf' = [buf EXCEPT ![t] =
               IF bytes = <<>> THEN FillHole(t) ELSE CopyBlock(t, bytes)]
          /\ UNCHANGED faults
       \/ /\ bytes # <<>> /\ Fault
          /\ buf' = [buf EXCEPT ![t] = CopyBlock(t, <<>>)]
  /\ current' = [current EXCEPT ![t] = @ + BlockSize - Rem(t)]
  /\ index' = [index EXCEPT ![t] = @ + BlockSize - Rem(t)]
  /\ UNCHANGED <<content, pc, req, block, start, writes>>

\* A write returns its size, a read how far it has come.
Return(t) ==
  /\ pc[t] = "loop" /\ ~More(t)
  /\ pc' = [pc EXCEPT ![t] = "idle"]
  /\ req' = [req EXCEPT ![t] = None]
  /\ current' = [current EXCEPT ![t] = 0]
  /\ index' = [index EXCEPT ![t] = 0]
  /\ block' = [block EXCEPT ![t] = <<>>]
  /\ buf' = [buf EXCEPT ![t] = <<>>]
  /\ start' = [start EXCEPT ![t] = None]
  /\ UNCHANGED <<content, writes, faults>>

Step(t) == WriteRead(t) \/ WriteRegister(t) \/ ReadChunk(t) \/ Return(t)

Next == \E t \in Threads : Begin(t) \/ Step(t)

Spec == Init /\ [][Next]_vars

\* The kernel runs every thread; between two requests it may idle.
FairSpec == Spec /\ \A t \in Threads : WF_vars(Step(t))

-----------------------------------------------------------------------------
(* Properties.                                                              *)

BlockType == UNION {[1..n -> Bytes] : n \in 0..BlockSize}
BufferType == UNION {[1..n -> Bytes] : n \in 0..(BlockSize * NumBlocks)}

TypeOK ==
  /\ \A i \in Indexes : content[i] \in BlockType
  /\ pc \in [Threads -> {"idle", "loop", "register"}]
  /\ \A t \in Threads : block[t] \in BlockType /\ buf[t] \in BufferType
  /\ current \in [Threads -> Nat] /\ index \in [Threads -> Nat]
  /\ writes \in 0..MaxWrites /\ faults \in 0..MaxFaults

Means(byte, offset) ==
  byte \in {Zero, Garbage} \/ byte.offset = offset

\* No byte is stored at another offset than the one it was written for, and
\* none is read at another: the offset in the file and that in the buffer go
\* on together, over blocks, holes, failures, and blocks of other writes.
BytesInPlace ==
  /\ \A i \in Indexes : \A p \in DOMAIN content[i] :
       /\ content[i][p] # Garbage
       /\ Means(content[i][p], BlockSize * i + p - 1)
  /\ \A t \in Threads : \A k \in DOMAIN buf[t] :
       Means(buf[t][k], req[t].offset + k - 1)

\* A loop ends with the whole buffer gone through, and what bb_read returns then
\* is the size of the request; bb_write returns that anyway.
LoopExact ==
  \A t \in Threads : pc[t] = "loop" /\ ~More(t) =>
    /\ index[t] = req[t].size
    /\ req[t].op = "read" => current[t] = req[t].offset + req[t].size

\* While no call fails, a read returns every byte that was in the file when it
\* began.
ReadSeesStart ==
  \A t \in Threads :
    (faults = 0 /\ pc[t] = "loop" /\ ~More(t) /\ req[t].op = "read") =>
      \A k \in DOMAIN buf[t] :
        LET offset == req[t].offset + k - 1
            bytes == start[t][offset \div BlockSize]
            p == (offset % BlockSize) + 1
        IN  p \in DOMAIN bytes => buf[t][k] = bytes[p]

\* There is more of the file behind the offset, and was when the request began.
BeforeEnd(t, offset) ==
  \E i \in Indexes :
    start[t][i] # <<>> /\ offset < BlockSize * i + Len(start[t][i])

\* Before the end of the file a read leaves no byte of the kernel's buffer as it
\* was: it returns "exactly the number of bytes requested except on EOF or error,
\* otherwise the rest of the data will be substituted with zeroes".
ReadFills ==
  \A t \in Threads :
    (faults = 0 /\ pc[t] = "loop" /\ ~More(t) /\ req[t].op = "read") =>
      \A k \in DOMAIN buf[t] :
        BeforeEnd(t, req[t].offset + k - 1) => buf[t][k] # Garbage

\* All that a read leaves as it was, while no call fails, is past the end of a
\* block that is there and is not full: the holes that it meets and the blocks,
\* which other threads go on writing, leave no gap between them.
ReadLeavesEnds ==
  \A t \in Threads :
    (faults = 0 /\ pc[t] = "loop" /\ ~More(t) /\ req[t].op = "read") =>
      \A k \in DOMAIN buf[t] : buf[t][k] = Garbage =>
        LET offset == req[t].offset + k - 1
            bytes == content[offset \div BlockSize]
        IN  bytes # <<>> /\ Len(bytes) <= offset % BlockSize

\* Every request is answered.
RequestEnds == \A t \in Threads : pc[t] = "loop" ~> pc[t] = "idle"

=============================================================================
