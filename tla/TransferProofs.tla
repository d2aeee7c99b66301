--------------------------- MODULE TransferProofs ---------------------------
(***************************************************************************)
(* Theorems about module Transfer, for every size and number of blocks,    *)
(* every number of threads and every bound.                                *)
(***************************************************************************)
EXTENDS Transfer, TLAPS

(* Offsets and blocks.                                                      *)

\* An offset is that of its block and the rest.
LEMMA DivMod ==
  ASSUME NEW a \in Nat
  PROVE  /\ a \div BlockSize \in Nat /\ a % BlockSize \in 0..(BlockSize - 1)
         /\ BlockSize * (a \div BlockSize) \in Nat
         /\ a = BlockSize * (a \div BlockSize) + (a % BlockSize)
<1> DEFINE b == BlockSize
<1>1. b \in Nat \ {0}
  BY SizeAssumption
<1> HIDE DEF b
<1>2. a \div b \in Nat /\ a % b \in 0..(b - 1)
  BY <1>1
<1>3. b * (a \div b) \in Nat
  BY <1>1, <1>2
<1>4. a = b * (a \div b) + (a % b)
  BY <1>1
<1> QED
  BY <1>2, <1>3, <1>4 DEF b

\* Every offset of a block has that block, and its place there.
LEMMA DivModIs ==
  ASSUME NEW i \in Nat, NEW r \in 0..(BlockSize - 1)
  PROVE  /\ (BlockSize * i + r) \div BlockSize = i
         /\ (BlockSize * i + r) % BlockSize = r
<1> DEFINE b == BlockSize
           a == b * i + r
<1>1. b \in Nat \ {0} /\ r \in 0..(b - 1)
  BY SizeAssumption
<1> HIDE DEF b
<1>2. a \in Nat
  BY <1>1
<1>3. \A x \in Nat : x = b * i + r => x \div b = i /\ x % b = r
  BY <1>1
<1>4. a \div b = i /\ a % b = r
  BY <1>2, <1>3
<1> QED
  BY <1>4 DEF a, b

\* The offsets of the blocks of the file.
LEMMA InFile ==
  ASSUME NEW a \in Nat, a < BlockSize * NumBlocks
  PROVE  a \div BlockSize \in Indexes
<1> DEFINE b == BlockSize
           i == a \div b
<1>1. b \in Nat \ {0} /\ NumBlocks \in Nat
  BY SizeAssumption
<1>2. i \in Nat /\ b * i <= a
  BY DivMod
<1> HIDE DEF i, b
<1>3. b * i < b * NumBlocks
  BY <1>1, <1>2 DEF b
<1>4. i < NumBlocks
  BY <1>1, <1>2, <1>3
<1> QED
  BY <1>1, <1>2, <1>4 DEF Indexes, i, b

\* Starts of blocks are a block apart.
LEMMA Aligned ==
  ASSUME NEW a \in Nat, a % BlockSize = 0
  PROVE  /\ (a + BlockSize) % BlockSize = 0
         /\ \A c \in Nat : c % BlockSize = 0 /\ a < c => a + BlockSize <= c
         /\ \A c \in Nat : c % BlockSize = 0 => (a + c) % BlockSize = 0
<1> DEFINE b == BlockSize
           i == a \div b
<1>1. b \in Nat \ {0} /\ 0 \in 0..(b - 1)
  BY SizeAssumption
<1>2. i \in Nat /\ b * i \in Nat /\ a = b * i
  BY DivMod
<1>3. \A x \in Nat : (b * x + 0) % b = 0
  BY <1>1, DivModIs
<1> HIDE DEF i, b
<1>4. (a + b) % b = 0
  <2>1. a + b = b * (i + 1) + 0
    BY <1>1, <1>2
  <2> QED
    BY <1>2, <1>3, <2>1
<1>5. ASSUME NEW c \in Nat, c % b = 0
      PROVE  (a < c => a + b <= c) /\ (a + c) % b = 0
  <2> DEFINE j == c \div b
  <2>1. j \in Nat /\ b * j \in Nat /\ c = b * j
    BY <1>5, DivMod DEF b
  <2> HIDE DEF j
  <2>2. a < c => a + b <= c
    <3>1. ASSUME a < c PROVE i < j
      BY <1>1, <1>2, <2>1, <3>1
    <3>2. ASSUME i < j PROVE b * i + b <= b * j
      BY <1>1, <1>2, <2>1, <3>2
    <3> QED
      BY <1>2, <2>1, <3>1, <3>2
  <2>3. a + c = b * (i + j) + 0
    BY <1>1, <1>2, <2>1
  <2> QED
    BY <1>2, <1>3, <2>1, <2>2, <2>3
<1> QED
  BY <1>4, <1>5 DEF b

\* Starts of blocks are offsets without a rest.
LEMMA Starts ==
  ASSUME NEW i \in Nat
  PROVE  BlockSize * i \in Nat /\ (BlockSize * i) % BlockSize = 0
<1>1. BlockSize \in Nat \ {0} /\ 0 \in 0..(BlockSize - 1)
  BY SizeAssumption
<1>2. BlockSize * i \in Nat
  BY <1>1
<1>3. BlockSize * i + 0 = BlockSize * i
  BY <1>2
<1> QED
  BY <1>1, <1>2, <1>3, DivModIs

(* Blocks and buffers.                                                      *)

\* A block, and a buffer, is a sequence of bytes within a length.
LEMMA BlocksAreSeqs ==
  ASSUME NEW s
  PROVE  /\ s \in BlockType <=> s \in Seq(Bytes) /\ Len(s) <= BlockSize
         /\ s \in BufferType <=> s \in Seq(Bytes) /\ Len(s) <= BlockSize * NumBlocks
<1>1. BlockSize \in Nat /\ BlockSize * NumBlocks \in Nat
  BY SizeAssumption
<1>2. ASSUME NEW m \in Nat
      PROVE  s \in UNION {[1..n -> Bytes] : n \in 0..m} <=>
               s \in Seq(Bytes) /\ Len(s) <= m
  <2>1. ASSUME s \in Seq(Bytes), Len(s) <= m
        PROVE  s \in UNION {[1..n -> Bytes] : n \in 0..m}
    <3>1. Len(s) \in 0..m /\ s \in [1..Len(s) -> Bytes]
      BY <2>1
    <3> QED
      BY <3>1
  <2>2. ASSUME NEW n \in 0..m, s \in [1..n -> Bytes]
        PROVE  s \in Seq(Bytes) /\ Len(s) <= m
    BY <1>2, <2>2
  <2> QED
    BY <2>1, <2>2
<1> QED
  BY <1>1, <1>2 DEF BlockType, BufferType

\* No bytes are a block, and a buffer.
LEMMA NoBytes == <<>> \in BlockType /\ <<>> \in BufferType
<1>1. BlockSize \in Nat /\ BlockSize * NumBlocks \in Nat
  BY SizeAssumption
<1>2. PICK s : s = <<>>
  OBVIOUS
<1>3. s \in Seq(Bytes) /\ Len(s) = 0
  BY <1>2
<1>4. s \in BlockType /\ s \in BufferType
  <2>1. Len(s) <= BlockSize /\ Len(s) <= BlockSize * NumBlocks
    BY <1>1, <1>3
  <2> QED
    BY <1>3, <2>1, BlocksAreSeqs
<1> QED
  BY <1>2, <1>4

-----------------------------------------------------------------------------
(* The invariants.                                                          *)

FileEnd == BlockSize * NumBlocks

Requests ==
  [op : {"write"}, id : 1..MaxWrites, offset : Offsets, size : 1..FileEnd] \cup
  [op : {"read"}, id : {0}, offset : Offsets, size : 1..FileEnd]

EndOf(t) == req[t].offset + req[t].size

\* Where a request is: a read goes on from block to block; a write may be
\* further in the file than in its buffer, which it is when it started within
\* a block and goes on in the next.
Place(t) ==
  /\ pc[t] = "idle" => buf[t] = <<>>
  /\ pc[t] # "idle" =>
       /\ req[t] \in Requests /\ EndOf(t) <= FileEnd
       /\ index[t] <= req[t].size
  /\ pc[t] # "idle" /\ req[t].op = "write" =>
       /\ req[t].offset + index[t] <= current[t]
       /\ buf[t] = <<>>
  /\ pc[t] # "idle" /\ req[t].op = "read" =>
       /\ pc[t] = "loop" /\ current[t] = req[t].offset + index[t]
       /\ Rem(t) = 0 /\ EndOf(t) % BlockSize = 0
       /\ DOMAIN buf[t] = 1..req[t].size
  /\ pc[t] = "register" =>
       /\ req[t].op = "write" /\ current[t] < EndOf(t)
       /\ block[t] = <<>> \/ content[BlockIndex(t)] # <<>>

TypeInv ==
  /\ TypeOK
  /\ content \in [Indexes -> BlockType]
  /\ req \in [Threads -> Requests \cup {None}]
  /\ block \in [Threads -> BlockType]
  /\ buf \in [Threads -> BufferType]
  /\ DOMAIN start = Threads
  /\ \A t \in Threads : Place(t)

\* A write is in the file where it is in its buffer, until it has come to the
\* end of both; it is at the start of a block, or in its only one.
InStep(t) ==
  pc[t] # "idle" /\ req[t].op = "write" =>
    /\ current[t] < EndOf(t) =>
         /\ current[t] = req[t].offset + index[t]
         /\ Rem(t) = 0 \/ (index[t] = 0 /\ Rem(t) + req[t].size <= BlockSize)
    /\ current[t] >= EndOf(t) => index[t] = req[t].size

StepInv == \A t \in Threads : InStep(t)

\* The bytes that a read has passed are those of the file when it began; no
\* block that there was has changed.
Seen(t) ==
  pc[t] # "idle" =>
    /\ start[t] \in [Indexes -> BlockType]
    /\ \A i \in Indexes : start[t][i] # <<>> => content[i] = start[t][i]
    /\ faults = 0 /\ req[t].op = "read" =>
         \A k \in 1..index[t] :
           LET offset == req[t].offset + k - 1
               bytes == start[t][offset \div BlockSize]
               p == (offset % BlockSize) + 1
           IN  p \in DOMAIN bytes => buf[t][k] = bytes[p]

SeenInv == \A t \in Threads : Seen(t)

-----------------------------------------------------------------------------
(* Types, and where requests are.                                           *)

\* What a request is about.
LEMMA RequestIs ==
  ASSUME NEW r \in Requests
  PROVE  /\ r.op \in {"write", "read"} /\ r.offset \in Nat /\ r.size \in Nat \ {0}
         /\ r.op = "write" => r.id \in 1..MaxWrites
         /\ r.offset + r.size \in Nat
<1>1. FileEnd \in Nat /\ BlockSize * NumBlocks \in Nat
  BY SizeAssumption DEF FileEnd
<1> QED
  BY <1>1 DEF Requests, Offsets

\* The part of a block that a request asks for.
LEMMA RightIs ==
  ASSUME TypeInv, NEW t \in Threads, pc[t] # "idle", current[t] < EndOf(t)
  PROVE  /\ current[t] \in Nat /\ index[t] \in Nat /\ EndOf(t) \in Nat
         /\ Rem(t) \in Nat /\ Rem(t) < BlockSize /\ BlockIndex(t) \in Indexes
         /\ current[t] = BlockSize * BlockIndex(t) + Rem(t)
         /\ BlockSize * BlockIndex(t) \in Nat
         /\ Right(t) \in Nat /\ Rem(t) < Right(t) /\ Right(t) <= BlockSize
         /\ Right(t) <= Rem(t) + (EndOf(t) - current[t])
         /\ Right(t) \in {BlockSize, Rem(t) + (EndOf(t) - current[t])}
<1>1. /\ current[t] \in Nat /\ index[t] \in Nat /\ req[t] \in Requests
      /\ EndOf(t) <= FileEnd
  BY DEF TypeInv, TypeOK, Place
<1>2. /\ EndOf(t) \in Nat /\ FileEnd \in Nat /\ BlockSize \in Nat \ {0}
      /\ req[t].offset \in Nat /\ req[t].size \in Nat
  BY <1>1, RequestIs, SizeAssumption DEF EndOf, FileEnd
<1>3. /\ Rem(t) \in 0..(BlockSize - 1) /\ BlockSize * BlockIndex(t) \in Nat
      /\ current[t] = BlockSize * BlockIndex(t) + Rem(t)
  BY <1>1, DivMod DEF Rem, BlockIndex
<1>4. BlockIndex(t) \in Indexes
  BY <1>1, <1>2, InFile DEF BlockIndex, FileEnd
<1>5. Rem(t) + req[t].offset + req[t].size - current[t] =
        Rem(t) + (EndOf(t) - current[t])
  BY <1>1, <1>2, <1>3 DEF EndOf
<1>6. Right(t) = MinOf(BlockSize, Rem(t) + (EndOf(t) - current[t]))
  BY <1>5 DEF Right
<1> QED
  BY <1>1, <1>2, <1>3, <1>4, <1>6 DEF MinOf

\* What belongs to a thread.
Same(u) ==
  /\ pc'[u] = pc[u] /\ req'[u] = req[u] /\ current'[u] = current[u]
  /\ index'[u] = index[u] /\ block'[u] = block[u] /\ buf'[u] = buf[u]
  /\ start'[u] = start[u]

\* A block that is there stays there.
BlocksStay == \A i \in Indexes : content[i] # <<>> => content'[i] = content[i]

\* Threads that do not move are where they were.
LEMMA PlaceStays ==
  ASSUME TypeInv, NEW u \in Threads, Same(u), BlocksStay
  PROVE  Place(u)'
<1>1. Place(u)
  BY DEF TypeInv
<1>2. CASE pc[u] = "register"
  <2>1. current[u] < EndOf(u)
    BY <1>1, <1>2 DEF Place
  <2>2. BlockIndex(u) \in Indexes
    BY <1>2, <2>1, RightIs
  <2>3. BlockIndex(u)' = BlockIndex(u)
    BY DEF BlockIndex, Same
  <2> QED
    BY <1>1, <2>2, <2>3 DEF Place, Same, BlocksStay, EndOf, Rem
<1>3. CASE pc[u] # "register"
  BY <1>1, <1>3 DEF Place, Same, EndOf, Rem
<1> QED
  BY <1>2, <1>3

\* A step of thread t is its own.
LEMMA OthersSame ==
  ASSUME TypeInv, NEW t \in Threads, Begin(t) \/ Step(t), NEW u \in Threads, u # t
  PROVE  Same(u)
<1>1. CASE Begin(t)
  BY <1>1 DEF Begin, TypeInv, TypeOK, Same
<1>2. CASE WriteRead(t)
  BY <1>2 DEF WriteRead, TypeInv, TypeOK, Same
<1>3. CASE WriteRegister(t)
  BY <1>3 DEF WriteRegister, TypeInv, TypeOK, Same
<1>4. CASE ReadChunk(t)
  BY <1>4 DEF ReadChunk, TypeInv, TypeOK, Same
<1>5. CASE Return(t)
  BY <1>5 DEF Return, TypeInv, TypeOK, Same
<1> QED
  BY <1>1, <1>2, <1>3, <1>4, <1>5 DEF Step

\* A new request starts at its offset.
LEMMA TypeBegin ==
  ASSUME TypeInv, NEW t \in Threads, Begin(t)
  PROVE  TypeInv'
<1>1. PICK r : /\ req' = [req EXCEPT ![t] = r]
               /\ current' = [current EXCEPT ![t] = r.offset]
               /\ \/ /\ r \in WriteRequests /\ writes < MaxWrites
                     /\ writes' = writes + 1 /\ buf' = buf
                  \/ /\ r \in ReadRequests /\ writes' = writes
                     /\ buf' = [buf EXCEPT ![t] = [k \in 1..r.size |-> Garbage]]
  BY DEF Begin
<1>2. /\ pc[t] = "idle" /\ pc' = [pc EXCEPT ![t] = "loop"]
      /\ index' = [index EXCEPT ![t] = 0] /\ start' = [start EXCEPT ![t] = content]
      /\ UNCHANGED <<content, block, faults>>
  BY DEF Begin
<1>3. /\ BlockSize \in Nat \ {0} /\ NumBlocks \in Nat \ {0} /\ FileEnd \in Nat
      /\ FileEnd = BlockSize * NumBlocks
      /\ writes \in 0..MaxWrites /\ MaxWrites \in Nat
  BY SizeAssumption, BoundsAssumption DEF FileEnd, TypeInv, TypeOK
<1>4. ASSUME r \in WriteRequests, writes < MaxWrites
      PROVE  r \in Requests /\ r.op = "write" /\ r.offset + r.size <= FileEnd
  <2>1. writes + 1 \in 1..MaxWrites
    BY <1>3, <1>4
  <2> QED
    BY <1>3, <1>4, <2>1 DEF WriteRequests, Requests
<1>5. ASSUME r \in ReadRequests
      PROVE  /\ r \in Requests /\ r.op = "read" /\ r.offset + r.size <= FileEnd
             /\ r.offset % BlockSize = 0 /\ (r.offset + r.size) % BlockSize = 0
  <2>1. PICK i \in Indexes, n \in 1..NumBlocks :
          /\ r = [op |-> "read", id |-> 0, offset |-> BlockSize * i,
                  size |-> BlockSize * n]
          /\ r.offset + r.size <= FileEnd
    BY <1>3, <1>5 DEF ReadRequests
  <2>2. i \in Nat /\ n \in Nat /\ n >= 1
    BY <1>3, <2>1 DEF Indexes
  <2>3. /\ BlockSize * i \in Nat /\ (BlockSize * i) % BlockSize = 0
        /\ BlockSize * n \in Nat /\ (BlockSize * n) % BlockSize = 0
    BY <2>2, Starts
  <2>4. BlockSize * n >= 1
    BY <1>3, <2>2
  <2>5. /\ r.op = "read" /\ r.id = 0
        /\ r.offset = BlockSize * i /\ r.size = BlockSize * n
    BY <2>1
  <2>6. r.offset \in 0..(FileEnd - 1) /\ r.size \in 1..FileEnd
    BY <1>3, <2>1, <2>3, <2>4, <2>5
  <2>7. r \in Requests
    BY <1>3, <2>1, <2>5, <2>6 DEF Requests, Offsets
  <2>8. (r.offset + r.size) % BlockSize = 0
    BY <2>3, <2>5, Aligned
  <2> QED
    BY <2>1, <2>3, <2>5, <2>7, <2>8
<1>6. /\ r \in Requests /\ r.offset + r.size <= FileEnd
      /\ r.offset \in Nat /\ r.size \in Nat
  BY <1>1, <1>4, <1>5, RequestIs
<1>7. ASSUME r \in ReadRequests
      PROVE  [k \in 1..r.size |-> Garbage] \in BufferType
  <2>1. r.size \in 0..FileEnd
    BY <1>6 DEF Requests
  <2>2. Garbage \in Bytes
    BY DEF Bytes
  <2> QED
    BY <2>1, <2>2 DEF BufferType, FileEnd
<1>8. /\ req' \in [Threads -> Requests \cup {None}]
      /\ current' \in [Threads -> Nat] /\ index' \in [Threads -> Nat]
      /\ pc' \in [Threads -> {"idle", "loop", "register"}]
      /\ DOMAIN start' = Threads
  BY <1>1, <1>2, <1>6 DEF TypeInv, TypeOK
<1>9. buf' \in [Threads -> BufferType] /\ writes' \in 0..MaxWrites
  <2>1. writes' \in 0..MaxWrites
    BY <1>1, <1>3
  <2>2. ASSUME NEW b \in BufferType, buf' = [buf EXCEPT ![t] = b]
        PROVE  buf' \in [Threads -> BufferType]
    BY <2>2 DEF TypeInv
  <2>3. CASE buf' = buf
    BY <2>1, <2>3 DEF TypeInv
  <2> QED
    BY <1>1, <1>7, <2>1, <2>2, <2>3
<1>10. Place(t)'
  <2>1. /\ pc'[t] = "loop" /\ req'[t] = r /\ current'[t] = r.offset /\ index'[t] = 0
    BY <1>1, <1>2 DEF TypeInv, TypeOK
  <2>2. CASE r \in WriteRequests /\ buf' = buf /\ writes < MaxWrites
    <3>1. buf'[t] = <<>>
      BY <1>2, <2>2 DEF TypeInv, Place
    <3> QED
      BY <1>4, <1>6, <2>1, <2>2, <3>1 DEF Place, EndOf
  <2>3. CASE r \in ReadRequests /\ buf' = [buf EXCEPT ![t] = [k \in 1..r.size |-> Garbage]]
    <3>1. DOMAIN buf'[t] = 1..r.size
      BY <2>3 DEF TypeInv
    <3> QED
      BY <1>5, <1>6, <2>1, <2>3, <3>1 DEF Place, EndOf, Rem
  <2> QED
    BY <1>1, <2>2, <2>3
<1>11. \A u \in Threads : u # t => Place(u)'
  BY <1>2, OthersSame, PlaceStays DEF BlocksStay
<1> QED
  BY <1>2, <1>8, <1>9, <1>10, <1>11 DEF TypeInv, TypeOK

\* A thread that returns leaves nothing behind.
LEMMA TypeReturn ==
  ASSUME TypeInv, NEW t \in Threads, Return(t)
  PROVE  TypeInv'
<1>1. \A u \in Threads : u # t => Place(u)'
  BY OthersSame, PlaceStays DEF Step, Return, BlocksStay
<1>2. Place(t)'
  BY DEF Return, Place, TypeInv, TypeOK
<1>3. <<>> \in BlockType /\ <<>> \in BufferType
  BY NoBytes
<1>4. UNCHANGED <<content, writes, faults>>
  BY DEF Return
<1>5. /\ pc' \in [Threads -> {"idle", "loop", "register"}]
      /\ req' \in [Threads -> Requests \cup {None}]
      /\ current' \in [Threads -> Nat] /\ index' \in [Threads -> Nat]
      /\ block' \in [Threads -> BlockType] /\ buf' \in [Threads -> BufferType]
      /\ DOMAIN start' = Threads
  BY <1>3 DEF Return, TypeInv, TypeOK
<1> QED
  BY <1>1, <1>2, <1>4, <1>5 DEF TypeInv, TypeOK

\* A failing call is counted.
LEMMA FaultsIs ==
  ASSUME TypeInv, Fault \/ UNCHANGED faults
  PROVE  faults' \in 0..MaxFaults
  BY BoundsAssumption DEF Fault, TypeInv, TypeOK

\* The block that bb_write reads is the one at the index, or nothing.
LEMMA TypeWriteRead ==
  ASSUME TypeInv, NEW t \in Threads, WriteRead(t)
  PROVE  TypeInv'
<1>1. /\ pc[t] = "loop" /\ current[t] < EndOf(t) /\ req[t].op = "write"
      /\ pc' = [pc EXCEPT ![t] = "register"]
      /\ UNCHANGED <<content, req, current, index, buf, start, writes>>
  BY DEF WriteRead, More, EndOf
<1>2. BlockIndex(t) \in Indexes
  BY <1>1, RightIs
<1>3. PICK bytes \in {<<>>, content[BlockIndex(t)]} : block' = [block EXCEPT ![t] = bytes]
  BY DEF WriteRead
<1>4. bytes \in BlockType
  BY <1>2, NoBytes DEF TypeInv
<1>5. block' \in [Threads -> BlockType]
  BY <1>3, <1>4 DEF TypeInv
<1>6. faults' \in 0..MaxFaults
  BY FaultsIs DEF WriteRead
<1>7. Place(t)'
  BY <1>1, <1>3 DEF TypeInv, TypeOK, Place, EndOf, Rem, BlockIndex
<1>8. \A u \in Threads : u # t => Place(u)'
  BY <1>1, OthersSame, PlaceStays DEF Step, BlocksStay
<1> QED
  BY <1>1, <1>5, <1>6, <1>7, <1>8 DEF TypeInv, TypeOK

\* The bytes of a new block: the old ones or zeroes, then those of the request.
LEMMA NewByteIs ==
  ASSUME TypeInv, NEW t \in Threads, pc[t] = "register", NEW p \in 1..Right(t)
  PROVE  /\ p > Rem(t) =>
              /\ NewBlock(t)[p] =
                   [write |-> req[t].id,
                    offset |-> req[t].offset + index[t] + (p - Rem(t)) - 1]
              /\ req[t].offset + index[t] + (p - Rem(t)) - 1 \in Offsets
              /\ req[t].id \in 1..MaxWrites
         /\ p <= Rem(t) =>
              \/ NewBlock(t)[p] = Zero
              \/ p \in DOMAIN block[t] /\ NewBlock(t)[p] = block[t][p]
         /\ NewBlock(t)[p] \in Bytes
<1>1. /\ req[t] \in Requests /\ EndOf(t) <= FileEnd /\ current[t] < EndOf(t)
      /\ req[t].op = "write" /\ req[t].offset + index[t] <= current[t]
  BY DEF TypeInv, Place
<1>2. /\ req[t].offset \in Nat /\ req[t].size \in Nat /\ req[t].id \in 1..MaxWrites
      /\ FileEnd \in Nat /\ index[t] \in Nat
  BY <1>1, RequestIs, SizeAssumption DEF FileEnd, TypeInv, TypeOK
<1>3. /\ Right(t) \in Nat /\ Rem(t) \in Nat /\ current[t] \in Nat /\ EndOf(t) \in Nat
      /\ Right(t) <= Rem(t) + (EndOf(t) - current[t])
  BY <1>1, RightIs
<1>4. p > Rem(t) => req[t].offset + index[t] + (p - Rem(t)) - 1 \in Offsets
  BY <1>1, <1>2, <1>3 DEF Offsets, FileEnd
<1>5. block[t] \in Seq(Bytes)
  BY BlocksAreSeqs DEF TypeInv
<1>6. /\ p > Rem(t) =>
           NewBlock(t)[p] =
             [write |-> req[t].id,
              offset |-> req[t].offset + index[t] + (p - Rem(t)) - 1]
      /\ p <= Rem(t) =>
           \/ NewBlock(t)[p] = Zero
           \/ p \in DOMAIN block[t] /\ NewBlock(t)[p] = block[t][p]
  BY <1>3, <1>5 DEF NewBlock
<1>7. NewBlock(t)[p] \in Bytes
  <2>1. CASE p > Rem(t)
    BY <1>2, <1>4, <1>6, <2>1 DEF Bytes
  <2>2. CASE p <= Rem(t)
    <3>1. Zero \in Bytes
      BY DEF Bytes
    <3> QED
      BY <1>5, <1>6, <2>2, <3>1
  <2> QED
    BY <1>3, <2>1, <2>2
<1> QED
  BY <1>2, <1>4, <1>6, <1>7

\* It is a block, and not a hole.
LEMMA NewBlockIs ==
  ASSUME TypeInv, NEW t \in Threads, pc[t] = "register"
  PROVE  /\ NewBlock(t) \in BlockType /\ NewBlock(t) # <<>>
         /\ DOMAIN NewBlock(t) = 1..Right(t)
<1>1. current[t] < EndOf(t)
  BY DEF TypeInv, Place
<1>2. Right(t) \in Nat /\ 0 < Right(t) /\ Right(t) <= BlockSize
  BY <1>1, RightIs
<1>3. DOMAIN NewBlock(t) = 1..Right(t)
  BY DEF NewBlock
<1>4. NewBlock(t) \in [1..Right(t) -> Bytes]
  <2>1. \A p \in 1..Right(t) : NewBlock(t)[p] \in Bytes
    BY NewByteIs
  <2>2. NewBlock(t) = [p \in 1..Right(t) |-> NewBlock(t)[p]]
    BY DEF NewBlock
  <2> QED
    BY <2>1, <2>2
<1>5. Right(t) \in 0..BlockSize
  BY <1>2, SizeAssumption
<1>6. 1 \in DOMAIN NewBlock(t)
  BY <1>2, <1>3
<1> QED
  BY <1>3, <1>4, <1>5, <1>6 DEF BlockType

\* A block that is there stays there; one that is not may become the new one.
LEMMA RegisterIs ==
  ASSUME TypeInv, NEW t \in Threads, WriteRegister(t)
  PROVE  /\ BlockIndex(t) \in Indexes /\ BlocksStay
         /\ content' \in [Indexes -> BlockType]
         /\ \A i \in Indexes :
              \/ content'[i] = content[i]
              \/ i = BlockIndex(t) /\ content[i] = <<>> /\ content'[i] = NewBlock(t)
<1>1. pc[t] = "register" /\ current[t] < EndOf(t)
  BY DEF WriteRegister, TypeInv, Place
<1>2. BlockIndex(t) \in Indexes
  BY <1>1, RightIs
<1>3. NewBlock(t) \in BlockType
  BY <1>1, NewBlockIs
<1>4. CASE content' = content
  BY <1>2, <1>4 DEF BlocksStay, TypeInv
<1>5. CASE content' = [content EXCEPT ![BlockIndex(t)] = Registered(t)]
  BY <1>2, <1>3, <1>5 DEF BlocksStay, TypeInv, Registered
<1> QED
  BY <1>4, <1>5 DEF WriteRegister

\* A block is registered, or fails to be, and the loop goes on.
LEMMA TypeWriteRegister ==
  ASSUME TypeInv, NEW t \in Threads, WriteRegister(t)
  PROVE  TypeInv'
<1>1. /\ pc[t] = "register" /\ pc' = [pc EXCEPT ![t] = "loop"]
      /\ current' = [current EXCEPT ![t] = @ + Right(t)]
      /\ index' = [index EXCEPT ![t] = @ + (Right(t) - Rem(t))]
      /\ UNCHANGED <<req, block, buf, start, writes>>
  BY DEF WriteRegister, Advance
<1>2. /\ req[t] \in Requests /\ EndOf(t) <= FileEnd /\ current[t] < EndOf(t)
      /\ req[t].op = "write" /\ req[t].offset + index[t] <= current[t]
      /\ buf[t] = <<>>
  BY <1>1 DEF TypeInv, Place
<1>3. /\ req[t].offset \in Nat /\ req[t].size \in Nat /\ index[t] \in Nat
      /\ EndOf(t) = req[t].offset + req[t].size
  BY <1>2, RequestIs DEF TypeInv, TypeOK, EndOf
<1>4. /\ Right(t) \in Nat /\ Rem(t) \in Nat /\ current[t] \in Nat
      /\ Rem(t) < Right(t) /\ Right(t) <= Rem(t) + (EndOf(t) - current[t])
  BY <1>1, <1>2, RightIs
<1>5. /\ pc'[t] = "loop" /\ current'[t] = current[t] + Right(t)
      /\ index'[t] = index[t] + (Right(t) - Rem(t))
  BY <1>1 DEF TypeInv, TypeOK
<1>6. /\ current'[t] \in Nat /\ index'[t] \in Nat /\ index'[t] <= req[t].size
      /\ req[t].offset + index'[t] <= current'[t]
  <2> DEFINE o == req[t].offset
             s == req[t].size
             i == index[t]
             c == current[t]
             d == Right(t)
             m == Rem(t)
  <2>1. /\ o \in Nat /\ s \in Nat /\ i \in Nat /\ c \in Nat /\ d \in Nat /\ m \in Nat
        /\ o + i <= c /\ c < o + s /\ m < d /\ d <= m + ((o + s) - c)
    BY <1>2, <1>3, <1>4
  <2>2. current'[t] = c + d /\ index'[t] = i + (d - m)
    BY <1>5
  <2> HIDE DEF o, s, i, c, d, m
  <2>3. /\ c + d \in Nat /\ i + (d - m) \in Nat /\ i + (d - m) <= s
        /\ o + (i + (d - m)) <= c + d
    BY <2>1
  <2> QED
    BY <2>2, <2>3 DEF o, s
<1>7. Place(t)'
  BY <1>1, <1>2, <1>5, <1>6 DEF Place, EndOf
<1>8. content' \in [Indexes -> BlockType] /\ BlocksStay
  BY RegisterIs
<1>9. \A u \in Threads : u # t => Place(u)'
  BY <1>8, OthersSame, PlaceStays DEF Step
<1>10. faults' \in 0..MaxFaults
  BY FaultsIs DEF WriteRegister
<1>11. /\ pc' \in [Threads -> {"idle", "loop", "register"}]
       /\ current' \in [Threads -> Nat] /\ index' \in [Threads -> Nat]
  <2>1. ASSUME NEW n \in Nat, current' = [current EXCEPT ![t] = n]
        PROVE  current' \in [Threads -> Nat]
    BY <2>1 DEF TypeInv, TypeOK
  <2>2. ASSUME NEW n \in Nat, index' = [index EXCEPT ![t] = n]
        PROVE  index' \in [Threads -> Nat]
    BY <2>2 DEF TypeInv, TypeOK
  <2>3. /\ current' = [current EXCEPT ![t] = current'[t]]
        /\ index' = [index EXCEPT ![t] = index'[t]]
    BY <1>1, <1>5
  <2> QED
    BY <1>1, <1>6, <2>1, <2>2, <2>3 DEF TypeInv, TypeOK
<1> QED
  BY <1>1, <1>7, <1>8, <1>9, <1>10, <1>11 DEF TypeInv, TypeOK

\* What a step of bb_read is: a read goes from block to block, and what it
\* copies is the block, if the block can be read, or zeroes.
LEMMA ReadIs ==
  ASSUME TypeInv, NEW t \in Threads, ReadChunk(t)
  PROVE  /\ pc[t] = "loop" /\ req[t].op = "read" /\ Rem(t) = 0
         /\ current' = [current EXCEPT ![t] = @ + BlockSize]
         /\ index' = [index EXCEPT ![t] = @ + BlockSize]
         /\ (current[t] + BlockSize) % BlockSize = 0
         /\ index[t] + BlockSize <= req[t].size
         /\ BlockIndex(t) \in Indexes
         /\ \E bytes \in {<<>>, content[BlockIndex(t)]}, n \in 0..BlockSize :
              /\ buf' = [buf EXCEPT ![t] = Copied(t, Padded(bytes), 0, n)]
              /\ faults' = faults /\ content[BlockIndex(t)] # <<>> =>
                   bytes = content[BlockIndex(t)] /\ n = Len(bytes)
              /\ faults' = faults /\ content[BlockIndex(t)] = <<>> => n = BlockSize
<1>1. /\ pc[t] = "loop" /\ current[t] < EndOf(t) /\ req[t].op = "read"
  BY DEF ReadChunk, More, EndOf
<1>2. /\ Rem(t) = 0 /\ EndOf(t) % BlockSize = 0 /\ req[t] \in Requests
      /\ current[t] = req[t].offset + index[t]
  BY <1>1 DEF TypeInv, Place
<1>3. /\ req[t].offset \in Nat /\ req[t].size \in Nat /\ index[t] \in Nat
      /\ EndOf(t) = req[t].offset + req[t].size /\ BlockSize \in Nat \ {0}
      /\ BlockIndex(t) \in Indexes /\ current[t] \in Nat /\ EndOf(t) \in Nat
      /\ Right(t) \in Nat /\ Right(t) <= BlockSize
  BY <1>1, <1>2, RequestIs, RightIs, SizeAssumption DEF TypeInv, TypeOK, EndOf
<1>4. current[t] % BlockSize = 0
  BY <1>2 DEF Rem
<1>5. /\ (current[t] + BlockSize) % BlockSize = 0
      /\ current[t] + BlockSize <= EndOf(t)
  BY <1>1, <1>2, <1>3, <1>4, Aligned
<1>6. index[t] + BlockSize <= req[t].size
  BY <1>2, <1>3, <1>5
<1>7. /\ current' = [current EXCEPT ![t] = @ + BlockSize]
      /\ index' = [index EXCEPT ![t] = @ + BlockSize]
  <2>1. /\ current[t] + BlockSize - Rem(t) = current[t] + BlockSize
        /\ index[t] + BlockSize - Rem(t) = index[t] + BlockSize
    BY <1>2, <1>3
  <2> QED
    BY <2>1 DEF ReadChunk
<1>8. ASSUME NEW bytes \in BlockType
      PROVE  /\ CopyBlock(t, bytes) = Copied(t, Padded(bytes), 0, Len(bytes))
             /\ Len(bytes) \in 0..BlockSize
  <2>1. Len(bytes) \in Nat /\ Len(bytes) <= BlockSize
    BY BlocksAreSeqs
  <2>2. MaxOf(MaxOf(Len(bytes) - 0, 0) - 0, 0) = Len(bytes)
    BY <2>1 DEF MaxOf
  <2> QED
    BY <1>2, <1>3, <2>1, <2>2 DEF CopyBlock
<1>9. /\ FillHole(t) = Copied(t, Padded(<<>>), 0, Right(t)) /\ Right(t) \in 0..BlockSize
      /\ Right(t) = BlockSize
  <2>1. Right(t) \in {BlockSize, Rem(t) + (EndOf(t) - current[t])}
    BY <1>1, RightIs
  <2>2. Right(t) = BlockSize
    BY <1>2, <1>3, <1>5, <2>1
  <2> QED
    BY <1>2, <1>3, <2>2 DEF FillHole
<1>10. content[BlockIndex(t)] \in BlockType /\ <<>> \in BlockType
  BY <1>3, NoBytes DEF TypeInv
<1> DEFINE bytes == content[BlockIndex(t)]
           hit == Copied(t, Padded(bytes), 0, Len(bytes))
           fill == Copied(t, Padded(<<>>), 0, Right(t))
           miss == Copied(t, Padded(<<>>), 0, Len(<<>>))
<1>11. \/ /\ buf' = [buf EXCEPT ![t] = IF bytes = <<>> THEN fill ELSE hit]
          /\ faults' = faults
       \/ buf' = [buf EXCEPT ![t] = miss] /\ faults' # faults
  <2>1. CASE Fault
    <3>1. faults' # faults
      BY <2>1 DEF Fault, TypeInv, TypeOK
    <3> QED
      BY <1>8, <1>9, <1>10, <2>1, <3>1 DEF ReadChunk
  <2>2. CASE ~Fault
    BY <1>8, <1>9, <1>10, <2>2 DEF ReadChunk
  <2> QED
    BY <2>1, <2>2
<1>12. \E b \in {<<>>, bytes}, n \in 0..BlockSize :
         /\ buf' = [buf EXCEPT ![t] = Copied(t, Padded(b), 0, n)]
         /\ faults' = faults /\ bytes # <<>> => b = bytes /\ n = Len(b)
         /\ faults' = faults /\ bytes = <<>> => n = BlockSize
  <2>1. CASE bytes # <<>> /\ faults' = faults
    BY <1>8, <1>10, <1>11, <2>1
  <2>2. CASE bytes = <<>> /\ faults' = faults
    BY <1>9, <1>11, <2>2
  <2>3. CASE faults' # faults
    BY <1>8, <1>10, <1>11, <2>3
  <2> QED
    BY <2>1, <2>2, <2>3
<1> QED
  BY <1>1, <1>2, <1>3, <1>5, <1>6, <1>7, <1>12

\* What is copied into the buffer of a read.
LEMMA CopiedIs ==
  ASSUME TypeInv, NEW t \in Threads, pc[t] # "idle", req[t].op = "read",
         NEW bytes \in BlockType, NEW n \in 0..BlockSize
  PROVE  LET new == Copied(t, Padded(bytes), 0, n) IN
         /\ new \in BufferType /\ DOMAIN new = DOMAIN buf[t]
         /\ \A k \in DOMAIN buf[t] :
              /\ k \in (index[t] + 1)..(index[t] + n) =>
                   /\ k - index[t] \in 1..BlockSize
                   /\ k - index[t] \in DOMAIN bytes => new[k] = bytes[k - index[t]]
                   /\ k - index[t] \notin DOMAIN bytes => new[k] = Zero
              /\ k \notin (index[t] + 1)..(index[t] + n) => new[k] = buf[t][k]
<1> DEFINE new == Copied(t, Padded(bytes), 0, n)
           data == Padded(bytes)
<1>1. /\ buf[t] \in Seq(Bytes) /\ Len(buf[t]) <= BlockSize * NumBlocks
      /\ bytes \in Seq(Bytes) /\ index[t] \in Nat /\ n \in Nat /\ n <= BlockSize
      /\ BlockSize \in Nat /\ BlockSize * NumBlocks \in Nat
      /\ DOMAIN buf[t] = 1..Len(buf[t])
  BY BlocksAreSeqs, SizeAssumption DEF TypeInv, TypeOK
<1>2. Zero \in Bytes
  BY DEF Bytes
<1>3. \A p \in 1..BlockSize :
        /\ p \in DOMAIN bytes => data[p] = bytes[p] /\ bytes[p] \in Bytes
        /\ p \notin DOMAIN bytes => data[p] = Zero
  BY <1>1 DEF Padded
<1>4. DOMAIN new = DOMAIN buf[t]
  BY DEF Copied
<1>5. ASSUME NEW k \in DOMAIN buf[t]
      PROVE  /\ k \in (index[t] + 1)..(index[t] + n) =>
                  k - index[t] \in 1..BlockSize /\ new[k] = data[k - index[t]]
             /\ k \notin (index[t] + 1)..(index[t] + n) => new[k] = buf[t][k]
  <2>1. k \in (index[t] + 1)..(index[t] + n) =>
          k - index[t] \in 1..BlockSize /\ 0 + k - index[t] = k - index[t]
    BY <1>1
  <2> HIDE DEF data
  <2> QED
    BY <2>1 DEF Copied, data
<1> HIDE DEF data, new
<1>6. ASSUME NEW k \in DOMAIN buf[t] PROVE new[k] \in Bytes
  <2>1. buf[t][k] \in Bytes
    BY <1>1
  <2>2. \A p \in 1..BlockSize : data[p] \in Bytes
    BY <1>2, <1>3
  <2> QED
    BY <1>5, <2>1, <2>2
<1>7. new \in BufferType
  <2>1. new = [k \in 1..Len(buf[t]) |-> new[k]]
    BY <1>1, <1>4 DEF new, Copied
  <2>2. Len(buf[t]) \in 0..(BlockSize * NumBlocks)
    BY <1>1
  <2>3. \A k \in 1..Len(buf[t]) : new[k] \in Bytes
    BY <1>1, <1>6
  <2>4. new \in [1..Len(buf[t]) -> Bytes]
    BY <2>1, <2>3
  <2> QED
    BY <2>2, <2>4 DEF BufferType
<1> QED
  BY <1>3, <1>4, <1>5, <1>7 DEF new

\* The buffer of a read keeps its length.
LEMMA TypeReadChunk ==
  ASSUME TypeInv, NEW t \in Threads, ReadChunk(t)
  PROVE  TypeInv'
<1>1. /\ pc[t] = "loop" /\ req[t].op = "read"
      /\ current' = [current EXCEPT ![t] = @ + BlockSize]
      /\ index' = [index EXCEPT ![t] = @ + BlockSize]
      /\ (current[t] + BlockSize) % BlockSize = 0
      /\ index[t] + BlockSize <= req[t].size /\ BlockIndex(t) \in Indexes
  BY ReadIs
<1>2. PICK bytes \in {<<>>, content[BlockIndex(t)]}, n \in 0..BlockSize :
        buf' = [buf EXCEPT ![t] = Copied(t, Padded(bytes), 0, n)]
  BY ReadIs
<1>3. UNCHANGED <<content, pc, req, block, start, writes>>
  BY DEF ReadChunk
<1>4. bytes \in BlockType
  BY <1>1, NoBytes DEF TypeInv
<1> DEFINE new == Copied(t, Padded(bytes), 0, n)
<1>5. new \in BufferType /\ DOMAIN new = DOMAIN buf[t]
  BY <1>1, <1>4, CopiedIs
<1> HIDE DEF new
<1>6. buf' \in [Threads -> BufferType] /\ DOMAIN buf'[t] = DOMAIN buf[t]
  BY <1>2, <1>5 DEF new, TypeInv
<1>7. BlockSize \in Nat /\ index[t] \in Nat /\ current[t] \in Nat
  BY SizeAssumption DEF TypeInv, TypeOK
<1>8. /\ current'[t] = current[t] + BlockSize /\ index'[t] = index[t] + BlockSize
      /\ current' \in [Threads -> Nat] /\ index' \in [Threads -> Nat]
  BY <1>1, <1>7 DEF TypeInv, TypeOK
<1>9. Place(t)'
  <2>1. /\ req[t] \in Requests /\ EndOf(t) <= FileEnd
        /\ current[t] = req[t].offset + index[t]
        /\ EndOf(t) % BlockSize = 0 /\ DOMAIN buf[t] = 1..req[t].size
    BY <1>1 DEF TypeInv, Place
  <2>2. req[t].offset \in Nat
    BY <2>1, RequestIs
  <2>3. current'[t] = req[t].offset + index'[t]
    BY <1>7, <1>8, <2>1, <2>2
  <2>4. Rem(t)' = 0
    BY <1>1, <1>8 DEF Rem
  <2> QED
    BY <1>1, <1>3, <1>6, <1>8, <2>1, <2>3, <2>4 DEF Place, EndOf
<1>10. \A u \in Threads : u # t => Place(u)'
  BY <1>3, OthersSame, PlaceStays DEF Step, BlocksStay
<1>11. faults' \in 0..MaxFaults
  BY FaultsIs DEF ReadChunk
<1> QED
  BY <1>3, <1>6, <1>8, <1>9, <1>10, <1>11 DEF TypeInv, TypeOK

\* At first there is no request, and every index is a hole.
LEMMA TypeInit == ASSUME Init PROVE TypeInv
<1>1. <<>> \in BlockType /\ <<>> \in BufferType
  BY NoBytes
<1> QED
  BY <1>1, BoundsAssumption DEF Init, TypeInv, TypeOK, Place

\* Every step keeps the types.
LEMMA TypeNext == ASSUME TypeInv, [Next]_vars PROVE TypeInv'
<1>1. ASSUME NEW t \in Threads, Begin(t) \/ Step(t) PROVE TypeInv'
  BY <1>1, TypeBegin, TypeWriteRead, TypeWriteRegister, TypeReadChunk, TypeReturn
     DEF Step
<1>2. CASE UNCHANGED vars
  BY <1>2 DEF vars, locals, TypeInv, TypeOK, Place, Rem, BlockIndex, EndOf
<1> QED
  BY <1>1, <1>2 DEF Next

\* Every state has its types.
LEMMA TypeHolds == Spec => []TypeInv
<1>1. Init => TypeInv
  BY TypeInit
<1>2. TypeInv /\ [Next]_vars => TypeInv'
  BY TypeNext
<1> QED
  BY <1>1, <1>2, PTL DEF Spec

\* Every variable has its type: no block is longer than BLOCK_SIZE, and none of
\* the counters of bb_read and bb_write gets below zero.
THEOREM TypesOK == Spec => []TypeOK
<1>1. TypeInv => TypeOK
  BY DEF TypeInv
<1> QED
  BY <1>1, TypeHolds, PTL

-----------------------------------------------------------------------------
(* What is registered.                                                      *)

\* What is registered at a hole has nothing of an older block: the byte is a
\* zero, or the write's own.
LEMMA OwnBytes ==
  ASSUME TypeInv, NEW t \in Threads, WriteRegister(t), NEW i \in Indexes,
         content'[i] # content[i], NEW p \in DOMAIN content'[i]
  PROVE  /\ i = BlockIndex(t) /\ p \in 1..Right(t) /\ content'[i] = NewBlock(t)
         /\ \/ p <= Rem(t) /\ content'[i][p] = Zero
            \/ /\ p > Rem(t) /\ req[t].id \in 1..MaxWrites
               /\ content'[i][p] =
                    [write |-> req[t].id,
                     offset |-> req[t].offset + index[t] + (p - Rem(t)) - 1]
<1>1. pc[t] = "register" /\ current[t] < EndOf(t)
  BY DEF WriteRegister, TypeInv, Place
<1>2. i = BlockIndex(t) /\ content[i] = <<>> /\ content'[i] = NewBlock(t)
  BY RegisterIs
<1>3. block[t] = <<>>
  BY <1>1, <1>2 DEF TypeInv, Place
<1>4. p \in 1..Right(t)
  BY <1>1, <1>2, NewBlockIs
<1>5. Right(t) \in Nat /\ Rem(t) \in Nat
  BY <1>1, RightIs
<1>6. p \notin DOMAIN block[t]
  BY <1>3
<1>7. CASE p <= Rem(t)
  BY <1>1, <1>2, <1>4, <1>6, <1>7, NewByteIs
<1>8. CASE p > Rem(t)
  BY <1>1, <1>2, <1>4, <1>8, NewByteIs
<1> QED
  BY <1>2, <1>4, <1>5, <1>7, <1>8

\* Only a registration changes a block.
LEMMA OnlyRegisters ==
  ASSUME NEW t \in Threads, Begin(t) \/ Step(t), ~WriteRegister(t)
  PROVE  content' = content
  BY DEF Begin, Step, WriteRead, ReadChunk, Return

-----------------------------------------------------------------------------
(* Files and buffers go on together.                                        *)

\* A thread that does not move is where it was.
LEMMA InStepStays ==
  ASSUME NEW u \in Threads, Same(u), InStep(u)
  PROVE  InStep(u)'
  BY DEF InStep, Same, EndOf, Rem

\* A write starts where its buffer does.
LEMMA InStepBegin ==
  ASSUME ~Spanning, TypeInv, NEW t \in Threads, Begin(t)
  PROVE  InStep(t)'
<1>1. PICK r : /\ req' = [req EXCEPT ![t] = r]
               /\ current' = [current EXCEPT ![t] = r.offset]
               /\ r \in WriteRequests \/ r \in ReadRequests
  BY DEF Begin
<1>2. index' = [index EXCEPT ![t] = 0]
  BY DEF Begin
<1>3. req'[t] = r /\ current'[t] = r.offset /\ index'[t] = 0
  BY <1>1, <1>2 DEF TypeInv, TypeOK
<1>4. CASE r \in ReadRequests
  BY <1>3, <1>4 DEF ReadRequests, InStep
<1>5. CASE r \in WriteRequests
  <2>1. /\ r.offset \in Nat /\ r.size \in Nat \ {0}
        /\ \/ r.offset % BlockSize = 0
           \/ (r.offset % BlockSize) + r.size <= BlockSize
    BY <1>5, SizeAssumption DEF WriteRequests, Offsets
  <2>2. r.offset < r.offset + r.size /\ r.offset = r.offset + 0
    BY <2>1
  <2> QED
    BY <1>3, <2>1, <2>2 DEF InStep, EndOf, Rem
<1> QED
  BY <1>1, <1>4, <1>5

\* From a block the next one is reached, or the end.
LEMMA InStepRegister ==
  ASSUME TypeInv, NEW t \in Threads, InStep(t), WriteRegister(t)
  PROVE  InStep(t)'
<1>1. /\ current' = [current EXCEPT ![t] = @ + Right(t)]
      /\ index' = [index EXCEPT ![t] = @ + (Right(t) - Rem(t))]
      /\ req' = req
  BY DEF WriteRegister, Advance
<1>2. /\ pc[t] = "register" /\ req[t].op = "write" /\ current[t] < EndOf(t)
      /\ req[t] \in Requests
  BY DEF WriteRegister, TypeInv, Place
<1>3. /\ current[t] = req[t].offset + index[t]
      /\ Rem(t) = 0 \/ (index[t] = 0 /\ Rem(t) + req[t].size <= BlockSize)
  BY <1>2 DEF InStep
<1>4. /\ req[t].offset \in Nat /\ req[t].size \in Nat /\ index[t] \in Nat
      /\ EndOf(t) = req[t].offset + req[t].size
  BY <1>2, RequestIs DEF TypeInv, TypeOK, EndOf
<1>5. /\ Right(t) \in Nat /\ Rem(t) \in Nat /\ current[t] \in Nat
      /\ Rem(t) < Right(t) /\ Right(t) <= Rem(t) + (EndOf(t) - current[t])
      /\ Right(t) \in {BlockSize, Rem(t) + (EndOf(t) - current[t])}
      /\ Right(t) <= BlockSize /\ BlockSize \in Nat
  BY <1>2, RightIs, SizeAssumption
<1>6. /\ current'[t] = current[t] + Right(t)
      /\ index'[t] = index[t] + (Right(t) - Rem(t))
  BY <1>1 DEF TypeInv, TypeOK
<1>7. EndOf(t)' = EndOf(t)
  BY <1>1 DEF EndOf
<1>8. CASE Rem(t) = 0 /\ Right(t) = BlockSize
  <2>1. /\ current'[t] = req[t].offset + index'[t] /\ current'[t] <= EndOf(t)
        /\ current'[t] = EndOf(t) => index'[t] = req[t].size
        /\ current'[t] = current[t] + BlockSize /\ current'[t] \in Nat
        /\ EndOf(t) \in Nat
    BY <1>3, <1>4, <1>5, <1>6, <1>8
  <2>2. Rem(t)' = 0
    BY <1>5, <1>8, <2>1, Aligned DEF Rem
  <2> QED
    BY <1>1, <1>7, <2>1, <2>2 DEF InStep
<1>9. CASE Rem(t) = 0 /\ Right(t) = Rem(t) + (EndOf(t) - current[t])
  <2>1. current'[t] = EndOf(t) /\ index'[t] = req[t].size
    BY <1>3, <1>4, <1>5, <1>6, <1>9
  <2>2. ~(current'[t] < EndOf(t))
    BY <1>4, <2>1
  <2> QED
    BY <1>1, <1>7, <2>1, <2>2 DEF InStep
<1>10. CASE index[t] = 0 /\ Rem(t) + req[t].size <= BlockSize
  <2>1. Right(t) = Rem(t) + req[t].size
    BY <1>3, <1>4, <1>5, <1>10
  <2>2. ~(current'[t] < EndOf(t)) /\ index'[t] = req[t].size
    BY <1>3, <1>4, <1>5, <1>6, <1>10, <2>1
  <2> QED
    BY <1>1, <1>7, <2>2 DEF InStep
<1> QED
  BY <1>3, <1>5, <1>8, <1>9, <1>10

\* Every step keeps writes in step.
LEMMA StepNext ==
  ASSUME ~Spanning, TypeInv, StepInv, [Next]_vars
  PROVE  StepInv'
<1>1. ASSUME NEW t \in Threads, Begin(t) \/ Step(t)
      PROVE  InStep(t)'
  <2>1. InStep(t)
    BY DEF StepInv
  <2>2. CASE Begin(t)
    BY <2>2, InStepBegin
  <2>3. CASE WriteRead(t)
    BY <2>1, <2>3 DEF WriteRead, More, InStep, EndOf, Rem
  <2>4. CASE WriteRegister(t)
    BY <2>1, <2>4, InStepRegister
  <2>5. CASE ReadChunk(t)
    BY <2>5 DEF ReadChunk, InStep
  <2>6. CASE Return(t)
    BY <2>6 DEF Return, InStep, TypeInv, TypeOK
  <2> QED
    BY <1>1, <2>2, <2>3, <2>4, <2>5, <2>6 DEF Step
<1>2. ASSUME NEW t \in Threads, Begin(t) \/ Step(t)
      PROVE  StepInv'
  <2>1. \A u \in Threads : u # t => InStep(u)'
    BY <1>2, OthersSame, InStepStays DEF StepInv
  <2> QED
    BY <1>1, <1>2, <2>1 DEF StepInv
<1>3. CASE UNCHANGED vars
  BY <1>3 DEF vars, locals, StepInv, InStep, EndOf, Rem
<1> QED
  BY <1>2, <1>3 DEF Next

\* Every write is in step.
LEMMA StepHolds == ASSUME ~Spanning PROVE Spec => []StepInv
<1>1. Init => StepInv
  BY DEF Init, StepInv, InStep
<1>2. TypeInv /\ StepInv /\ [Next]_vars => StepInv'
  BY StepNext
<1> QED
  BY <1>1, <1>2, TypeHolds, PTL DEF Spec

\* A read that has come to its end has come there exactly.
LEMMA ReadExact ==
  ASSUME TypeInv, NEW t \in Threads, pc[t] = "loop", ~More(t), req[t].op = "read"
  PROVE  index[t] = req[t].size /\ current[t] = req[t].offset + req[t].size
<1>1. /\ req[t] \in Requests /\ index[t] <= req[t].size
      /\ current[t] = req[t].offset + index[t] /\ ~(current[t] < EndOf(t))
  BY DEF TypeInv, Place, More, EndOf
<1>2. /\ req[t].offset \in Nat /\ req[t].size \in Nat /\ index[t] \in Nat
      /\ EndOf(t) = req[t].offset + req[t].size
  BY <1>1, RequestIs DEF TypeInv, TypeOK, EndOf
<1> QED
  BY <1>1, <1>2

\* While no write starts within a block and goes on in the next, the loops of
\* bb_read and bb_write go through the whole buffer, whatever fails.
THEOREM LoopsAreExact == ASSUME ~Spanning PROVE Spec => []LoopExact
<1>1. TypeInv /\ StepInv => LoopExact
  <2>1. SUFFICES ASSUME TypeInv, StepInv, NEW t \in Threads, pc[t] = "loop", ~More(t)
                 PROVE  /\ index[t] = req[t].size
                        /\ req[t].op = "read" =>
                             current[t] = req[t].offset + req[t].size
    BY DEF LoopExact
  <2>2. req[t] \in Requests
    BY <2>1 DEF TypeInv, Place
  <2>3. CASE req[t].op = "read"
    BY <2>1, <2>3, ReadExact
  <2>4. CASE req[t].op = "write"
    <3>1. current[t] >= EndOf(t)
      BY <2>1, <2>2, RequestIs DEF More, EndOf, TypeInv, TypeOK
    <3> QED
      BY <2>1, <2>4, <3>1 DEF StepInv, InStep
  <2> QED
    BY <2>2, <2>3, <2>4, RequestIs
<1> QED
  BY <1>1, TypeHolds, StepHolds, PTL

-----------------------------------------------------------------------------
(* No byte is out of its place.                                             *)

\* The two parts of BytesInPlace: the file, and the buffer of a read.
FileInPlace ==
  \A i \in Indexes : \A p \in DOMAIN content[i] :
    content[i][p] # Garbage /\ Means(content[i][p], BlockSize * i + p - 1)

BufferInPlace(t) ==
  \A k \in DOMAIN buf[t] : Means(buf[t][k], req[t].offset + k - 1)

\* BytesInPlace is about the file and about the buffers.
LEMMA InPlaceParts ==
  BytesInPlace <=> FileInPlace /\ \A t \in Threads : BufferInPlace(t)
  BY DEF BytesInPlace, FileInPlace, BufferInPlace

\* What a write registers is at the offset it was written for: there the write
\* is as far in the file as in its buffer.
LEMMA FileStaysInPlace ==
  ASSUME TypeInv, StepInv, FileInPlace, [Next]_vars
  PROVE  FileInPlace'
<1>1. CASE content' = content
  BY <1>1 DEF FileInPlace
<1>2. ASSUME NEW t \in Threads, WriteRegister(t)
      PROVE  FileInPlace'
  <2>1. SUFFICES ASSUME NEW i \in Indexes, NEW p \in DOMAIN content'[i]
                 PROVE  /\ content'[i][p] # Garbage
                        /\ Means(content'[i][p], BlockSize * i + p - 1)
    BY DEF FileInPlace
  <2>2. CASE content'[i] = content[i]
    BY <2>1, <2>2 DEF FileInPlace
  <2>3. CASE content'[i] # content[i]
    <3>1. /\ i = BlockIndex(t) /\ p \in 1..Right(t)
          /\ \/ p <= Rem(t) /\ content'[i][p] = Zero
             \/ /\ p > Rem(t) /\ req[t].id \in 1..MaxWrites
                /\ content'[i][p] =
                     [write |-> req[t].id,
                      offset |-> req[t].offset + index[t] + (p - Rem(t)) - 1]
      BY <1>2, <2>1, <2>3, OwnBytes
    <3>2. CASE content'[i][p] = Zero
      BY <3>2 DEF Zero, Garbage, Means
    <3>3. CASE /\ req[t].id \in 1..MaxWrites
               /\ content'[i][p] =
                    [write |-> req[t].id,
                     offset |-> req[t].offset + index[t] + (p - Rem(t)) - 1]
      <4>1. content'[i][p] # Garbage
        BY <3>3 DEF Garbage
      <4>2. /\ pc[t] = "register" /\ req[t].op = "write" /\ current[t] < EndOf(t)
            /\ req[t] \in Requests
        BY <1>2 DEF WriteRegister, TypeInv, Place
      <4>3. current[t] = req[t].offset + index[t]
        BY <4>2 DEF StepInv, InStep
      <4>4. /\ current[t] = BlockSize * i + Rem(t) /\ Rem(t) \in Nat
            /\ BlockSize * i \in Nat /\ p \in Int
        BY <3>1, <4>2, RightIs
      <4>5. req[t].offset \in Nat /\ index[t] \in Nat
        BY <4>2, RequestIs DEF TypeInv, TypeOK
      <4>6. req[t].offset + index[t] + (p - Rem(t)) - 1 = BlockSize * i + p - 1
        BY <4>3, <4>4, <4>5
      <4>7. content'[i][p].offset = BlockSize * i + p - 1
        BY <3>3, <4>6
      <4> QED
        BY <4>1, <4>7 DEF Means
    <3> QED
      BY <3>1, <3>2, <3>3
  <2> QED
    BY <2>2, <2>3
<1> QED
  BY <1>1, <1>2, OnlyRegisters DEF Next, vars

\* What a read copies is at the offset it asks for.
LEMMA BufferReads ==
  ASSUME TypeInv, FileInPlace, NEW t \in Threads, BufferInPlace(t), ReadChunk(t)
  PROVE  BufferInPlace(t)'
<1>1. /\ pc[t] = "loop" /\ req[t].op = "read" /\ Rem(t) = 0
      /\ BlockIndex(t) \in Indexes
  BY ReadIs
<1>2. PICK bytes \in {<<>>, content[BlockIndex(t)]}, n \in 0..BlockSize :
        buf' = [buf EXCEPT ![t] = Copied(t, Padded(bytes), 0, n)]
  BY ReadIs
<1>3. bytes \in BlockType
  BY <1>1, NoBytes DEF TypeInv
<1> DEFINE new == Copied(t, Padded(bytes), 0, n)
<1>4. /\ DOMAIN new = DOMAIN buf[t]
      /\ \A k \in DOMAIN buf[t] :
           /\ k \in (index[t] + 1)..(index[t] + n) =>
                /\ k - index[t] \in DOMAIN bytes => new[k] = bytes[k - index[t]]
                /\ k - index[t] \notin DOMAIN bytes => new[k] = Zero
           /\ k \notin (index[t] + 1)..(index[t] + n) => new[k] = buf[t][k]
  BY <1>1, <1>3, CopiedIs
<1> HIDE DEF new
<1>5. buf'[t] = new /\ req' = req
  BY <1>2 DEF ReadChunk, new, TypeInv
<1>6. SUFFICES ASSUME NEW k \in DOMAIN buf[t]
               PROVE  Means(new[k], req[t].offset + k - 1)
  BY <1>4, <1>5 DEF BufferInPlace
<1>7. CASE new[k] = buf[t][k]
  BY <1>6, <1>7 DEF BufferInPlace
<1>8. CASE new[k] = Zero
  BY <1>8 DEF Means
<1>9. CASE k - index[t] \in DOMAIN bytes /\ new[k] = bytes[k - index[t]]
  <2>1. bytes = content[BlockIndex(t)]
    BY <1>9
  <2>2. Means(new[k], BlockSize * BlockIndex(t) + (k - index[t]) - 1)
    BY <1>1, <1>9, <2>1 DEF FileInPlace
  <2>3. /\ req[t] \in Requests /\ current[t] = req[t].offset + index[t]
    BY <1>1 DEF TypeInv, Place
  <2>4. /\ current[t] = BlockSize * BlockIndex(t) + Rem(t)
        /\ BlockSize * BlockIndex(t) \in Nat
    BY <1>1, RightIs DEF ReadChunk, More, EndOf
  <2>5. req[t].offset \in Nat /\ index[t] \in Nat
    BY <2>3, RequestIs DEF TypeInv, TypeOK
  <2>6. k \in Int
    <3>1. DOMAIN buf[t] = 1..req[t].size
      BY <1>1 DEF TypeInv, Place
    <3> QED
      BY <3>1
  <2>7. BlockSize * BlockIndex(t) + (k - index[t]) - 1 = req[t].offset + k - 1
    <3> DEFINE p == BlockSize * BlockIndex(t)
               i == index[t]
               o == req[t].offset
    <3>1. p = o + i
      BY <1>1, <2>3, <2>4
    <3>2. p \in Nat /\ i \in Nat /\ o \in Nat
      BY <2>4, <2>5
    <3> HIDE DEF p, i, o
    <3>3. p + (k - i) - 1 = o + k - 1
      BY <2>6, <3>1, <3>2
    <3> QED
      BY <3>3 DEF p, i, o
  <2> QED
    BY <2>2, <2>7
<1> QED
  BY <1>4, <1>7, <1>8, <1>9

\* A buffer that does not change is as it was.
LEMMA BufferStays ==
  ASSUME NEW u \in Threads, buf'[u] = buf[u], req'[u] = req[u], BufferInPlace(u)
  PROVE  BufferInPlace(u)'
  BY DEF BufferInPlace

\* Every step keeps the bytes of the buffers in place.
LEMMA BufferNext ==
  ASSUME TypeInv, FileInPlace, \A t \in Threads : BufferInPlace(t), [Next]_vars
  PROVE  \A t \in Threads : BufferInPlace(t)'
<1>1. ASSUME NEW t \in Threads, Begin(t) \/ Step(t)
      PROVE  BufferInPlace(t)'
  <2>1. CASE Begin(t)
    <3>1. CASE buf' = buf
      <4>1. buf[t] = <<>>
        BY <2>1 DEF Begin, TypeInv, Place
      <4> QED
        BY <3>1, <4>1 DEF BufferInPlace
    <3>2. ASSUME NEW n, buf' = [buf EXCEPT ![t] = [k \in 1..n |-> Garbage]]
          PROVE  BufferInPlace(t)'
      BY <3>2 DEF BufferInPlace, Means, TypeInv
    <3> QED
      BY <2>1, <3>1, <3>2 DEF Begin
  <2>2. CASE WriteRead(t)
    BY <2>2, BufferStays DEF WriteRead
  <2>3. CASE WriteRegister(t)
    BY <2>3, BufferStays DEF WriteRegister
  <2>4. CASE ReadChunk(t)
    BY <2>4, BufferReads
  <2>5. CASE Return(t)
    BY <2>5 DEF Return, TypeInv, BufferInPlace
  <2> QED
    BY <1>1, <2>1, <2>2, <2>3, <2>4, <2>5 DEF Step
<1>2. ASSUME NEW t \in Threads, Begin(t) \/ Step(t), NEW u \in Threads
      PROVE  BufferInPlace(u)'
  <2>1. CASE u # t
    BY <1>2, <2>1, OthersSame, BufferStays DEF Same
  <2> QED
    BY <1>1, <1>2, <2>1
<1>3. CASE UNCHANGED vars
  BY <1>3, BufferStays DEF vars, locals
<1> QED
  BY <1>2, <1>3 DEF Next

\* While no write starts within a block and goes on in the next, no byte is
\* stored, or read, at another offset than the one it was written for, whatever
\* requests come in between and whatever fails.
THEOREM BytesAreInPlace == ASSUME ~Spanning PROVE Spec => []BytesInPlace
<1>1. Init => BytesInPlace
  BY DEF Init, BytesInPlace
<1>2. TypeInv /\ StepInv /\ BytesInPlace /\ [Next]_vars => BytesInPlace'
  <2>1. SUFFICES ASSUME TypeInv, StepInv, BytesInPlace, [Next]_vars
                 PROVE  BytesInPlace'
    OBVIOUS
  <2>2. FileInPlace /\ \A t \in Threads : BufferInPlace(t)
    BY <2>1, InPlaceParts
  <2>3. FileInPlace' /\ \A t \in Threads : BufferInPlace(t)'
    BY <2>1, <2>2, FileStaysInPlace, BufferNext
  <2> QED
    BY <2>3 DEF BytesInPlace, FileInPlace, BufferInPlace
<1> QED
  BY <1>1, <1>2, TypeHolds, StepHolds, PTL DEF Spec

-----------------------------------------------------------------------------
(* A read returns what was there.                                           *)

\* A read whose thread does not move has seen what it had.
LEMMA SeenStays ==
  ASSUME TypeInv, NEW u \in Threads, Same(u), BlocksStay, Seen(u),
         faults' = 0 => faults = 0
  PROVE  Seen(u)'
<1>1. CASE pc[u] = "idle"
  BY <1>1 DEF Seen, Same
<1>2. CASE pc[u] # "idle"
  <2>1. \A i \in Indexes : start[u][i] # <<>> => content'[i] = start[u][i]
    BY <1>2 DEF Seen, BlocksStay
  <2> QED
    BY <1>2, <2>1 DEF Seen, Same
<1> QED
  BY <1>1, <1>2

\* Faults are counted, and no count is given back.
LEMMA FaultsGrow ==
  ASSUME TypeInv, [Next]_vars
  PROVE  (faults' = 0 => faults = 0) /\ (faults' = 0 => faults' = faults)
<1>1. faults \in Nat
  BY BoundsAssumption DEF TypeInv, TypeOK
<1>2. faults' = faults \/ faults' = faults + 1
  BY DEF Next, Step, Begin, WriteRead, WriteRegister, ReadChunk, Return, Fault,
         vars
<1> QED
  BY <1>1, <1>2

\* A block stays where it is.
LEMMA BlocksStayNext ==
  ASSUME TypeInv, NEW t \in Threads, Begin(t) \/ Step(t)
  PROVE  BlocksStay
<1>1. CASE WriteRegister(t)
  BY <1>1, RegisterIs
<1>2. CASE ~WriteRegister(t)
  BY <1>2, OnlyRegisters DEF BlocksStay
<1> QED
  BY <1>1, <1>2

\* The next block that a read copies has the bytes that it had at the start.
LEMMA SeenReads ==
  ASSUME TypeInv, NEW t \in Threads, Seen(t), ReadChunk(t)
  PROVE  Seen(t)'
<1>1. /\ pc[t] = "loop" /\ req[t].op = "read" /\ Rem(t) = 0
      /\ index' = [index EXCEPT ![t] = @ + BlockSize]
      /\ index[t] + BlockSize <= req[t].size /\ BlockIndex(t) \in Indexes
  BY ReadIs
<1>2. PICK bytes \in {<<>>, content[BlockIndex(t)]}, n \in 0..BlockSize :
        /\ buf' = [buf EXCEPT ![t] = Copied(t, Padded(bytes), 0, n)]
        /\ faults' = faults /\ content[BlockIndex(t)] # <<>> =>
             bytes = content[BlockIndex(t)] /\ n = Len(bytes)
  BY ReadIs
<1>3. bytes \in BlockType /\ content[BlockIndex(t)] \in BlockType
  BY <1>1, NoBytes DEF TypeInv
<1> DEFINE new == Copied(t, Padded(bytes), 0, n)
<1>4. /\ \A k \in DOMAIN buf[t] :
           /\ k \in (index[t] + 1)..(index[t] + n) =>
                (k - index[t] \in DOMAIN bytes => new[k] = bytes[k - index[t]])
           /\ k \notin (index[t] + 1)..(index[t] + n) => new[k] = buf[t][k]
  BY <1>1, <1>3, CopiedIs
<1> HIDE DEF new
<1>5. buf'[t] = new /\ UNCHANGED <<content, pc, req, start>>
  BY <1>2 DEF ReadChunk, new, TypeInv
<1>6. /\ index[t] \in Nat /\ BlockSize \in Nat \ {0}
      /\ index'[t] = index[t] + BlockSize
  BY <1>1, SizeAssumption DEF TypeInv, TypeOK
<1>7. /\ req[t] \in Requests /\ current[t] = req[t].offset + index[t]
      /\ DOMAIN buf[t] = 1..req[t].size
  BY <1>1 DEF TypeInv, Place
<1>8. /\ current[t] = BlockSize * BlockIndex(t) + Rem(t)
      /\ BlockSize * BlockIndex(t) \in Nat /\ BlockIndex(t) \in Nat
  BY <1>1, RightIs DEF ReadChunk, More, EndOf, Indexes
<1>9. req[t].offset \in Nat /\ req[t].size \in Nat
  BY <1>7, RequestIs
<1>10. faults' = 0 => faults' = faults /\ faults = 0
  <2>1. Next
    BY DEF Next, Step
  <2> QED
    BY <2>1, FaultsGrow
<1>11. ASSUME faults' = 0, NEW k \in 1..index'[t],
              ((req[t].offset + k - 1) % BlockSize) + 1
                \in DOMAIN start[t][(req[t].offset + k - 1) \div BlockSize]
       PROVE  buf'[t][k] = start[t][(req[t].offset + k - 1) \div BlockSize]
                             [((req[t].offset + k - 1) % BlockSize) + 1]
  <2>1. k \in 1..(index[t] + BlockSize) /\ k \in DOMAIN buf[t] /\ k \in Nat
    BY <1>1, <1>6, <1>7, <1>9, <1>11
  <2>2. CASE k <= index[t]
    <3>1. k \notin (index[t] + 1)..(index[t] + n) /\ k \in 1..index[t]
      BY <1>6, <2>1, <2>2
    <3>2. new[k] = buf[t][k]
      BY <1>4, <2>1, <3>1
    <3> QED
      BY <1>1, <1>5, <1>10, <1>11, <3>1, <3>2 DEF Seen
  <2>3. CASE k > index[t]
    <3> DEFINE r == k - index[t] - 1
    <3>1. r \in 0..(BlockSize - 1)
      BY <1>6, <2>1, <2>3
    <3>2. req[t].offset + k - 1 = BlockSize * BlockIndex(t) + r
      BY <1>1, <1>6, <1>7, <1>8, <1>9, <2>1
    <3>3. /\ (req[t].offset + k - 1) \div BlockSize = BlockIndex(t)
          /\ (req[t].offset + k - 1) % BlockSize = r
      BY <1>8, <3>1, <3>2, DivModIs
    <3>4. ((req[t].offset + k - 1) % BlockSize) + 1 = k - index[t]
      BY <1>6, <2>1, <3>3
    <3> DEFINE old == start[t][BlockIndex(t)]
    <3>5. k - index[t] \in DOMAIN old
      BY <1>11, <3>3, <3>4
    <3>6. content[BlockIndex(t)] = old /\ old # <<>>
      BY <1>1, <3>5 DEF Seen
    <3>7. bytes = old /\ n = Len(bytes)
      BY <1>2, <1>10, <1>11, <3>6
    <3>8. k - index[t] \in 1..n
      BY <1>3, <3>5, <3>7, BlocksAreSeqs
    <3>9. k \in (index[t] + 1)..(index[t] + n)
      BY <1>6, <2>1, <3>8
    <3>10. new[k] = old[k - index[t]]
      BY <1>4, <2>1, <3>5, <3>7, <3>9
    <3> QED
      BY <1>5, <3>3, <3>4, <3>10
  <2> QED
    BY <1>6, <2>1, <2>2, <2>3
<1> QED
  BY <1>1, <1>5, <1>11 DEF Seen

\* Every step keeps what the reads have seen.
LEMMA SeenNext ==
  ASSUME TypeInv, SeenInv, [Next]_vars
  PROVE  SeenInv'
<1>1. ASSUME NEW t \in Threads, Begin(t) \/ Step(t)
      PROVE  Seen(t)'
  <2>1. Seen(t) /\ BlocksStay /\ (faults' = 0 => faults = 0)
    BY <1>1, BlocksStayNext, FaultsGrow DEF SeenInv
  <2>2. CASE Begin(t)
    <3>1. /\ pc'[t] = "loop" /\ start'[t] = content /\ index'[t] = 0
          /\ content' = content
      BY <2>2 DEF Begin, TypeInv, TypeOK
    <3>2. content \in [Indexes -> BlockType]
      BY DEF TypeInv
    <3>3. 1..0 = {}
      OBVIOUS
    <3> QED
      BY <3>1, <3>2, <3>3 DEF Seen
  <2>3. CASE WriteRead(t)
    BY <2>1, <2>3 DEF WriteRead, Seen, TypeInv, TypeOK, More
  <2>4. CASE WriteRegister(t)
    <3>1. /\ pc[t] = "register" /\ req[t].op = "write" /\ UNCHANGED <<req, start>>
      BY <2>4 DEF WriteRegister, TypeInv, Place
    <3>2. \A i \in Indexes : start[t][i] # <<>> => content'[i] = start[t][i]
      BY <2>1, <3>1 DEF Seen, BlocksStay
    <3> QED
      BY <2>1, <3>1, <3>2 DEF Seen
  <2>5. CASE ReadChunk(t)
    BY <2>1, <2>5, SeenReads
  <2>6. CASE Return(t)
    BY <2>6 DEF Return, Seen, TypeInv, TypeOK
  <2> QED
    BY <1>1, <2>2, <2>3, <2>4, <2>5, <2>6 DEF Step
<1>2. ASSUME NEW t \in Threads, Begin(t) \/ Step(t), NEW u \in Threads, u # t
      PROVE  Seen(u)'
  BY <1>2, OthersSame, BlocksStayNext, FaultsGrow, SeenStays DEF SeenInv
<1>3. CASE UNCHANGED vars
  BY <1>3 DEF vars, locals, SeenInv, Seen
<1> QED
  BY <1>1, <1>2, <1>3 DEF Next, SeenInv

\* What reads have passed is what the file had, always.
LEMMA SeenHolds == Spec => []SeenInv
<1>1. Init => SeenInv
  BY DEF Init, SeenInv, Seen
<1>2. TypeInv /\ SeenInv /\ [Next]_vars => SeenInv'
  BY SeenNext
<1> QED
  BY <1>1, <1>2, TypeHolds, PTL DEF Spec

\* While no call fails, a read returns every byte that was in the file when it
\* began, whatever other threads write meanwhile; this holds of writes that span
\* blocks, too.
THEOREM ReadsSeeStart == Spec => []ReadSeesStart
<1>1. TypeInv /\ SeenInv => ReadSeesStart
  <2>1. SUFFICES ASSUME TypeInv, SeenInv, NEW t \in Threads, faults = 0,
                        pc[t] = "loop", ~More(t), req[t].op = "read",
                        NEW k \in DOMAIN buf[t]
                 PROVE  LET offset == req[t].offset + k - 1
                            bytes == start[t][offset \div BlockSize]
                            p == (offset % BlockSize) + 1
                        IN  p \in DOMAIN bytes => buf[t][k] = bytes[p]
    BY DEF ReadSeesStart
  <2>2. k \in 1..index[t]
    BY <2>1, ReadExact DEF TypeInv, Place
  <2> QED
    BY <2>1, <2>2 DEF SeenInv, Seen
<1> QED
  BY <1>1, TypeHolds, SeenHolds, PTL

-----------------------------------------------------------------------------
(* What a read leaves as it was.                                            *)

\* A read may have left the byte that its buffer has at k: it is past the end of
\* a block.
PastEnd(t, k) ==
  LET offset == req[t].offset + k - 1
      bytes == content[offset \div BlockSize]
  IN  bytes # <<>> /\ Len(bytes) <= offset % BlockSize

\* No block has a byte that nobody wrote.
NoGarbage == \A i \in Indexes : \A p \in DOMAIN content[i] : content[i][p] # Garbage

\* Whatever a read has passed it has filled, or left past the end of a block.
Filled(t) ==
  pc[t] # "idle" /\ req[t].op = "read" /\ faults = 0 =>
    \A k \in 1..index[t] : buf[t][k] = Garbage => PastEnd(t, k)

FilledInv == NoGarbage /\ \A t \in Threads : Filled(t)

\* What is registered is a zero or the byte of a write.
LEMMA NoGarbageNext ==
  ASSUME TypeInv, NoGarbage, [Next]_vars
  PROVE  NoGarbage'
<1>1. CASE content' = content
  BY <1>1 DEF NoGarbage
<1>2. ASSUME NEW t \in Threads, WriteRegister(t)
      PROVE  NoGarbage'
  <2>1. SUFFICES ASSUME NEW i \in Indexes, NEW p \in DOMAIN content'[i]
                 PROVE  content'[i][p] # Garbage
    BY DEF NoGarbage
  <2>2. CASE content'[i] = content[i]
    BY <2>1, <2>2 DEF NoGarbage
  <2>3. CASE content'[i] # content[i]
    <3>1. \/ content'[i][p] = Zero
          \/ /\ req[t].id \in 1..MaxWrites
             /\ content'[i][p] =
                  [write |-> req[t].id,
                   offset |-> req[t].offset + index[t] + (p - Rem(t)) - 1]
      BY <1>2, <2>1, <2>3, OwnBytes
    <3> QED
      BY <3>1 DEF Zero, Garbage
  <2> QED
    BY <2>2, <2>3
<1> QED
  BY <1>1, <1>2, OnlyRegisters DEF Next, vars

\* Where the bytes of a request are: their blocks are of the file.
LEMMA ByteIn ==
  ASSUME TypeInv, NEW t \in Threads, pc[t] # "idle", NEW k \in 1..req[t].size
  PROVE  /\ req[t].offset + k - 1 \in Nat
         /\ (req[t].offset + k - 1) \div BlockSize \in Indexes
<1>1. req[t] \in Requests /\ EndOf(t) <= FileEnd
  BY DEF TypeInv, Place
<1>2. /\ req[t].offset \in Nat /\ req[t].size \in Nat /\ FileEnd \in Nat
      /\ EndOf(t) = req[t].offset + req[t].size
  BY <1>1, RequestIs, SizeAssumption DEF EndOf, FileEnd
<1>3. req[t].offset + k - 1 \in Nat /\ req[t].offset + k - 1 < FileEnd
  BY <1>1, <1>2
<1> QED
  BY <1>3, InFile DEF FileEnd

\* A block that is there stays, and with it its end.
LEMMA PastEndStays ==
  ASSUME TypeInv, NEW t \in Threads, pc[t] # "idle", req'[t] = req[t], BlocksStay,
         NEW k \in 1..req[t].size, PastEnd(t, k)
  PROVE  PastEnd(t, k)'
<1> DEFINE i == (req[t].offset + k - 1) \div BlockSize
<1>1. i \in Indexes /\ content[i] # <<>>
  BY ByteIn DEF PastEnd
<1>2. content'[i] = content[i]
  BY <1>1 DEF BlocksStay
<1> QED
  BY <1>2 DEF PastEnd

\* A read whose thread does not move, and a write, have filled what they had.
LEMMA FilledStays ==
  ASSUME TypeInv, NEW u \in Threads, BlocksStay, Filled(u), faults' = 0 => faults = 0,
         pc'[u] # "idle" => pc[u] # "idle",
         req'[u] = req[u], req[u].op = "read" => index'[u] = index[u],
         buf'[u] = buf[u]
  PROVE  Filled(u)'
<1>1. SUFFICES ASSUME pc'[u] # "idle", req[u].op = "read", faults' = 0,
                      NEW k \in 1..index[u], buf[u][k] = Garbage
               PROVE  PastEnd(u, k)'
  BY DEF Filled
<1>2. pc[u] # "idle" /\ PastEnd(u, k)
  BY <1>1 DEF Filled
<1>3. index[u] \in Nat /\ index[u] <= req[u].size /\ req[u] \in Requests
  BY <1>2 DEF TypeInv, TypeOK, Place
<1>4. k \in 1..req[u].size
  BY <1>3, RequestIs
<1> QED
  BY <1>2, <1>4, PastEndStays

\* The next block that a read copies, or the hole that it fills.
LEMMA FilledReads ==
  ASSUME TypeInv, NoGarbage, NEW t \in Threads, Filled(t), ReadChunk(t)
  PROVE  Filled(t)'
<1>1. /\ pc[t] = "loop" /\ req[t].op = "read" /\ Rem(t) = 0
      /\ index' = [index EXCEPT ![t] = @ + BlockSize]
      /\ index[t] + BlockSize <= req[t].size /\ BlockIndex(t) \in Indexes
  BY ReadIs
<1>2. PICK bytes \in {<<>>, content[BlockIndex(t)]}, n \in 0..BlockSize :
        /\ buf' = [buf EXCEPT ![t] = Copied(t, Padded(bytes), 0, n)]
        /\ faults' = faults /\ content[BlockIndex(t)] # <<>> =>
             bytes = content[BlockIndex(t)] /\ n = Len(bytes)
        /\ faults' = faults /\ content[BlockIndex(t)] = <<>> => n = BlockSize
  BY ReadIs
<1>3. bytes \in BlockType /\ content[BlockIndex(t)] \in BlockType
  BY <1>1, NoBytes DEF TypeInv
<1> DEFINE new == Copied(t, Padded(bytes), 0, n)
<1>4. \A k \in DOMAIN buf[t] :
        /\ k \in (index[t] + 1)..(index[t] + n) =>
             /\ k - index[t] \in DOMAIN bytes => new[k] = bytes[k - index[t]]
             /\ k - index[t] \notin DOMAIN bytes => new[k] = Zero
        /\ k \notin (index[t] + 1)..(index[t] + n) => new[k] = buf[t][k]
  BY <1>1, <1>3, CopiedIs
<1> HIDE DEF new
<1>5. buf'[t] = new /\ UNCHANGED <<content, pc, req, start>>
  BY <1>2 DEF ReadChunk, new, TypeInv
<1>6. /\ index[t] \in Nat /\ BlockSize \in Nat \ {0}
      /\ index'[t] = index[t] + BlockSize
  BY <1>1, SizeAssumption DEF TypeInv, TypeOK
<1>7. /\ req[t] \in Requests /\ current[t] = req[t].offset + index[t]
      /\ DOMAIN buf[t] = 1..req[t].size
  BY <1>1 DEF TypeInv, Place
<1>8. /\ current[t] = BlockSize * BlockIndex(t) + Rem(t)
      /\ BlockSize * BlockIndex(t) \in Nat /\ BlockIndex(t) \in Nat
  BY <1>1, RightIs DEF ReadChunk, More, EndOf, Indexes
<1>9. req[t].offset \in Nat /\ req[t].size \in Nat
  BY <1>7, RequestIs
<1>10. faults' = 0 => faults' = faults /\ faults = 0
  <2>1. Next
    BY DEF Next, Step
  <2> QED
    BY <2>1, FaultsGrow
<1>11. \A p \in DOMAIN bytes : bytes[p] # Garbage
  <2>1. CASE bytes = <<>>
    BY <2>1
  <2>2. CASE bytes = content[BlockIndex(t)]
    BY <1>1, <2>2 DEF NoGarbage
  <2> QED
    BY <2>1, <2>2
<1>12. Zero # Garbage
  BY DEF Zero, Garbage
<1>13. ASSUME faults' = 0, NEW k \in 1..index'[t], new[k] = Garbage
       PROVE  PastEnd(t, k)
  <2>1. k \in 1..(index[t] + BlockSize) /\ k \in DOMAIN buf[t] /\ k \in Nat
    BY <1>1, <1>6, <1>7, <1>9, <1>13
  <2>2. k \notin (index[t] + 1)..(index[t] + n)
    BY <1>4, <1>11, <1>12, <1>13, <2>1
  <2>3. CASE k <= index[t]
    <3>1. k \in 1..index[t] /\ buf[t][k] = Garbage
      BY <1>4, <1>6, <1>13, <2>1, <2>2, <2>3
    <3> QED
      BY <1>1, <1>10, <1>13, <3>1 DEF Filled
  <2>4. CASE k > index[t]
    <3> DEFINE r == k - index[t] - 1
    <3>1. r \in 0..(BlockSize - 1) /\ r >= n
      BY <1>6, <2>1, <2>2, <2>4
    <3>2. req[t].offset + k - 1 = BlockSize * BlockIndex(t) + r
      BY <1>1, <1>6, <1>7, <1>8, <1>9, <2>1
    <3>3. /\ (req[t].offset + k - 1) \div BlockSize = BlockIndex(t)
          /\ (req[t].offset + k - 1) % BlockSize = r
      BY <1>8, <3>1, <3>2, DivModIs
    <3>4. n # BlockSize
      BY <1>6, <3>1
    <3>5. content[BlockIndex(t)] # <<>> /\ n = Len(content[BlockIndex(t)])
      BY <1>2, <1>10, <1>13, <3>4
    <3> QED
      BY <3>1, <3>3, <3>5 DEF PastEnd
  <2> QED
    BY <1>6, <2>1, <2>3, <2>4
<1>14. ASSUME NEW k PROVE PastEnd(t, k)' <=> PastEnd(t, k)
  BY <1>5 DEF PastEnd
<1> QED
  BY <1>5, <1>13, <1>14 DEF Filled

\* Every step keeps what the reads have filled.
LEMMA FilledNext ==
  ASSUME TypeInv, FilledInv, [Next]_vars
  PROVE  FilledInv'
<1>1. ASSUME NEW t \in Threads, Begin(t) \/ Step(t)
      PROVE  Filled(t)'
  <2>1. Filled(t) /\ BlocksStay /\ (faults' = 0 => faults = 0)
    BY <1>1, BlocksStayNext, FaultsGrow DEF FilledInv
  <2>2. CASE Begin(t)
    <3>1. index'[t] = 0
      BY <2>2 DEF Begin, TypeInv, TypeOK
    <3>2. 1..0 = {}
      OBVIOUS
    <3> QED
      BY <3>1, <3>2 DEF Filled
  <2>3. CASE WriteRead(t)
    <3>1. UNCHANGED <<req, index, buf>> /\ pc[t] # "idle"
      BY <2>3 DEF WriteRead, More
    <3> QED
      BY <2>1, <3>1, FilledStays
  <2>4. CASE WriteRegister(t)
    <3>1. UNCHANGED <<req, buf>> /\ pc[t] # "idle" /\ req[t].op = "write"
      BY <2>4 DEF WriteRegister, TypeInv, Place
    <3> QED
      BY <2>1, <3>1, FilledStays
  <2>5. CASE ReadChunk(t)
    BY <2>1, <2>5, FilledReads DEF FilledInv
  <2>6. CASE Return(t)
    BY <2>6 DEF Return, Filled, TypeInv, TypeOK
  <2> QED
    BY <1>1, <2>2, <2>3, <2>4, <2>5, <2>6 DEF Step
<1>2. ASSUME NEW t \in Threads, Begin(t) \/ Step(t), NEW u \in Threads, u # t
      PROVE  Filled(u)'
  <2>1. Same(u)
    BY <1>2, OthersSame
  <2>2. Filled(u) /\ BlocksStay /\ (faults' = 0 => faults = 0)
    BY <1>2, BlocksStayNext, FaultsGrow DEF FilledInv
  <2> QED
    BY <2>1, <2>2, FilledStays DEF Same
<1>3. CASE UNCHANGED vars
  BY <1>3 DEF vars, locals, FilledInv, Filled, PastEnd, NoGarbage
<1>4. NoGarbage'
  BY NoGarbageNext DEF FilledInv
<1> QED
  BY <1>1, <1>2, <1>3, <1>4 DEF Next, FilledInv

\* The bytes that bb_read leaves in the kernel's buffer as they were, while no
\* call fails, are past the end of a block that is there and is not full,
\* whatever other threads write meanwhile.
THEOREM ReadsLeaveEnds == Spec => []ReadLeavesEnds
<1>1. Init => FilledInv
  <2>1. \A i \in Indexes : Init => content[i] = <<>>
    BY DEF Init
  <2> QED
    BY <2>1 DEF Init, FilledInv, Filled, NoGarbage
<1>2. TypeInv /\ FilledInv /\ [Next]_vars => FilledInv'
  BY FilledNext
<1>3. TypeInv /\ FilledInv => ReadLeavesEnds
  <2>1. SUFFICES ASSUME TypeInv, FilledInv, NEW t \in Threads, faults = 0,
                        pc[t] = "loop", ~More(t), req[t].op = "read",
                        NEW k \in DOMAIN buf[t], buf[t][k] = Garbage
                 PROVE  PastEnd(t, k)
    BY DEF ReadLeavesEnds, PastEnd
  <2>2. k \in 1..index[t]
    BY <2>1, ReadExact DEF TypeInv, Place
  <2> QED
    BY <2>1, <2>2 DEF FilledInv, Filled
<1> QED
  BY <1>1, <1>2, <1>3, TypeHolds, PTL DEF Spec

\* Every block that another comes behind is full: only the last may be short.
OnlyLastShort ==
  \A i, j \in Indexes :
    i < j /\ content[i] # <<>> /\ content[j] # <<>> => Len(content[i]) = BlockSize

\* A byte before the end of the file is past the end of no block of such a file.
LEMMA NotPastEnd ==
  ASSUME TypeInv, OnlyLastShort, NEW t \in Threads, pc[t] # "idle", Seen(t),
         NEW k \in 1..req[t].size, BeforeEnd(t, req[t].offset + k - 1)
  PROVE  ~PastEnd(t, k)
<1> DEFINE offset == req[t].offset + k - 1
           i == offset \div BlockSize
<1>1. /\ offset \in Nat /\ i \in Indexes
  BY ByteIn
<1>2. PICK j \in Indexes : start[t][j] # <<>> /\ offset < BlockSize * j + Len(start[t][j])
  BY DEF BeforeEnd
<1>3. content[j] # <<>> /\ content[j] = start[t][j]
  BY <1>2 DEF Seen
<1>4. /\ content[i] \in BlockType /\ content[j] \in BlockType
      /\ Len(content[j]) \in Nat /\ Len(content[j]) <= BlockSize
  <2>1. content[i] \in BlockType /\ content[j] \in BlockType
    BY <1>1 DEF TypeInv
  <2> QED
    BY <2>1, BlocksAreSeqs
<1>5. /\ offset = BlockSize * i + (offset % BlockSize)
      /\ offset % BlockSize \in 0..(BlockSize - 1)
  BY <1>1, DivMod
<1> HIDE DEF offset, i
<1>6. i \in Nat /\ j \in Nat /\ BlockSize \in Nat \ {0}
  BY <1>1, SizeAssumption DEF Indexes
<1>7. i <= j
  <2>1. ASSUME j < i PROVE BlockSize * j + BlockSize <= BlockSize * i
    BY <1>6, <2>1
  <2> DEFINE n == Len(start[t][j])
  <2>2. n \in Nat /\ n <= BlockSize /\ offset < BlockSize * j + n
    BY <1>2, <1>3, <1>4 DEF offset
  <2>3. BlockSize * j \in Nat /\ BlockSize * i \in Nat
    BY <1>6
  <2>4. BlockSize * i <= offset /\ offset \in Nat
    BY <1>5, <2>3
  <2> HIDE DEF n
  <2>5. ASSUME j < i PROVE FALSE
    BY <1>6, <2>1, <2>2, <2>3, <2>4, <2>5
  <2> QED
    BY <1>6, <2>5
<1>8. SUFFICES ASSUME content[i] # <<>>, Len(content[i]) <= offset % BlockSize PROVE FALSE
  BY DEF PastEnd, offset, i
<1>9. CASE i = j
  <2>1. BlockSize * i \in Nat
    BY <1>6
  <2> QED
    BY <1>2, <1>3, <1>4, <1>5, <1>8, <1>9, <2>1
<1>10. CASE i # j
  <2>1. Len(content[i]) = BlockSize
    BY <1>1, <1>3, <1>6, <1>7, <1>8, <1>10 DEF OnlyLastShort
  <2> QED
    BY <1>5, <1>6, <1>8, <2>1
<1> QED
  BY <1>9, <1>10

\* A short block within the file is the one cause of what ReadFills denies: where
\* only the last block is short, a read leaves nothing of the kernel's buffer as it
\* was before the end that the file had when it began.
THEOREM OnlyShortLeaves == Spec => [](OnlyLastShort => ReadFills)
<1>1. TypeInv /\ SeenInv /\ ReadLeavesEnds /\ OnlyLastShort => ReadFills
  <2>1. SUFFICES ASSUME TypeInv, SeenInv, ReadLeavesEnds, OnlyLastShort, NEW t \in Threads,
                        faults = 0, pc[t] = "loop", ~More(t), req[t].op = "read",
                        NEW k \in DOMAIN buf[t], buf[t][k] = Garbage,
                        BeforeEnd(t, req[t].offset + k - 1)
                 PROVE  FALSE
    BY DEF ReadFills
  <2>2. PastEnd(t, k)
    BY <2>1 DEF ReadLeavesEnds, PastEnd
  <2>3. k \in 1..req[t].size
    BY <2>1 DEF TypeInv, Place
  <2> QED
    BY <2>1, <2>2, <2>3, NotPastEnd DEF SeenInv
<1> QED
  BY <1>1, TypeHolds, SeenHolds, ReadsLeaveEnds, PTL

=============================================================================
