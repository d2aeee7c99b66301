----------------------------- MODULE BlockStore -----------------------------
(***************************************************************************)
(* storage.c with the helpers of io.c and util.c: the files of .BLOCKS,    *)
(* one per hash, and the record locks by which calls on one block keep out *)
(* of each other's way.  Module CfsFile takes a call of the store as it is *)
(* under cfs_state_t.lock, where it is alone; here are the reference       *)
(* counters too, which have no callers and take no other lock than these.  *)
(*                                                                         *)
(* An inode outlives its name: a call that waits for the lock of a block   *)
(* that is unlinked meanwhile gets the lock of a file that has no name.    *)
(* A step is one system call, or several of them when the inode is locked  *)
(* or no other call can tell them apart.                                   *)
(***************************************************************************)
EXTENDS Integers, Sequences, FiniteSets

CONSTANTS
  Threads,     \* threads of the process that call the store
  Hashes,      \* hashes of blocks, as sequences of bytes
  HashLength,  \* HASH_LENGTH
  Size,        \* bytes of data of a block
  Serial,      \* are store_block, load_block, block_get_size called under a lock?
  MaxCalls,    \* bound on the calls of a behaviour
  MaxFaults,   \* bound on its failing system calls
  Process,     \* the owner of a lock that no descriptor owns
  Leaked,      \* the owner of one whose descriptor no call has any more
  None         \* no inode, no call, no answer

ASSUME HashesAssumption ==
  HashLength \in Nat \ {0} /\ \A h \in Hashes : h \in [1..HashLength -> Nat]
ASSUME SizeAssumption == Size \in Nat \ {0}
ASSUME SerialAssumption == Serial \in BOOLEAN
ASSUME ProcessAssumption ==
  Process \notin Threads /\ Leaked \notin Threads /\ Leaked # Process
ASSUME ThreadsAssumption == IsFiniteSet(Threads)
ASSUME BoundsAssumption == MaxCalls \in Nat /\ MaxFaults \in Nat

VARIABLES
  named,   \* named[n]: the inode of name n in .BLOCKS, or None
  inodes,  \* the inodes that were created, named or not
  locks,   \* the record locks, each with its owner
  pc,      \* pc[t]: where thread t is
  call,    \* call[t]: what it called, or None
  fd,      \* fd[t]: the inode its descriptor is open on, or None
  refs,    \* refs[t]: the counter it read
  ret,     \* ret[t]: the bytes its last load_block returned, or None
  held,    \* held[h]: references to block h that the callers have
  owed,    \* owed[i]: what the calls that wrote made of the counter of inode i
  calls, faults  \* how many there have been

locals == <<pc, call, fd, refs, ret>>
vars == <<named, inodes, locks, locals, held, owed, calls, faults>>

NoRefs == 0   \* the counter is not written; a counter of 0 never is
Ops == {"store", "load", "size", "inc", "dec", "refs"}
Requests == [op : Ops, hash : Hashes]

ASSUME NoneAssumption == None \notin Nat /\ None \notin Requests

\* hexify(hash, HASH_LENGTH, buff, HASH_LENGTH * 2): two digits are written
\* while they and the final zero fit, and so the last byte has none.
HexifyShort(hash) == SubSeq(hash, 1, (2 * HashLength - 3) \div 2)

Hexify(hash) == SubSeq(hash, 1, (2 * HashLength - 1) \div 2)

\* combine puts a name behind the path of .BLOCKS: a file is found by its name.
Names == {Hexify(h) : h \in Hashes}
Inode(h) == named[Hexify(h)]
BlockExists(h) == Inode(h) # None

\* s_read: what there is, at most count; the result of a file that is shorter is
\* short.
SRead(available, count) == IF available < count THEN available ELSE count

\* s_write: all is written and the size of the last chunk returned, or a write
\* fails after some.
SWriteOutcomes(count) ==
  [done : {count}, ret : 1..count] \cup [done : 0..(count - 1), ret : {-1}]

Init ==
  /\ named = [n \in Names |-> None]
  /\ inodes = <<>> /\ locks = {} /\ owed = <<>>
  /\ pc = [t \in Threads |-> "idle"]
  /\ call = [t \in Threads |-> None]
  /\ fd = [t \in Threads |-> None]
  /\ refs = [t \in Threads |-> NoRefs]
  /\ ret = [t \in Threads |-> None]
  /\ held = [h \in Hashes |-> 0]
  /\ calls = 0 /\ faults = 0

-----------------------------------------------------------------------------
(* Calls and their ends.                                                    *)

Active(op, h) == \E t \in Threads : call[t] = [op |-> op, hash |-> h]

\* cfs.c calls these under cfs_state_t.lock.
Locked(op) == op \in {"store", "load", "size"}

\* A reference is taken by one who has one, and given back by its owner.
Legal(op, h) ==
  /\ op = "inc" => held[h] > 0
  /\ op = "dec" => held[h] > IF Active("inc", h) THEN 1 ELSE 0
  /\ Serial /\ Locked(op) =>
       \A t \in Threads : call[t] # None => ~Locked(call[t].op)

Call(t) ==
  /\ pc[t] = "idle" /\ calls < MaxCalls
  /\ \E op \in Ops, h \in Hashes :
       /\ Legal(op, h)
       /\ call' = [call EXCEPT ![t] = [op |-> op, hash |-> h]]
       /\ pc' = [pc EXCEPT ![t] = IF op \in {"store", "load"} THEN "exists" ELSE "open"]
       /\ held' = IF op = "dec" THEN [held EXCEPT ![h] = @ - 1] ELSE held
  /\ ret' = [ret EXCEPT ![t] = None]
  /\ calls' = calls + 1
  /\ UNCHANGED <<named, inodes, locks, fd, refs, owed, faults>>

\* The call returns.
Return(t) ==
  /\ pc' = [pc EXCEPT ![t] = "idle"]
  /\ call' = [call EXCEPT ![t] = None]
  /\ fd' = [fd EXCEPT ![t] = None]
  /\ refs' = [refs EXCEPT ![t] = NoRefs]

\* Mutant: the counters are changed under read locks.
KindShared(op) == IF op = "store" THEN "write" ELSE "read"

Kind(op) == IF op \in {"store", "inc", "dec"} THEN "write" ELSE "read"

\* Mutants: the descriptor stays open; the locks are the process's, as those of
\* F_SETLKW, and go with any descriptor of the file.
CloseNot(t) == UNCHANGED locks
CloseAll(t) == locks' = {l \in locks : l.inode # fd[t]}

\* close releases the descriptor's lock, and with any descriptor of a file all
\* the locks of the process on it.  The unlocking before it changes nothing:
\* block_get_size and store_block pass F_ULOCK, lockf's 0, which fcntl takes as
\* F_RDLCK.
Close(t) ==
  locks' = {l \in locks : l.owner # t /\ ~(l.owner = Process /\ l.inode = fd[t])}

\* What a thread locked.
Own(t) == [owner |-> t, inode |-> fd[t], kind |-> Kind(call[t].op)]

\* The call returns without unlocking or closing: both stay till the process ends.
Leak(t) ==
  locks' = {l \in locks : l.owner # t} \cup {[Own(t) EXCEPT !.owner = Leaked]}

Goto(t, label) ==
  pc' = [pc EXCEPT ![t] = label] /\ UNCHANGED <<call, fd, refs>>

Of(t, op) == call[t] # None /\ call[t].op = op
H(t) == call[t].hash

\* file_exists: a block that has a file is taken as stored; one that has none
\* cannot be loaded.
Exists(t) ==
  /\ pc[t] = "exists"
  /\ IF BlockExists(H(t)) = Of(t, "load") THEN Goto(t, "open") ELSE Return(t)
  /\ UNCHANGED <<named, inodes, locks, ret, held, owed, calls, faults>>

\* open, with O_CREAT in store_block; elsewhere the file may be gone by now.
Open(t) ==
  /\ pc[t] = "open"
  /\ IF BlockExists(H(t))
       THEN /\ fd' = [fd EXCEPT ![t] = Inode(H(t))]
            /\ pc' = [pc EXCEPT ![t] = "lock"]
            /\ UNCHANGED <<named, inodes, owed, call, refs>>
     ELSE IF Of(t, "store")
       THEN /\ inodes' = Append(inodes, [refs |-> NoRefs, length |-> 0, hash |-> H(t)])
            /\ owed' = Append(owed, NoRefs)
            /\ named' = [named EXCEPT ![Hexify(H(t))] = Len(inodes) + 1]
            /\ fd' = [fd EXCEPT ![t] = Len(inodes) + 1]
            /\ pc' = [pc EXCEPT ![t] = "lock"]
            /\ UNCHANGED <<call, refs>>
     ELSE Return(t) /\ UNCHANGED <<named, inodes, owed>>
  /\ UNCHANGED <<locks, ret, held, calls, faults>>

-----------------------------------------------------------------------------
(* Locks.  All of them begin at byte 0, so any two on one inode overlap.    *)

Conflict(owner, inode, kind) ==
  \E l \in locks :
    l.inode = inode /\ l.owner # owner /\ "write" \in {l.kind, kind}

TakeLock(t, owner) ==
  LET kind == Kind(call[t].op) IN
  /\ pc[t] = "lock" /\ ~Conflict(owner, fd[t], kind)
  /\ locks' = locks \cup {[owner |-> owner, inode |-> fd[t], kind |-> kind]}
  /\ UNCHANGED <<named, inodes, ret, held, owed, calls, faults>>

\* fcntl with F_OFD_SETLKW waits, and the lock is the descriptor's.
Lock(t) ==
  /\ ~Of(t, "refs")
  /\ TakeLock(t, t)
  /\ Goto(t, CASE Of(t, "store") -> "refs"
               [] Of(t, "load") \/ Of(t, "size") -> "read"
               [] Of(t, "inc") \/ Of(t, "dec") -> "count")

\* block_get_refs locks with F_SETLKW, for the process, and ends there: it
\* unlocks nothing, closes nothing and returns no value.
GetRefs(t) == Of(t, "refs") /\ TakeLock(t, Process) /\ Return(t)

Fault == faults < MaxFaults /\ faults' = faults + 1

\* A call whose lock fails, or whose writing or reading, closes its descriptor and
\* returns -1, and so does a load_block or block_get_size whose unlocking fails.
\* (block_get_refs ends the process.)
Fails(t) ==
  /\ pc[t] \in {"lock", "refs", "read", "count", "update"} /\ ~Of(t, "refs")
  /\ Fault /\ Close(t) /\ Return(t)
  /\ UNCHANGED <<named, inodes, ret, held, owed, calls>>

-----------------------------------------------------------------------------
(* store_block, load_block, block_get_size.                                 *)

WriteRefs(t) ==
  /\ pc[t] = "refs"
  /\ inodes' = [inodes EXCEPT ![fd[t]].refs = 1]
  /\ owed' = [owed EXCEPT ![fd[t]] = 1]
  /\ Goto(t, "data")
  /\ UNCHANGED <<named, locks, ret, held, calls, faults>>

\* The block is stored when s_write returns its size and the unlocking succeeds.
WriteData(t) ==
  /\ pc[t] = "data"
  /\ \E out \in SWriteOutcomes(Size) \cup {[done |-> Size, ret |-> -1]} :
       /\ IF out.ret = Size THEN UNCHANGED faults ELSE Fault
       /\ inodes' = [inodes EXCEPT ![fd[t]].length = IF @ < out.done THEN out.done ELSE @]
       /\ held' = IF out.ret = Size THEN [held EXCEPT ![H(t)] = @ + 1] ELSE held
  /\ Close(t) /\ Return(t)
  /\ UNCHANGED <<named, ret, owed, calls>>

\* load_block returns what data there is, if there is a counter and any.
Read(t) ==
  /\ pc[t] = "read"
  /\ LET inode == inodes[fd[t]]
         n == IF inode.refs = NoRefs THEN 0 ELSE SRead(inode.length, Size)
     IN  ret' = IF Of(t, "load") /\ n > 0
                THEN [ret EXCEPT ![t] = [asked |-> H(t), hash |-> inode.hash, length |-> n]]
                ELSE ret
  /\ Close(t) /\ Return(t)
  /\ UNCHANGED <<named, inodes, held, owed, calls, faults>>

-----------------------------------------------------------------------------
(* block_inc_ref and block_dec_ref.                                         *)

ReadCount(t) ==
  /\ pc[t] = "count"
  /\ IF inodes[fd[t]].refs = NoRefs
       THEN Close(t) /\ Return(t)
       ELSE /\ refs' = [refs EXCEPT ![t] = inodes[fd[t]].refs]
            /\ pc' = [pc EXCEPT ![t] = "update"]
            /\ UNCHANGED <<locks, call, fd>>
  /\ UNCHANGED <<named, inodes, ret, held, owed, calls, faults>>

\* Where the unlocking fails the counter is up, and the caller hears of an error.
IncRef(t) ==
  /\ pc[t] = "update" /\ Of(t, "inc")
  /\ inodes' = [inodes EXCEPT ![fd[t]].refs = refs[t] + 1]
  /\ owed' = [owed EXCEPT ![fd[t]] = @ + 1]
  /\ \/ held' = [held EXCEPT ![H(t)] = @ + 1] /\ UNCHANGED faults
     \/ Fault /\ UNCHANGED held
  /\ Close(t) /\ Return(t)
  /\ UNCHANGED <<named, ret, calls>>

\* Mutants: a counter of 0 is written and the file stays; it goes with the last
\* but one.
LastNever(t) == FALSE
LastEarly(t) == refs[t] <= 2

Last(t) == refs[t] = 1

\* The last reference takes the file's name away, whatever inode has it now, and
\* leaves the counter as it is.  Where the unlocking fails, block_dec_ref does not
\* close.
DecRef(t) ==
  /\ pc[t] = "update" /\ Of(t, "dec")
  /\ IF Last(t)
       THEN named' = [named EXCEPT ![Hexify(H(t))] = None] /\ UNCHANGED <<inodes, owed>>
       ELSE /\ inodes' = [inodes EXCEPT ![fd[t]].refs = refs[t] - 1]
            /\ owed' = [owed EXCEPT ![fd[t]] = @ - 1]
            /\ UNCHANGED named
  /\ (Close(t) /\ UNCHANGED faults) \/ (Leak(t) /\ Fault)
  /\ Return(t)
  /\ UNCHANGED <<ret, held, calls>>

Step(t) ==
  \/ Exists(t) \/ Open(t) \/ Lock(t) \/ GetRefs(t)
  \/ WriteRefs(t) \/ WriteData(t) \/ Read(t)
  \/ ReadCount(t) \/ IncRef(t) \/ DecRef(t)

Next == \E t \in Threads : Call(t) \/ Step(t) \/ Fails(t)

Spec == Init /\ [][Next]_vars

\* A thread that can go on does.  That a waiting call gets a lock which others go
\* on taking is not assumed: the bound on the calls ends that.
FairSpec == Spec /\ \A t \in Threads : WF_vars(Step(t))

-----------------------------------------------------------------------------
(* Properties.                                                              *)

Labels == {"idle", "exists", "open", "lock", "refs", "data", "read", "count", "update"}

\* Every variable has its type; a file without a counter has no data, and who is
\* past its open has a descriptor.
TypeOK ==
  /\ inodes \in Seq([refs : Nat, length : 0..Size, hash : Hashes])
  /\ owed \in Seq(Nat) /\ Len(owed) = Len(inodes)
  /\ \A i \in DOMAIN inodes : inodes[i].refs = NoRefs => inodes[i].length = 0
  /\ named \in [Names -> {None} \cup DOMAIN inodes]
  /\ \A l \in locks :
       l.owner \in Threads \cup {Process, Leaked} /\ l.inode \in DOMAIN inodes
  /\ pc \in [Threads -> Labels]
  /\ call \in [Threads -> Requests \cup {None}]
  /\ fd \in [Threads -> {None} \cup DOMAIN inodes]
  /\ refs \in [Threads -> Nat]
  /\ \A t \in Threads :
       /\ call[t] = None <=> pc[t] = "idle"
       /\ fd[t] # None <=> pc[t] \notin {"idle", "exists", "open"}
  /\ held \in [Hashes -> Nat]
  /\ calls \in 0..MaxCalls /\ faults \in 0..MaxFaults

\* block_inc_ref and block_dec_ref read the counter and write it in two calls:
\* no change that another thread made in between is lost.
NoCountLost == \A i \in DOMAIN inodes : inodes[i].refs = owed[i]

\* Where a thread is past its waiting for a lock.
Inside == {"refs", "data", "read", "count", "update"}

\* A call has its record lock, on the file it opened, from its fcntl to its close
\* and no longer: no close of another descriptor of that file takes it away.  What
\* is left when a call has returned is a lock of block_get_refs, or the one of a
\* block_dec_ref whose unlocking failed.
LocksExact ==
  /\ {l \in locks : l.owner \in Threads} =
       {Own(t) : t \in {u \in Threads : pc[u] \in Inside}}
  /\ \A l \in locks : l.owner = Leaked => faults > 0 /\ l.kind = "write"

\* As long as somebody has a reference to a block, its file is there and its
\* counter covers all the references, though calls that were underway when the
\* last one went may still have the file open, and some of them fail.
HeldBlocksStay ==
  \A h \in Hashes : held[h] > 0 =>
    BlockExists(h) /\ inodes[Inode(h)].refs >= held[h]

\* Until a call fails, what load_block returns is the block it was asked for, all
\* of it, even while the block is being stored or taken away.
LoadsWhole ==
  \A t \in Threads : faults = 0 /\ ret[t] # None =>
    ret[t].hash = ret[t].asked /\ ret[t].length = Size

\* Every call that waits for a lock returns, unless a call that has returned left one
\* on the same file.
CallsEnd ==
  \A t \in Threads :
    pc[t] = "lock" ~>
      \/ pc[t] = "idle"
      \/ \E l \in locks : l.owner \notin Threads /\ l.inode = fd[t]

=============================================================================
