-------------------------- MODULE BlockStoreProofs --------------------------
(***************************************************************************)
(* Theorems about module BlockStore, for every set of hashes, every finite *)
(* number of threads and every number of calls and failures.  What two     *)
(* blocks must not share is a name: hexify drops the last byte of a hash,  *)
(* and the theorems about single blocks say so in their hypothesis.        *)
(***************************************************************************)
EXTENDS BlockStore, FiniteSetTheorems, TLAPS

\* No two of the hashes in use differ in the last byte only.
NamesDiffer == \A g, h \in Hashes : Hexify(g) = Hexify(h) => g = h

-----------------------------------------------------------------------------
(* The inductive invariants.                                                *)

InodeType == [refs : Nat, length : 0..Size, hash : Hashes]

\* What a thread called is what its place in the code belongs to; who is past
\* the writing or the reading of a counter left or found one.
PathInv ==
  \A t \in Threads :
    /\ pc[t] = "exists" => call[t].op \in {"store", "load"}
    /\ pc[t] \in {"refs", "data"} => call[t].op = "store"
    /\ pc[t] = "read" => call[t].op \in {"load", "size"}
    /\ pc[t] \in {"count", "update"} => call[t].op \in {"inc", "dec"}
    /\ pc[t] = "data" => inodes[fd[t]].refs # NoRefs
    /\ pc[t] = "update" => refs[t] # NoRefs

TypeInv == TypeOK /\ PathInv

\* Who is past its waiting has its lock, and the locks of two owners on one
\* inode are read locks: the counter a thread read is still the file's.
LockInv ==
  /\ \A t \in Threads : pc[t] \in Inside => Own(t) \in locks
  /\ \A l, m \in locks :
       l.inode = m.inode /\ l.owner # m.owner => l.kind # "write"
  /\ \A t \in Threads : pc[t] = "update" => refs[t] = inodes[fd[t]].refs

CountInv == TypeInv /\ LockInv /\ NoCountLost

\* A file has the name of the block it was made for, and so has what a thread
\* opened.
NamesInv ==
  /\ \A h \in Hashes :
       BlockExists(h) => Hexify(inodes[Inode(h)].hash) = Hexify(h)
  /\ \A t \in Threads :
       fd[t] # None => Hexify(inodes[fd[t]].hash) = Hexify(H(t))

\* References that are being given back are not the caller's any more, and still
\* in the counter.
Giving(h) == {t \in Threads : call[t] = [op |-> "dec", hash |-> h]}
Owing(h) == held[h] + Cardinality(Giving(h))

\* The counter of a block covers these references too.
RefInv ==
  \A h \in Hashes : Owing(h) > 0 =>
    BlockExists(h) /\ inodes[Inode(h)].refs >= Owing(h)

\* Calls that change a counter: one that takes a reference has one behind it,
\* and the file they opened still has its name.
CallerInv ==
  /\ \A h \in Hashes : Active("inc", h) => held[h] > 0
  /\ \A t \in Threads : (Of(t, "inc") \/ Of(t, "dec")) /\ fd[t] # None =>
       fd[t] = Inode(H(t))

\* One call at a time is made under cfs_state_t.lock.
SerialInv ==
  \A t, u \in Threads :
    call[t] # None /\ call[u] # None /\ Locked(call[t].op) /\ Locked(call[u].op)
      => t = u

\* A block that is being stored is nobody's yet, and its file is the store's.
StoreInv ==
  \A t \in Threads : Of(t, "store") /\ pc[t] # "exists" =>
    /\ Owing(H(t)) = 0
    /\ IF pc[t] = "open" THEN ~BlockExists(H(t)) ELSE Inode(H(t)) = fd[t]

HeldInv == CountInv /\ NamesInv /\ RefInv /\ CallerInv /\ SerialInv /\ StoreInv

\* Until a call fails, a file has all its data or none.
LengthInv ==
  faults = 0 => \A i \in DOMAIN inodes : inodes[i].length \in {0, Size}

LoadInv == TypeInv /\ NamesInv /\ LengthInv /\ LoadsWhole

-----------------------------------------------------------------------------
(* Types.                                                                   *)

\* A block has a name.
LEMMA NameOf == ASSUME NEW h \in Hashes PROVE Hexify(h) \in Names
BY DEF Names

\* The inodes and their counters are numbered from 1, and None is no inode.
LEMMA InodesTyped ==
  ASSUME TypeOK
  PROVE  /\ inodes \in Seq(InodeType) /\ owed \in Seq(Nat)
         /\ DOMAIN inodes = 1..Len(inodes) /\ DOMAIN owed = 1..Len(inodes)
         /\ Len(inodes) \in Nat /\ None \notin DOMAIN inodes
         /\ \A i \in DOMAIN inodes : inodes[i] \in InodeType /\ owed[i] \in Nat
<1>1. inodes \in Seq(InodeType) /\ owed \in Seq(Nat) /\ Len(owed) = Len(inodes)
  BY DEF TypeOK, InodeType
<1>2. /\ Len(inodes) \in Nat /\ DOMAIN inodes = 1..Len(inodes)
      /\ DOMAIN owed = 1..Len(inodes)
  BY <1>1
<1>3. \A i \in 1..Len(inodes) : inodes[i] \in InodeType /\ owed[i] \in Nat
  BY <1>1
<1> QED
  BY <1>1, <1>2, <1>3, NoneAssumption

\* What is known of a thread that is inside a call.
LEMMA CallTyped ==
  ASSUME TypeOK, NEW t \in Threads, pc[t] # "idle"
  PROVE  /\ call[t] \in Requests /\ call[t] # None
         /\ call[t].op \in Ops /\ H(t) \in Hashes /\ Hexify(H(t)) \in Names
         /\ Inode(H(t)) \in {None} \cup DOMAIN inodes
         /\ pc[t] \notin {"exists", "open"} => fd[t] \in DOMAIN inodes
<1>1. call[t] \in Requests /\ call[t] # None
  BY DEF TypeOK
<1>2. call[t].op \in Ops /\ H(t) \in Hashes
  BY <1>1 DEF Requests, H
<1>3. Hexify(H(t)) \in Names
  BY <1>2, NameOf
<1> QED
  BY <1>1, <1>2, <1>3 DEF TypeOK, Inode

\* A change of one element of a sequence.
LEMMA SetElement ==
  ASSUME NEW S, NEW s, s \in Seq(S), NEW i \in DOMAIN s, NEW v, v \in S,
         NEW r, r = [s EXCEPT ![i] = v]
  PROVE  /\ r \in Seq(S) /\ Len(r) = Len(s) /\ DOMAIN r = DOMAIN s
         /\ \A j \in DOMAIN s : r[j] = IF j = i THEN v ELSE s[j]
<1>1. s \in [1..Len(s) -> S] /\ Len(s) \in Nat /\ DOMAIN s = 1..Len(s)
  OBVIOUS
<1> QED
  BY <1>1

\* A new last element of a sequence.
LEMMA AddElement ==
  ASSUME NEW S, NEW s \in Seq(S), NEW v \in S
  PROVE  LET r == Append(s, v) IN
         /\ r \in Seq(S) /\ Len(r) = Len(s) + 1
         /\ DOMAIN r = DOMAIN s \cup {Len(s) + 1} /\ DOMAIN s = 1..Len(s)
         /\ r[Len(s) + 1] = v /\ \A j \in DOMAIN s : r[j] = s[j]
OBVIOUS

\* A return leaves the thread idle and nothing open.
LEMMA ReturnTypes ==
  ASSUME TypeInv, NEW t \in Threads, Return(t), pc[t] # "idle",
         inodes' \in Seq(InodeType), owed' \in Seq(Nat), Len(owed') = Len(inodes'),
         Len(inodes') = Len(inodes), DOMAIN inodes' = DOMAIN inodes,
         \A i \in DOMAIN inodes : inodes'[i].refs = NoRefs =>
           inodes'[i].length = 0 /\ inodes[i].refs = NoRefs,
         named' \in [Names -> {None} \cup DOMAIN inodes],
         \A l \in locks' : l.owner \in Threads \cup {Process, Leaked} /\ l.inode \in DOMAIN inodes,
         held' \in [Hashes -> Nat], calls' = calls, faults' \in 0..MaxFaults
  PROVE  TypeInv'
<1> USE DEF TypeInv, Return
<1>1. TypeOK'
  <2>1. /\ pc' \in [Threads -> Labels]
        /\ call' \in [Threads -> Requests \cup {None}]
        /\ fd' \in [Threads -> {None} \cup DOMAIN inodes']
        /\ refs' \in [Threads -> Nat]
    BY DEF TypeOK, Labels, NoRefs
  <2>2. \A u \in Threads :
          /\ call'[u] = None <=> pc'[u] = "idle"
          /\ fd'[u] # None <=> pc'[u] \notin {"idle", "exists", "open"}
    BY DEF TypeOK
  <2> QED
    BY <2>1, <2>2 DEF TypeOK, InodeType
<1>2. PathInv'
  <2>1. ASSUME NEW u \in Threads, u # t
        PROVE  pc'[u] = pc[u] /\ call'[u] = call[u] /\ fd'[u] = fd[u] /\ refs'[u] = refs[u]
    BY <2>1 DEF TypeOK
  <2>2. pc'[t] = "idle"
    BY DEF TypeOK
  <2>3. \A u \in Threads : pc[u] = "data" => fd[u] \in DOMAIN inodes
    BY DEF TypeOK
  <2>4. ASSUME NEW u \in Threads, u # t, pc[u] = "data"
        PROVE  inodes'[fd[u]].refs # NoRefs
    BY <2>3, <2>4 DEF PathInv
  <2>5. ASSUME NEW u \in Threads, u # t
        PROVE  /\ pc'[u] = "exists" => call'[u].op \in {"store", "load"}
               /\ pc'[u] \in {"refs", "data"} => call'[u].op = "store"
               /\ pc'[u] = "read" => call'[u].op \in {"load", "size"}
               /\ pc'[u] \in {"count", "update"} => call'[u].op \in {"inc", "dec"}
               /\ pc'[u] = "data" => inodes'[fd'[u]].refs # NoRefs
               /\ pc'[u] = "update" => refs'[u] # NoRefs
    <3> HIDE DEF TypeInv, Return
    <3>1. pc'[u] = pc[u] /\ call'[u] = call[u] /\ fd'[u] = fd[u] /\ refs'[u] = refs[u]
      BY <2>1, <2>5
    <3>2. PathInv
      BY DEF TypeInv
    <3> QED
      BY <2>4, <2>5, <3>1, <3>2 DEF PathInv
  <2> HIDE DEF TypeInv, Return
  <2> QED
    BY <2>2, <2>5 DEF PathInv
<1> QED
  BY <1>1, <1>2

\* A step of thread t leaves the places of the others alone.
Only(t) ==
  /\ pc' = [pc EXCEPT ![t] = pc'[t]] /\ call' = [call EXCEPT ![t] = call'[t]]
  /\ fd' = [fd EXCEPT ![t] = fd'[t]] /\ refs' = [refs EXCEPT ![t] = refs'[t]]

\* What a step of one thread leaves to another.
LEMMA OthersStay ==
  ASSUME TypeInv, NEW t \in Threads, Only(t), NEW u \in Threads, u # t
  PROVE  pc'[u] = pc[u] /\ call'[u] = call[u] /\ fd'[u] = fd[u] /\ refs'[u] = refs[u]
BY DEF TypeInv, TypeOK, Only

\* A call that is made, or goes on to its next place, with the inodes as they are.
LEMMA MoveTypes ==
  ASSUME TypeInv, NEW t \in Threads, Only(t),
         pc'[t] \in Labels \ {"idle", "data"}, call'[t] \in Requests,
         fd'[t] \in {None} \cup DOMAIN inodes, refs'[t] \in Nat,
         fd'[t] # None <=> pc'[t] \notin {"exists", "open"},
         pc'[t] = "exists" => call'[t].op \in {"store", "load"},
         pc'[t] = "refs" => call'[t].op = "store",
         pc'[t] = "read" => call'[t].op \in {"load", "size"},
         pc'[t] \in {"count", "update"} => call'[t].op \in {"inc", "dec"},
         pc'[t] = "update" => refs'[t] # NoRefs,
         UNCHANGED <<named, inodes, owed, faults>>,
         \A l \in locks' : l.owner \in Threads \cup {Process, Leaked} /\ l.inode \in DOMAIN inodes,
         held' \in [Hashes -> Nat], calls' \in 0..MaxCalls
  PROVE  TypeInv'
<1> USE DEF TypeInv
<1>1. TypeOK'
  <2>1. pc' \in [Threads -> Labels]
    BY DEF TypeOK, Only
  <2>2. call' \in [Threads -> Requests \cup {None}]
    BY DEF TypeOK, Only
  <2>3. fd' \in [Threads -> {None} \cup DOMAIN inodes']
    BY DEF TypeOK, Only
  <2>4. refs' \in [Threads -> Nat]
    BY DEF TypeOK, Only
  <2>5. \A u \in Threads :
          /\ call'[u] = None <=> pc'[u] = "idle"
          /\ fd'[u] # None <=> pc'[u] \notin {"idle", "exists", "open"}
    <3>1. call'[t] # None /\ pc'[t] \notin {"idle", "data"}
      BY NoneAssumption
    <3>2. ASSUME NEW u \in Threads, u # t
          PROVE  /\ call'[u] = None <=> pc'[u] = "idle"
                 /\ fd'[u] # None <=> pc'[u] \notin {"idle", "exists", "open"}
      BY <3>2, OthersStay DEF TypeOK
    <3> HIDE DEF TypeInv
    <3> QED
      BY <3>1, <3>2
  <2> QED
    BY <2>1, <2>2, <2>3, <2>4, <2>5 DEF TypeOK
<1>2. PathInv'
  BY OthersStay DEF PathInv, NoRefs
<1> QED
  BY <1>1, <1>2

\* A call starts with nothing opened.
LEMMA TypeCall == ASSUME TypeInv, NEW t \in Threads, Call(t) PROVE TypeInv'
<1>1. PICK op \in Ops, h \in Hashes :
        /\ Legal(op, h)
        /\ call' = [call EXCEPT ![t] = [op |-> op, hash |-> h]]
        /\ pc' = [pc EXCEPT ![t] = IF op \in {"store", "load"} THEN "exists" ELSE "open"]
        /\ held' = IF op = "dec" THEN [held EXCEPT ![h] = @ - 1] ELSE held
  BY DEF Call
<1>2. held' \in [Hashes -> Nat]
  <2>1. op = "dec" => held[h] > 0
    BY <1>1 DEF Legal, TypeInv, TypeOK
  <2> QED
    BY <1>1, <2>1 DEF TypeInv, TypeOK
<1>3. pc[t] = "idle" /\ UNCHANGED <<fd, refs, named, inodes, owed, faults, locks>>
  BY DEF Call
<1>4. /\ call'[t] = [op |-> op, hash |-> h] /\ call'[t] \in Requests /\ call'[t].op = op
      /\ pc'[t] = (IF op \in {"store", "load"} THEN "exists" ELSE "open")
      /\ fd'[t] = None /\ refs'[t] \in Nat
  BY <1>1, <1>3 DEF Requests, TypeInv, TypeOK
<1>5. Only(t)
  BY <1>1, <1>3, <1>4 DEF TypeInv, TypeOK, Only
<1>6. calls' \in 0..MaxCalls
  BY BoundsAssumption DEF Call, TypeInv, TypeOK
<1>7. \A l \in locks' : l.owner \in Threads \cup {Process, Leaked} /\ l.inode \in DOMAIN inodes
  BY <1>3 DEF TypeInv, TypeOK
<1> QED
  BY <1>2, <1>3, <1>4, <1>5, <1>6, <1>7, MoveTypes DEF Labels

\* Looking for a name changes no file.
LEMMA TypeExists == ASSUME TypeInv, NEW t \in Threads, Exists(t) PROVE TypeInv'
<1>1. pc[t] = "exists" /\ call[t] \in Requests /\ refs[t] \in Nat /\ fd[t] = None
  BY CallTyped DEF Exists, TypeInv, TypeOK
<1>2. UNCHANGED <<named, inodes, locks, owed, calls, faults, held>>
  BY DEF Exists
<1>3. CASE Goto(t, "open")
  <2>1. /\ Only(t) /\ pc'[t] = "open" /\ call'[t] = call[t]
        /\ fd'[t] = None /\ refs'[t] = refs[t]
    BY <1>1, <1>3 DEF Goto, Only, TypeInv, TypeOK
  <2>2. /\ \A l \in locks' : l.owner \in Threads \cup {Process, Leaked} /\ l.inode \in DOMAIN inodes
        /\ held' \in [Hashes -> Nat] /\ calls' \in 0..MaxCalls
    BY <1>2 DEF TypeInv, TypeOK
  <2> QED
    BY <1>1, <1>2, <2>1, <2>2, MoveTypes DEF Labels
<1>4. CASE Return(t)
  BY <1>1, <1>2, <1>4, ReturnTypes, InodesTyped DEF TypeInv, TypeOK
<1> QED
  BY <1>3, <1>4 DEF Exists

\* A file that a store creates: its inode is the last.
LEMMA CreateTypes ==
  ASSUME TypeInv, NEW t \in Threads, Open(t), ~BlockExists(H(t)), Of(t, "store")
  PROVE  TypeInv'
<1> DEFINE n == Len(inodes) + 1
           new == [refs |-> NoRefs, length |-> 0, hash |-> H(t)]
<1>1. /\ pc[t] = "open" /\ H(t) \in Hashes /\ Hexify(H(t)) \in Names
      /\ inodes' = Append(inodes, new) /\ owed' = Append(owed, NoRefs)
      /\ named' = [named EXCEPT ![Hexify(H(t))] = n]
      /\ fd' = [fd EXCEPT ![t] = n] /\ pc' = [pc EXCEPT ![t] = "lock"]
      /\ UNCHANGED <<call, refs, locks, held, calls, faults>>
  BY CallTyped DEF Open, TypeInv
<1>2. new \in InodeType
  BY <1>1, SizeAssumption DEF InodeType, NoRefs
<1>3. /\ inodes' \in Seq(InodeType) /\ Len(inodes') = n
      /\ DOMAIN inodes' = DOMAIN inodes \cup {n}
      /\ inodes'[n] = new /\ \A i \in DOMAIN inodes : inodes'[i] = inodes[i]
  BY <1>1, <1>2, InodesTyped, AddElement DEF TypeInv
<1>4. owed' \in Seq(Nat) /\ Len(owed') = Len(inodes')
  BY <1>1, <1>3, InodesTyped, AddElement DEF TypeInv, NoRefs, TypeOK
<1>5. None # n
  BY NoneAssumption, InodesTyped DEF TypeInv
<1>6. TypeOK'
  <2>1. \A i \in DOMAIN inodes' : inodes'[i].refs = NoRefs => inodes'[i].length = 0
    BY <1>3 DEF TypeInv, TypeOK
  <2>2. named' \in [Names -> {None} \cup DOMAIN inodes']
    BY <1>1, <1>3 DEF TypeInv, TypeOK
  <2>3. fd' \in [Threads -> {None} \cup DOMAIN inodes'] /\ pc' \in [Threads -> Labels]
    BY <1>1, <1>3 DEF TypeInv, TypeOK, Labels
  <2>4. \A u \in Threads :
          /\ call'[u] = None <=> pc'[u] = "idle"
          /\ fd'[u] # None <=> pc'[u] \notin {"idle", "exists", "open"}
    BY <1>1, <1>5 DEF TypeInv, TypeOK
  <2> QED
    BY <1>1, <1>3, <1>4, <2>1, <2>2, <2>3, <2>4 DEF TypeInv, TypeOK, InodeType
<1>7. PathInv'
  <2>1. ASSUME NEW u \in Threads, u # t
        PROVE  pc'[u] = pc[u] /\ call'[u] = call[u] /\ fd'[u] = fd[u] /\ refs'[u] = refs[u]
    BY <1>1, <2>1 DEF TypeInv, TypeOK
  <2>2. \A u \in Threads : pc[u] = "data" => fd[u] \in DOMAIN inodes
    BY DEF TypeInv, TypeOK
  <2>3. pc'[t] = "lock"
    BY <1>1 DEF TypeInv, TypeOK
  <2> QED
    BY <1>1, <1>3, <2>1, <2>2, <2>3 DEF TypeInv, PathInv
<1> QED
  BY <1>6, <1>7 DEF TypeInv

\* An opened file has a name, and a new one has no counter yet.
LEMMA TypeOpen == ASSUME TypeInv, NEW t \in Threads, Open(t) PROVE TypeInv'
<1>1. /\ pc[t] = "open" /\ call[t] \in Requests /\ refs[t] \in Nat
      /\ Inode(H(t)) \in {None} \cup DOMAIN inodes
  BY CallTyped DEF Open, TypeInv, TypeOK
<1>2. CASE BlockExists(H(t))
  <2>1. /\ fd' = [fd EXCEPT ![t] = Inode(H(t))] /\ pc' = [pc EXCEPT ![t] = "lock"]
        /\ UNCHANGED <<named, inodes, locks, owed, call, refs, held, calls, faults>>
        /\ Inode(H(t)) # None
    BY <1>2 DEF Open, BlockExists
  <2>2. /\ Only(t) /\ pc'[t] = "lock" /\ call'[t] = call[t]
        /\ fd'[t] = Inode(H(t)) /\ fd'[t] # None /\ refs'[t] = refs[t]
    BY <2>1 DEF Only, TypeInv, TypeOK
  <2>3. /\ \A l \in locks' : l.owner \in Threads \cup {Process, Leaked} /\ l.inode \in DOMAIN inodes
        /\ held' \in [Hashes -> Nat] /\ calls' \in 0..MaxCalls
    BY <2>1 DEF TypeInv, TypeOK
  <2> QED
    BY <1>1, <2>1, <2>2, <2>3, MoveTypes DEF Labels
<1>3. CASE ~BlockExists(H(t)) /\ Of(t, "store")
  BY <1>3, CreateTypes
<1>4. CASE ~BlockExists(H(t)) /\ ~Of(t, "store")
  <2>1. Return(t) /\ UNCHANGED <<named, inodes, locks, owed, held, calls, faults>>
    BY <1>4 DEF Open
  <2> QED
    BY <1>1, <2>1, ReturnTypes, InodesTyped DEF TypeInv, TypeOK
<1> QED
  BY <1>2, <1>3, <1>4

\* A lock is of a file that is open, or of the process.
LEMMA TypeLock == ASSUME TypeInv, NEW t \in Threads, Lock(t) PROVE TypeInv'
<1> DEFINE label == CASE Of(t, "store") -> "refs"
                      [] Of(t, "load") \/ Of(t, "size") -> "read"
                      [] Of(t, "inc") \/ Of(t, "dec") -> "count"
<1>1. /\ pc[t] = "lock" /\ ~Of(t, "refs")
      /\ locks' = locks \cup {[owner |-> t, inode |-> fd[t], kind |-> Kind(call[t].op)]}
      /\ UNCHANGED <<named, inodes, owed, held, calls, faults>>
      /\ pc' = [pc EXCEPT ![t] = label] /\ UNCHANGED <<call, fd, refs>>
  BY DEF Lock, TakeLock, Goto
<1>2. /\ call[t] \in Requests /\ refs[t] \in Nat /\ fd[t] \in DOMAIN inodes
      /\ call[t].op \in Ops \ {"refs"} /\ fd[t] # None
  BY <1>1, CallTyped, InodesTyped DEF TypeInv, TypeOK, Of
<1>3. \A l \in locks' : l.owner \in Threads \cup {Process, Leaked} /\ l.inode \in DOMAIN inodes
  <2>1. \A l \in locks : l.owner \in Threads \cup {Process, Leaked} /\ l.inode \in DOMAIN inodes
    BY DEF TypeInv, TypeOK
  <2> QED
    BY <1>1, <1>2, <2>1
<1>4. \/ label = "refs" /\ call[t].op = "store"
      \/ label = "read" /\ call[t].op \in {"load", "size"}
      \/ label = "count" /\ call[t].op \in {"inc", "dec"}
  BY <1>2, CallTyped, <1>1 DEF Of, Ops, TypeInv
<1> HIDE DEF label
<1>5. label \in Labels \ {"idle", "data"} /\ held' \in [Hashes -> Nat] /\ calls' \in 0..MaxCalls
  BY <1>1, <1>4 DEF Labels, TypeInv, TypeOK
<1>6. /\ Only(t) /\ pc'[t] = label
      /\ call'[t] = call[t] /\ fd'[t] = fd[t] /\ refs'[t] = refs[t]
  BY <1>1 DEF TypeInv, TypeOK, Only
<1> QED
  BY <1>1, <1>2, <1>3, <1>4, <1>5, <1>6, MoveTypes

\* Close takes locks away and adds none.
LEMMA CloseTypes ==
  ASSUME TypeInv, NEW t \in Threads, Close(t)
  PROVE  \A l \in locks' : l.owner \in Threads \cup {Process, Leaked} /\ l.inode \in DOMAIN inodes
BY DEF TypeInv, TypeOK, Close

\* Where the unlocking fails, a lock stays on the file that was opened.
LEMMA LeakTypes ==
  ASSUME TypeInv, NEW t \in Threads, Leak(t), fd[t] \in DOMAIN inodes
  PROVE  \A l \in locks' : l.owner \in Threads \cup {Process, Leaked} /\ l.inode \in DOMAIN inodes
<1>1. \A l \in locks : l.owner \in Threads \cup {Process, Leaked} /\ l.inode \in DOMAIN inodes
  BY DEF TypeInv, TypeOK
<1>2. /\ [Own(t) EXCEPT !.owner = Leaked].owner = Leaked
      /\ [Own(t) EXCEPT !.owner = Leaked].inode = fd[t]
  BY DEF Own
<1> QED
  BY <1>1, <1>2 DEF Leak

\* block_get_refs changes no file.
LEMMA TypeGetRefs == ASSUME TypeInv, NEW t \in Threads, GetRefs(t) PROVE TypeInv'
<1>1. /\ pc[t] = "lock" /\ Return(t)
      /\ locks' = locks \cup {[owner |-> Process, inode |-> fd[t], kind |-> Kind(call[t].op)]}
      /\ UNCHANGED <<named, inodes, owed, held, calls, faults>>
  BY DEF GetRefs, TakeLock
<1>2. fd[t] \in DOMAIN inodes
  BY <1>1, CallTyped DEF TypeInv
<1>3. \A l \in locks' : l.owner \in Threads \cup {Process, Leaked} /\ l.inode \in DOMAIN inodes
  <2>1. \A l \in locks : l.owner \in Threads \cup {Process, Leaked} /\ l.inode \in DOMAIN inodes
    BY DEF TypeInv, TypeOK
  <2> QED
    BY <1>1, <1>2, <2>1
<1> QED
  BY <1>1, <1>3, ReturnTypes, InodesTyped DEF TypeInv, TypeOK

\* A failing call ends, and closes what it opened.
LEMMA TypeFails == ASSUME TypeInv, NEW t \in Threads, Fails(t) PROVE TypeInv'
<1>1. /\ pc[t] # "idle" /\ Close(t) /\ Return(t) /\ faults' \in 0..MaxFaults
      /\ UNCHANGED <<named, inodes, owed, held, calls>>
  BY BoundsAssumption DEF Fails, Fault, TypeInv, TypeOK
<1> QED
  BY <1>1, CloseTypes, ReturnTypes, InodesTyped DEF TypeInv, TypeOK

\* load_block and block_get_size change no file.
LEMMA TypeRead == ASSUME TypeInv, NEW t \in Threads, Read(t) PROVE TypeInv'
<1>1. /\ pc[t] # "idle" /\ Close(t) /\ Return(t)
      /\ UNCHANGED <<named, inodes, owed, held, calls, faults>>
  BY DEF Read
<1> QED
  BY <1>1, CloseTypes, ReturnTypes, InodesTyped DEF TypeInv, TypeOK

\* The counter of inode i is made n, and so is what is owed.
SetCounter(i, n, m) ==
  inodes' = [inodes EXCEPT ![i].refs = n] /\ owed' = [owed EXCEPT ![i] = m]

\* A change of a counter to one that is written.
LEMMA CounterTypes ==
  ASSUME TypeInv, NEW i \in DOMAIN inodes, NEW n \in Nat, n # NoRefs, NEW m \in Nat,
         SetCounter(i, n, m)
  PROVE  /\ inodes' \in Seq(InodeType) /\ owed' \in Seq(Nat)
         /\ Len(owed') = Len(inodes') /\ Len(inodes') = Len(inodes)
         /\ DOMAIN inodes' = DOMAIN inodes
         /\ \A j \in DOMAIN inodes :
              /\ inodes'[j].refs = IF j = i THEN n ELSE inodes[j].refs
              /\ inodes'[j].length = inodes[j].length
              /\ inodes'[j].hash = inodes[j].hash
              /\ owed'[j] = IF j = i THEN m ELSE owed[j]
         /\ \A j \in DOMAIN inodes : inodes'[j].refs = NoRefs =>
              inodes'[j].length = 0 /\ inodes[j].refs = NoRefs
<1> DEFINE v == [inodes[i] EXCEPT !.refs = n]
<1>1. /\ inodes \in Seq(InodeType) /\ owed \in Seq(Nat) /\ DOMAIN owed = DOMAIN inodes
      /\ inodes[i] \in InodeType /\ Len(owed) = Len(inodes)
  BY InodesTyped DEF TypeInv, TypeOK
<1>2. /\ v \in InodeType /\ v.refs = n /\ v.length = inodes[i].length
      /\ v.hash = inodes[i].hash
  BY <1>1 DEF InodeType
<1>3. inodes' = [inodes EXCEPT ![i] = v] /\ owed' = [owed EXCEPT ![i] = m]
  BY DEF SetCounter
<1> HIDE DEF v
<1>4. /\ inodes' \in Seq(InodeType) /\ Len(inodes') = Len(inodes)
      /\ DOMAIN inodes' = DOMAIN inodes
      /\ \A j \in DOMAIN inodes : inodes'[j] = IF j = i THEN v ELSE inodes[j]
  BY <1>1, <1>2, <1>3, SetElement
<1>5. /\ owed' \in Seq(Nat) /\ Len(owed') = Len(owed)
      /\ \A j \in DOMAIN inodes : owed'[j] = IF j = i THEN m ELSE owed[j]
  BY <1>1, <1>3, SetElement
<1> QED
  BY <1>1, <1>2, <1>4, <1>5 DEF TypeInv, TypeOK

\* The first counter that store_block writes is 1.
LEMMA TypeWriteRefs == ASSUME TypeInv, NEW t \in Threads, WriteRefs(t) PROVE TypeInv'
<1>1. /\ pc[t] = "refs" /\ fd[t] \in DOMAIN inodes /\ call[t] \in Requests
      /\ call[t].op = "store" /\ refs[t] \in Nat
  BY CallTyped DEF WriteRefs, TypeInv, TypeOK, PathInv
<1>2. /\ inodes' = [inodes EXCEPT ![fd[t]].refs = 1] /\ owed' = [owed EXCEPT ![fd[t]] = 1]
      /\ pc' = [pc EXCEPT ![t] = "data"]
      /\ UNCHANGED <<call, fd, refs, named, locks, ret, held, calls, faults>>
  BY DEF WriteRefs, Goto
<1>3. /\ inodes' \in Seq(InodeType) /\ owed' \in Seq(Nat)
      /\ Len(owed') = Len(inodes') /\ DOMAIN inodes' = DOMAIN inodes
      /\ \A j \in DOMAIN inodes : inodes'[j].refs = NoRefs =>
           inodes'[j].length = 0 /\ inodes[j].refs = NoRefs
      /\ inodes'[fd[t]].refs = 1
  <2>1. 1 \in Nat /\ 1 # NoRefs /\ SetCounter(fd[t], 1, 1)
    BY <1>2 DEF NoRefs, SetCounter
  <2> QED
    BY <1>1, <2>1, CounterTypes
<1>4. TypeOK'
  <2>1. pc' \in [Threads -> Labels]
    BY <1>2 DEF TypeInv, TypeOK, Labels
  <2>2. \A u \in Threads :
          /\ call'[u] = None <=> pc'[u] = "idle"
          /\ fd'[u] # None <=> pc'[u] \notin {"idle", "exists", "open"}
    BY <1>1, <1>2 DEF TypeInv, TypeOK
  <2> QED
    BY <1>2, <1>3, <2>1, <2>2 DEF TypeInv, TypeOK, InodeType
<1>5. PathInv'
  <2>1. pc'[t] = "data" /\ \A u \in Threads \ {t} : pc'[u] = pc[u]
    BY <1>2 DEF TypeInv, TypeOK
  <2>2. \A u \in Threads : pc[u] = "data" => fd[u] \in DOMAIN inodes
    BY DEF TypeInv, TypeOK
  <2> QED
    BY <1>1, <1>2, <1>3, <2>1, <2>2 DEF TypeInv, PathInv, NoRefs
<1> QED
  BY <1>4, <1>5 DEF TypeInv

\* Data that was written: the file is as long as it was or as far as it came.
LEMMA DataTypes ==
  ASSUME TypeInv, NEW t \in Threads, WriteData(t)
  PROVE  /\ inodes' \in Seq(InodeType) /\ Len(inodes') = Len(inodes)
         /\ DOMAIN inodes' = DOMAIN inodes /\ fd[t] \in DOMAIN inodes
         /\ inodes[fd[t]].refs # NoRefs
         /\ \A j \in DOMAIN inodes :
              inodes'[j].refs = inodes[j].refs /\ inodes'[j].hash = inodes[j].hash
         /\ \E out \in SWriteOutcomes(Size) \cup {[done |-> Size, ret |-> -1]} :
              /\ IF out.ret = Size THEN UNCHANGED faults ELSE Fault
              /\ held' = IF out.ret = Size THEN [held EXCEPT ![H(t)] = @ + 1] ELSE held
              /\ \A j \in DOMAIN inodes : inodes'[j].length =
                   IF j = fd[t] /\ inodes[j].length < out.done
                     THEN out.done ELSE inodes[j].length
<1>1. /\ fd[t] \in DOMAIN inodes /\ inodes[fd[t]].refs # NoRefs
  BY CallTyped DEF WriteData, TypeInv, PathInv
<1>2. PICK out \in SWriteOutcomes(Size) \cup {[done |-> Size, ret |-> -1]} :
        /\ IF out.ret = Size THEN UNCHANGED faults ELSE Fault
        /\ inodes' = [inodes EXCEPT ![fd[t]].length = IF @ < out.done THEN out.done ELSE @]
        /\ held' = IF out.ret = Size THEN [held EXCEPT ![H(t)] = @ + 1] ELSE held
  BY DEF WriteData
<1> DEFINE i == fd[t]
           n == IF inodes[i].length < out.done THEN out.done ELSE inodes[i].length
           v == [inodes[i] EXCEPT !.length = n]
<1>3. inodes \in Seq(InodeType) /\ inodes[i] \in InodeType
  BY <1>1, InodesTyped DEF TypeInv
<1>4. out.done \in 0..Size
  BY SizeAssumption DEF SWriteOutcomes
<1>5. v \in InodeType /\ v.refs = inodes[i].refs /\ v.length = n /\ v.hash = inodes[i].hash
  BY <1>3, <1>4 DEF InodeType
<1>6. inodes' = [inodes EXCEPT ![i] = v]
  BY <1>2
<1> HIDE DEF v
<1>7. /\ inodes' \in Seq(InodeType) /\ Len(inodes') = Len(inodes)
      /\ DOMAIN inodes' = DOMAIN inodes
      /\ \A j \in DOMAIN inodes : inodes'[j] = IF j = i THEN v ELSE inodes[j]
  BY <1>1, <1>3, <1>5, <1>6, SetElement
<1>8. \A j \in DOMAIN inodes : inodes'[j].length =
         IF j = fd[t] /\ inodes[j].length < out.done THEN out.done ELSE inodes[j].length
  BY <1>5, <1>7
<1> QED
  BY <1>1, <1>2, <1>5, <1>7, <1>8

\* The data is written behind a counter that is there.
LEMMA TypeWriteData == ASSUME TypeInv, NEW t \in Threads, WriteData(t) PROVE TypeInv'
<1>1. /\ pc[t] = "data" /\ Close(t) /\ Return(t) /\ UNCHANGED <<named, owed, calls>>
  BY DEF WriteData
<1>2. /\ inodes' \in Seq(InodeType) /\ Len(inodes') = Len(inodes)
      /\ DOMAIN inodes' = DOMAIN inodes /\ inodes[fd[t]].refs # NoRefs
      /\ \A j \in DOMAIN inodes : inodes'[j].refs = inodes[j].refs
      /\ \A j \in DOMAIN inodes : j # fd[t] => inodes'[j].length = inodes[j].length
      /\ held' = held \/ held' = [held EXCEPT ![H(t)] = @ + 1]
      /\ faults' = faults \/ Fault
  BY DataTypes
<1>3. faults' \in 0..MaxFaults
  BY <1>2, BoundsAssumption DEF Fault, TypeInv, TypeOK
<1>4. held' \in [Hashes -> Nat]
  <2>1. H(t) \in Hashes /\ held \in [Hashes -> Nat]
    BY <1>1, CallTyped DEF TypeInv, TypeOK
  <2> QED
    BY <1>2, <2>1
<1>5. \A j \in DOMAIN inodes : inodes'[j].refs = NoRefs =>
        inodes'[j].length = 0 /\ inodes[j].refs = NoRefs
  BY <1>2 DEF TypeInv, TypeOK
<1> QED
  BY <1>1, <1>2, <1>3, <1>4, <1>5, CloseTypes, ReturnTypes, InodesTyped DEF TypeInv, TypeOK

\* A counter that is read is one that was written.
LEMMA TypeReadCount == ASSUME TypeInv, NEW t \in Threads, ReadCount(t) PROVE TypeInv'
<1>1. /\ pc[t] = "count" /\ call[t] \in Requests /\ call[t].op \in {"inc", "dec"}
      /\ fd[t] \in DOMAIN inodes /\ fd[t] # None /\ inodes[fd[t]].refs \in Nat
  BY CallTyped, InodesTyped DEF ReadCount, TypeInv, PathInv, InodeType
<1>2. UNCHANGED <<named, inodes, owed, held, calls, faults>>
  BY DEF ReadCount
<1>3. CASE inodes[fd[t]].refs = NoRefs
  <2>1. Close(t) /\ Return(t)
    BY <1>3 DEF ReadCount
  <2> QED
    BY <1>1, <1>2, <2>1, CloseTypes, ReturnTypes, InodesTyped DEF TypeInv, TypeOK
<1>4. CASE inodes[fd[t]].refs # NoRefs
  <2>1. /\ Only(t) /\ pc'[t] = "update" /\ refs'[t] = inodes[fd[t]].refs
        /\ call'[t] = call[t] /\ fd'[t] = fd[t] /\ UNCHANGED locks
    BY <1>4 DEF ReadCount, TypeInv, TypeOK, Only
  <2>2. /\ \A l \in locks' : l.owner \in Threads \cup {Process, Leaked} /\ l.inode \in DOMAIN inodes
        /\ held' \in [Hashes -> Nat] /\ calls' \in 0..MaxCalls
    BY <1>2, <2>1 DEF TypeInv, TypeOK
  <2> QED
    BY <1>1, <1>2, <1>4, <2>1, <2>2, MoveTypes DEF Labels
<1> QED
  BY <1>3, <1>4

\* A counter goes up by one.
LEMMA TypeIncRef == ASSUME TypeInv, NEW t \in Threads, IncRef(t) PROVE TypeInv'
<1>1. /\ pc[t] = "update" /\ fd[t] \in DOMAIN inodes /\ H(t) \in Hashes
      /\ refs[t] + 1 \in Nat /\ refs[t] + 1 # NoRefs /\ owed[fd[t]] + 1 \in Nat
  <2>1. pc[t] = "update"
    BY DEF IncRef
  <2>2. fd[t] \in DOMAIN inodes /\ H(t) \in Hashes /\ refs[t] \in Nat
    BY <2>1, CallTyped DEF TypeInv, TypeOK
  <2>3. owed[fd[t]] \in Nat
    BY <2>2, InodesTyped DEF TypeInv
  <2> QED
    BY <2>1, <2>2, <2>3 DEF NoRefs
<1>2. /\ SetCounter(fd[t], refs[t] + 1, owed[fd[t]] + 1) /\ Close(t) /\ Return(t)
      /\ UNCHANGED <<named, calls>>
  BY DEF IncRef, SetCounter
<1>3. held' \in [Hashes -> Nat] /\ faults' \in 0..MaxFaults
  <2>1. held \in [Hashes -> Nat] /\ faults \in 0..MaxFaults
    BY DEF TypeInv, TypeOK
  <2>2. \/ held' = [held EXCEPT ![H(t)] = @ + 1] /\ faults' = faults
        \/ held' = held /\ faults < MaxFaults /\ faults' = faults + 1
    BY DEF IncRef, Fault
  <2> QED
    BY <1>1, <2>1, <2>2, BoundsAssumption
<1>4. /\ inodes' \in Seq(InodeType) /\ owed' \in Seq(Nat)
      /\ Len(owed') = Len(inodes') /\ Len(inodes') = Len(inodes)
      /\ DOMAIN inodes' = DOMAIN inodes
      /\ \A j \in DOMAIN inodes : inodes'[j].refs = NoRefs =>
           inodes'[j].length = 0 /\ inodes[j].refs = NoRefs
  BY <1>1, <1>2, CounterTypes
<1> QED
  BY <1>1, <1>2, <1>3, <1>4, CloseTypes, ReturnTypes DEF TypeInv, TypeOK

\* A counter goes down by one, and not below 0: the lock has kept it.
LEMMA TypeDecRef == ASSUME TypeInv, NoCountLost, LockInv, NEW t \in Threads, DecRef(t) PROVE TypeInv'
<1>1. /\ pc[t] = "update" /\ fd[t] \in DOMAIN inodes /\ Hexify(H(t)) \in Names
      /\ Close(t) \/ Leak(t)
      /\ Return(t) /\ UNCHANGED <<held, calls>>
      /\ UNCHANGED faults \/ Fault
  BY CallTyped DEF DecRef, TypeInv
<1>4. faults' \in 0..MaxFaults
  <2>1. faults \in 0..MaxFaults
    BY DEF TypeInv, TypeOK
  <2>2. faults' = faults \/ (faults < MaxFaults /\ faults' = faults + 1)
    BY <1>1 DEF Fault
  <2> QED
    BY <2>1, <2>2, BoundsAssumption
<1>5. \A l \in locks' : l.owner \in Threads \cup {Process, Leaked} /\ l.inode \in DOMAIN inodes
  BY <1>1, CloseTypes, LeakTypes
<1>2. CASE Last(t)
  <2>1. /\ named' = [named EXCEPT ![Hexify(H(t))] = None] /\ UNCHANGED <<inodes, owed>>
    BY <1>2 DEF DecRef
  <2>2. named' \in [Names -> {None} \cup DOMAIN inodes]
    BY <1>1, <2>1 DEF TypeInv, TypeOK
  <2> QED
    BY <1>1, <1>4, <1>5, <2>1, <2>2, ReturnTypes, InodesTyped DEF TypeInv, TypeOK
<1>3. CASE ~Last(t)
  <2>1. /\ SetCounter(fd[t], refs[t] - 1, owed[fd[t]] - 1) /\ UNCHANGED named
    BY <1>3 DEF DecRef, SetCounter
  <2>2. refs[t] \in Nat /\ refs[t] # 0 /\ refs[t] # 1 /\ owed[fd[t]] = refs[t]
    BY <1>1, <1>3 DEF TypeInv, TypeOK, PathInv, NoRefs, Last, LockInv, NoCountLost
  <2>3. refs[t] - 1 \in Nat /\ refs[t] - 1 # NoRefs /\ owed[fd[t]] - 1 \in Nat
    BY <2>2 DEF NoRefs
  <2>4. /\ inodes' \in Seq(InodeType) /\ owed' \in Seq(Nat)
        /\ Len(owed') = Len(inodes') /\ Len(inodes') = Len(inodes)
        /\ DOMAIN inodes' = DOMAIN inodes
        /\ \A j \in DOMAIN inodes : inodes'[j].refs = NoRefs =>
             inodes'[j].length = 0 /\ inodes[j].refs = NoRefs
    BY <1>1, <2>1, <2>3, CounterTypes
  <2> QED
    BY <1>1, <1>4, <1>5, <2>1, <2>4, ReturnTypes DEF TypeInv, TypeOK
<1> QED
  BY <1>2, <1>3

-----------------------------------------------------------------------------
(* Locks and counters.                                                      *)

\* Two locks of different owners on one inode.
Shared(l, m) == l.inode = m.inode /\ l.owner # m.owner

\* Who changes a counter, or has read it to change it, is alone with the inode.
LEMMA Alone ==
  ASSUME CountInv, NEW t \in Threads, NEW u \in Threads, t # u,
         pc[t] \in {"refs", "data", "count", "update"}, pc[u] \in Inside
  PROVE  fd[t] # fd[u]
<1>1. Own(t) \in locks /\ Own(u) \in locks
  BY DEF CountInv, LockInv, Inside
<1>2. Own(t).kind = "write"
  BY DEF CountInv, TypeInv, PathInv, Own, Kind
<1>3. Own(t).owner = t /\ Own(u).owner = u /\ Own(t).inode = fd[t] /\ Own(u).inode = fd[u]
  BY DEF Own
<1> QED
  BY <1>1, <1>2, <1>3 DEF CountInv, LockInv

\* A return is a step of one thread, and it has no place inside a call then.
LEMMA ReturnOnly ==
  ASSUME TypeInv, NEW t \in Threads, Return(t)
  PROVE  Only(t) /\ pc'[t] = "idle" /\ call'[t] = None /\ fd'[t] = None
BY DEF Return, Only, TypeInv, TypeOK

\* A thread goes on to its next place.
LEMMA GotoOnly ==
  ASSUME TypeInv, NEW t \in Threads, NEW label, Goto(t, label)
  PROVE  Only(t) /\ pc'[t] = label
BY DEF Goto, Only, TypeInv, TypeOK

\* The locks that are not this thread's stay through a close.
LEMMA CloseKeeps ==
  ASSUME NEW t \in Threads, Close(t)
  PROVE  /\ locks' \subseteq locks
         /\ \A l \in locks : l.owner \notin {t, Process} => l \in locks'
BY DEF Close

\* The lock that a call leaves behind was its own, and conflicts with no other still.
LEMMA EndLocks ==
  ASSUME CountInv, NEW t \in Threads, \/ Close(t) \/ UNCHANGED locks
                                      \/ Leak(t) /\ pc[t] \in Inside
  PROVE  /\ \A l \in locks : l.owner \notin {t, Process} => l \in locks'
         /\ \A l, m \in locks' : Shared(l, m) => l.kind # "write"
<1>1. \A l, m \in locks : Shared(l, m) => l.kind # "write"
  BY DEF CountInv, LockInv, Shared
<1>2. CASE Close(t) \/ UNCHANGED locks
  BY <1>1, <1>2, CloseKeeps
<1>3. CASE Leak(t) /\ pc[t] \in Inside
  <2> DEFINE left == [Own(t) EXCEPT !.owner = Leaked]
  <2>1. /\ left.owner = Leaked /\ left.inode = Own(t).inode /\ left.kind = Own(t).kind
        /\ Own(t).owner = t
    BY DEF Own
  <2>2. Own(t) \in locks
    BY <1>3 DEF CountInv, LockInv
  <2>3. locks' = {l \in locks : l.owner # t} \cup {left}
    BY <1>3 DEF Leak
  <2> HIDE DEF left
  <2>4. \A l \in locks : l.owner # t => (l.inode = left.inode => Shared(l, Own(t)) /\ Shared(Own(t), l))
    BY <2>1 DEF Shared
  <2>5. \A l \in locks : l.owner # t /\ l.inode = left.inode => l.kind # "write" /\ left.kind # "write"
    BY <1>1, <2>1, <2>2, <2>4
  <2> QED
    BY <1>1, <2>1, <2>3, <2>5 DEF Shared
<1> QED
  BY <1>2, <1>3

\* A step of one thread that leaves the other owners' locks and changes no counter
\* but that of an inode it has for itself.
LEMMA LocksKept ==
  ASSUME CountInv, NEW t \in Threads, Only(t),
         \A l \in locks : l.owner \notin {t, Process} => l \in locks',
         \A l, m \in locks' : Shared(l, m) => l.kind # "write",
         \A i \in DOMAIN inodes : inodes'[i].refs # inodes[i].refs =>
           i = fd[t] /\ pc[t] \in {"refs", "update"},
         pc'[t] \in Inside => Own(t)' \in locks',
         pc'[t] = "update" => refs'[t] = inodes'[fd'[t]].refs
  PROVE  LockInv'
<1>1. ASSUME NEW u \in Threads, u # t
      PROVE  pc'[u] = pc[u] /\ Own(u)' = Own(u) /\ fd'[u] = fd[u] /\ refs'[u] = refs[u]
  BY <1>1, OthersStay DEF Own, CountInv
<1>2. ASSUME NEW u \in Threads, pc'[u] \in Inside PROVE Own(u)' \in locks'
  <2>1. CASE u # t
    <3>1. Own(u) \in locks
      BY <1>1, <1>2, <2>1 DEF CountInv, LockInv
    <3>2. Own(u).owner = u /\ u # Process
      BY ProcessAssumption DEF Own
    <3> QED
      BY <1>1, <2>1, <3>1, <3>2
  <2> QED
    BY <1>2, <2>1
<1>3. ASSUME NEW u \in Threads, pc'[u] = "update" PROVE refs'[u] = inodes'[fd'[u]].refs
  <2>1. CASE u # t
    <3>1. pc[u] = "update" /\ refs[u] = inodes[fd[u]].refs
      BY <1>1, <1>3, <2>1 DEF CountInv, LockInv
    <3>2. fd[u] \in DOMAIN inodes
      BY <3>1, CallTyped DEF CountInv, TypeInv
    <3>3. pc[t] \in {"refs", "update"} => fd[t] # fd[u]
      BY <2>1, <3>1, Alone DEF Inside
    <3> QED
      BY <1>1, <2>1, <3>1, <3>2, <3>3
  <2> QED
    BY <1>3, <2>1
<1> QED
  BY <1>2, <1>3 DEF LockInv, Shared

\* A return that leaves the counters as they are, and the locks of the others.
LEMMA LeftCount ==
  ASSUME CountInv, NEW t \in Threads, Return(t),
         \A l \in locks : l.owner \notin {t, Process} => l \in locks',
         \A l, m \in locks' : Shared(l, m) => l.kind # "write",
         DOMAIN inodes' = DOMAIN inodes, UNCHANGED owed,
         \A i \in DOMAIN inodes : inodes'[i].refs = inodes[i].refs
  PROVE  LockInv' /\ NoCountLost'
<1>1. Only(t) /\ pc'[t] = "idle"
  BY ReturnOnly DEF CountInv
<1>2. LockInv'
  BY <1>1, LocksKept DEF Inside
<1>3. NoCountLost'
  BY DEF CountInv, NoCountLost
<1> QED
  BY <1>2, <1>3

\* The same, with a close or without one.
LEMMA ReturnCount ==
  ASSUME CountInv, NEW t \in Threads, Return(t), Close(t) \/ UNCHANGED locks,
         DOMAIN inodes' = DOMAIN inodes, UNCHANGED owed,
         \A i \in DOMAIN inodes : inodes'[i].refs = inodes[i].refs
  PROVE  LockInv' /\ NoCountLost'
<1>1. /\ \A l \in locks : l.owner \notin {t, Process} => l \in locks'
      /\ \A l, m \in locks' : Shared(l, m) => l.kind # "write"
  BY EndLocks
<1> QED
  BY <1>1, LeftCount

\* A step to a place that needs no lock.
LEMMA MoveCount ==
  ASSUME CountInv, NEW t \in Threads, Only(t), pc'[t] \notin Inside,
         UNCHANGED <<inodes, owed, locks>>
  PROVE  LockInv' /\ NoCountLost'
<1>1. \A l, m \in locks' : Shared(l, m) => l.kind # "write"
  BY DEF CountInv, LockInv, Shared
<1>2. LockInv'
  BY <1>1, LocksKept DEF Inside
<1>3. NoCountLost'
  BY DEF CountInv, NoCountLost
<1> QED
  BY <1>2, <1>3

\* A lock that is taken conflicts with no other.
LEMMA TakenLocks ==
  ASSUME CountInv, NEW owner, NEW inode, NEW kind, ~Conflict(owner, inode, kind),
         locks' = locks \cup {[owner |-> owner, inode |-> inode, kind |-> kind]}
  PROVE  \A l, m \in locks' : Shared(l, m) => l.kind # "write"
<1> DEFINE new == [owner |-> owner, inode |-> inode, kind |-> kind]
<1>1. \A l \in locks : Shared(l, new) => l.kind # "write" /\ new.kind # "write"
  BY DEF Conflict, Shared
<1>2. \A l, m \in locks : Shared(l, m) => l.kind # "write"
  BY DEF CountInv, LockInv, Shared
<1>3. \A l : Shared(l, new) <=> Shared(new, l)
  BY DEF Shared
<1>4. ~Shared(new, new)
  BY DEF Shared
<1> HIDE DEF new
<1> QED
  BY <1>1, <1>2, <1>3, <1>4 DEF new

\* A call takes no lock and changes no counter.
LEMMA CountCall == ASSUME CountInv, NEW t \in Threads, Call(t) PROVE CountInv'
<1>1. TypeInv'
  BY TypeCall DEF CountInv
<1>2. UNCHANGED <<inodes, owed, locks>>
  BY DEF Call
<1>3. Only(t)
  BY DEF Call, Only, CountInv, TypeInv, TypeOK
<1>4. pc'[t] \notin Inside
  BY DEF Call, Inside, CountInv, TypeInv, TypeOK
<1> QED
  BY <1>1, <1>2, <1>3, <1>4, MoveCount DEF CountInv

\* Looking for a name takes no lock and changes no counter.
LEMMA CountExists == ASSUME CountInv, NEW t \in Threads, Exists(t) PROVE CountInv'
<1>1. TypeInv'
  BY TypeExists DEF CountInv
<1>2. UNCHANGED <<inodes, owed, locks>>
  BY DEF Exists
<1>3. CASE Goto(t, "open")
  <2>1. Only(t) /\ pc'[t] = "open"
    BY <1>3 DEF Goto, Only, CountInv, TypeInv, TypeOK
  <2> QED
    BY <1>1, <1>2, <2>1, MoveCount DEF CountInv, Inside
<1>4. CASE Return(t)
  BY <1>1, <1>2, <1>4, ReturnCount DEF CountInv
<1> QED
  BY <1>3, <1>4 DEF Exists

\* A new file has no counter, and nothing is owed to it.
LEMMA CountOpen == ASSUME CountInv, NEW t \in Threads, Open(t) PROVE CountInv'
<1>1. TypeInv'
  BY TypeOpen DEF CountInv
<1>2. UNCHANGED locks
  BY DEF Open
<1>3. CASE Return(t) /\ UNCHANGED <<named, inodes, owed>>
  BY <1>1, <1>2, <1>3, ReturnCount DEF CountInv
<1>4. CASE ~(Return(t) /\ UNCHANGED <<named, inodes, owed>>)
  <2>1. /\ pc' = [pc EXCEPT ![t] = "lock"] /\ UNCHANGED <<call, refs>>
        /\ fd' = [fd EXCEPT ![t] = fd'[t]]
    BY <1>4 DEF Open, CountInv, TypeInv, TypeOK
  <2>2. Only(t) /\ pc'[t] = "lock"
    BY <2>1 DEF Only, CountInv, TypeInv, TypeOK
  <2>3. \/ UNCHANGED <<inodes, owed>>
        \/ \E new \in InodeType : new.refs = NoRefs /\
             inodes' = Append(inodes, new) /\ owed' = Append(owed, NoRefs)
    <3>1. CASE ~BlockExists(H(t)) /\ Of(t, "store")
      <4> DEFINE new == [refs |-> NoRefs, length |-> 0, hash |-> H(t)]
      <4>1. H(t) \in Hashes
        BY CallTyped DEF Open, CountInv, TypeInv
      <4>2. new \in InodeType /\ new.refs = NoRefs
        BY <4>1, SizeAssumption DEF InodeType, NoRefs
      <4> QED
        BY <3>1, <4>2 DEF Open
    <3> QED
      BY <1>4, <3>1 DEF Open
  <2>4. /\ \A i \in DOMAIN inodes : inodes'[i].refs = inodes[i].refs
        /\ NoCountLost'
    <3>1. CASE UNCHANGED <<inodes, owed>>
      BY <3>1 DEF CountInv, NoCountLost
    <3>2. CASE ~UNCHANGED <<inodes, owed>>
      <4>1. PICK new \in InodeType : new.refs = NoRefs /\
              inodes' = Append(inodes, new) /\ owed' = Append(owed, NoRefs)
        BY <2>3, <3>2
      <4>2. /\ DOMAIN inodes' = DOMAIN inodes \cup {Len(inodes) + 1}
            /\ inodes'[Len(inodes) + 1] = new
            /\ \A i \in DOMAIN inodes : inodes'[i] = inodes[i]
        BY <4>1, InodesTyped, AddElement DEF CountInv, TypeInv
      <4>3. /\ owed'[Len(inodes) + 1] = NoRefs
            /\ \A i \in DOMAIN inodes : owed'[i] = owed[i]
        BY <4>1, InodesTyped, AddElement DEF CountInv, TypeInv, TypeOK, NoRefs
      <4> QED
        BY <4>1, <4>2, <4>3 DEF CountInv, NoCountLost
    <3> QED
      BY <3>1, <3>2
  <2>5. \A l, m \in locks' : Shared(l, m) => l.kind # "write"
    BY <1>2 DEF CountInv, LockInv, Shared
  <2>6. LockInv'
    BY <1>2, <2>2, <2>4, <2>5, LocksKept DEF Inside
  <2> QED
    BY <1>1, <2>4, <2>6 DEF CountInv
<1> QED
  BY <1>3, <1>4

\* A lock that is taken conflicts with none of another owner.
LEMMA CountLock == ASSUME CountInv, NEW t \in Threads, Lock(t) PROVE CountInv'
<1>1. TypeInv'
  BY TypeLock DEF CountInv
<1>2. /\ pc[t] = "lock" /\ ~Conflict(t, fd[t], Kind(call[t].op)) /\ locks' = locks \cup {Own(t)}
      /\ UNCHANGED <<inodes, owed, call, fd, refs>>
  BY DEF Lock, TakeLock, Goto, Own
<1>3. Only(t)
  BY GotoOnly DEF Lock, CountInv
<1>4. pc'[t] # "update"
  <2>1. call[t].op \in Ops /\ call[t] # None
    BY <1>2, CallTyped DEF CountInv, TypeInv
  <2>2. pc'[t] \in {"refs", "read", "count"}
    BY <2>1 DEF Lock, Goto, Of, Ops, CountInv, TypeInv, TypeOK
  <2> QED
    BY <2>2
<1>5. \A l, m \in locks' : Shared(l, m) => l.kind # "write"
  BY <1>2, TakenLocks DEF Own
<1>6. Own(t)' = Own(t)
  BY <1>2 DEF Own
<1>7. LockInv'
  BY <1>2, <1>3, <1>4, <1>5, <1>6, LocksKept
<1>8. NoCountLost'
  BY <1>2 DEF CountInv, NoCountLost
<1> QED
  BY <1>1, <1>7, <1>8 DEF CountInv

\* The lock that block_get_refs takes conflicts with none, and stays.
LEMMA CountGetRefs == ASSUME CountInv, NEW t \in Threads, GetRefs(t) PROVE CountInv'
<1>1. TypeInv'
  BY TypeGetRefs DEF CountInv
<1>2. /\ ~Conflict(Process, fd[t], Kind(call[t].op)) /\ Return(t)
      /\ locks' = locks \cup {[owner |-> Process, inode |-> fd[t], kind |-> Kind(call[t].op)]}
      /\ UNCHANGED <<inodes, owed>>
  BY DEF GetRefs, TakeLock
<1>3. Only(t) /\ pc'[t] = "idle"
  BY <1>2, ReturnOnly DEF CountInv
<1>4. \A l, m \in locks' : Shared(l, m) => l.kind # "write"
  BY <1>2, TakenLocks
<1>5. LockInv'
  BY <1>2, <1>3, <1>4, LocksKept DEF Inside
<1>6. NoCountLost'
  BY <1>2 DEF CountInv, NoCountLost
<1> QED
  BY <1>1, <1>5, <1>6 DEF CountInv

\* A failing call gives back the lock of its thread.
LEMMA CountFails == ASSUME CountInv, NEW t \in Threads, Fails(t) PROVE CountInv'
<1>1. TypeInv'
  BY TypeFails DEF CountInv
<1>2. Close(t) /\ Return(t) /\ UNCHANGED <<inodes, owed>>
  BY DEF Fails
<1> QED
  BY <1>1, <1>2, ReturnCount DEF CountInv

\* A read changes no counter.
LEMMA CountRead == ASSUME CountInv, NEW t \in Threads, Read(t) PROVE CountInv'
<1>1. TypeInv'
  BY TypeRead DEF CountInv
<1>2. Close(t) /\ Return(t) /\ UNCHANGED <<inodes, owed>>
  BY DEF Read
<1> QED
  BY <1>1, <1>2, ReturnCount DEF CountInv

\* The data changes no counter.
LEMMA CountWriteData == ASSUME CountInv, NEW t \in Threads, WriteData(t) PROVE CountInv'
<1>1. TypeInv'
  BY TypeWriteData DEF CountInv
<1>2. Close(t) /\ Return(t) /\ UNCHANGED owed
  BY DEF WriteData
<1>3. DOMAIN inodes' = DOMAIN inodes /\ \A i \in DOMAIN inodes : inodes'[i].refs = inodes[i].refs
  BY DataTypes DEF CountInv
<1> QED
  BY <1>1, <1>2, <1>3, ReturnCount DEF CountInv

\* A counter and what is owed of it are changed to the same.
LEMMA SetCount ==
  ASSUME CountInv, NEW i \in DOMAIN inodes, NEW n \in Nat, n # NoRefs, SetCounter(i, n, n)
  PROVE  /\ NoCountLost' /\ inodes'[i].refs = n
         /\ \A j \in DOMAIN inodes : inodes'[j].refs # inodes[j].refs => j = i
<1>1. /\ DOMAIN inodes' = DOMAIN inodes
      /\ \A j \in DOMAIN inodes :
           /\ inodes'[j].refs = IF j = i THEN n ELSE inodes[j].refs
           /\ owed'[j] = IF j = i THEN n ELSE owed[j]
  <2>1. TypeInv
    BY DEF CountInv
  <2> QED
    BY <2>1, CounterTypes
<1> QED
  BY <1>1 DEF CountInv, NoCountLost

\* The counter that store_block writes is the one that is owed.
LEMMA CountWriteRefs == ASSUME CountInv, NEW t \in Threads, WriteRefs(t) PROVE CountInv'
<1>1. TypeInv'
  BY TypeWriteRefs DEF CountInv
<1>2. /\ pc[t] = "refs" /\ fd[t] \in DOMAIN inodes /\ Own(t) \in locks
      /\ UNCHANGED <<locks, call, fd>>
  BY CallTyped DEF WriteRefs, Goto, CountInv, TypeInv, LockInv, Inside
<1>3. SetCounter(fd[t], 1, 1) /\ 1 \in Nat /\ 1 # NoRefs
  BY DEF WriteRefs, SetCounter, NoRefs
<1>4. /\ NoCountLost'
      /\ \A j \in DOMAIN inodes : inodes'[j].refs # inodes[j].refs => j = fd[t]
  BY <1>2, <1>3, SetCount
<1>5. Only(t) /\ pc'[t] = "data"
  BY GotoOnly DEF WriteRefs, CountInv
<1>6. Own(t)' = Own(t)
  BY <1>2 DEF Own
<1>7. \A l, m \in locks' : Shared(l, m) => l.kind # "write"
  BY <1>2 DEF CountInv, LockInv, Shared
<1>8. LockInv'
  BY <1>2, <1>4, <1>5, <1>6, <1>7, LocksKept
<1> QED
  BY <1>1, <1>4, <1>8 DEF CountInv

\* Under the lock, the counter that is read is still the file's.
LEMMA CountReadCount == ASSUME CountInv, NEW t \in Threads, ReadCount(t) PROVE CountInv'
<1>1. TypeInv'
  BY TypeReadCount DEF CountInv
<1>2. pc[t] = "count" /\ UNCHANGED <<inodes, owed>>
  BY DEF ReadCount
<1>3. CASE inodes[fd[t]].refs = NoRefs
  BY <1>1, <1>2, <1>3, ReturnCount DEF ReadCount, CountInv
<1>4. CASE inodes[fd[t]].refs # NoRefs
  <2>1. /\ Only(t) /\ pc'[t] = "update" /\ refs'[t] = inodes[fd[t]].refs
        /\ UNCHANGED <<locks, call, fd>>
    BY <1>4 DEF ReadCount, Only, CountInv, TypeInv, TypeOK
  <2>2. Own(t)' = Own(t) /\ Own(t) \in locks
    BY <1>2, <2>1 DEF Own, CountInv, LockInv, Inside
  <2>3. \A l, m \in locks' : Shared(l, m) => l.kind # "write"
    BY <2>1 DEF CountInv, LockInv, Shared
  <2>4. LockInv'
    BY <1>2, <2>1, <2>2, <2>3, LocksKept
  <2>5. NoCountLost'
    BY <1>2 DEF CountInv, NoCountLost
  <2> QED
    BY <1>1, <2>4, <2>5 DEF CountInv
<1> QED
  BY <1>3, <1>4

\* A return from the writing of a counter.
LEMMA WrittenCount ==
  ASSUME CountInv, NEW t \in Threads, pc[t] = "update", Return(t), Close(t) \/ Leak(t),
         NEW n \in Nat, n # NoRefs, SetCounter(fd[t], n, n)
  PROVE  LockInv' /\ NoCountLost'
<1>1. fd[t] \in DOMAIN inodes
  BY CallTyped DEF CountInv, TypeInv
<1>2. /\ NoCountLost'
      /\ \A j \in DOMAIN inodes : inodes'[j].refs # inodes[j].refs => j = fd[t]
  BY <1>1, SetCount
<1>3. Only(t) /\ pc'[t] = "idle"
  BY ReturnOnly DEF CountInv
<1>4. /\ \A l \in locks : l.owner \notin {t, Process} => l \in locks'
      /\ \A l, m \in locks' : Shared(l, m) => l.kind # "write"
  BY EndLocks DEF Inside
<1>6. LockInv'
  BY <1>2, <1>3, <1>4, LocksKept DEF Inside
<1> QED
  BY <1>2, <1>6

\* The counter a thread has read is the file's, and what is owed.
LEMMA ReadIsOwed ==
  ASSUME CountInv, NEW t \in Threads, pc[t] = "update"
  PROVE  refs[t] \in Nat \ {0} /\ refs[t] = inodes[fd[t]].refs /\ refs[t] = owed[fd[t]]
<1>1. fd[t] \in DOMAIN inodes /\ refs[t] \in Nat /\ refs[t] # 0
  BY CallTyped DEF CountInv, TypeInv, TypeOK, PathInv, NoRefs
<1> QED
  BY <1>1 DEF CountInv, LockInv, NoCountLost

\* Under the lock, what is written is one more than what the file has.
LEMMA CountIncRef == ASSUME CountInv, NEW t \in Threads, IncRef(t) PROVE CountInv'
<1>1. TypeInv'
  BY TypeIncRef DEF CountInv
<1>2. pc[t] = "update" /\ Return(t) /\ Close(t)
  BY DEF IncRef
<1>3. refs[t] + 1 \in Nat /\ refs[t] + 1 # NoRefs
  BY <1>2, ReadIsOwed DEF NoRefs
<1>4. SetCounter(fd[t], refs[t] + 1, refs[t] + 1)
  BY <1>2, ReadIsOwed DEF IncRef, SetCounter
<1> QED
  BY <1>1, <1>2, <1>3, <1>4, WrittenCount DEF CountInv

\* Under the lock, what is written is one less than what the file has.
LEMMA CountDecRef == ASSUME CountInv, NEW t \in Threads, DecRef(t) PROVE CountInv'
<1>1. TypeInv'
  BY TypeDecRef DEF CountInv
<1>2. pc[t] = "update" /\ Return(t) /\ (Close(t) \/ Leak(t))
  BY DEF DecRef
<1>3. CASE Last(t)
  <2>1. /\ \A l \in locks : l.owner \notin {t, Process} => l \in locks'
        /\ \A l, m \in locks' : Shared(l, m) => l.kind # "write"
    BY <1>2, EndLocks DEF Inside
  <2>2. UNCHANGED <<inodes, owed>>
    BY <1>3 DEF DecRef
  <2> QED
    BY <1>1, <1>2, <2>1, <2>2, LeftCount DEF CountInv
<1>4. CASE ~Last(t)
  <2>1. refs[t] - 1 \in Nat /\ refs[t] - 1 # NoRefs
    BY <1>2, <1>4, ReadIsOwed DEF NoRefs, Last
  <2>2. SetCounter(fd[t], refs[t] - 1, refs[t] - 1)
    BY <1>2, <1>4, ReadIsOwed DEF DecRef, SetCounter
  <2> QED
    BY <1>1, <1>2, <2>1, <2>2, WrittenCount DEF CountInv
<1> QED
  BY <1>3, <1>4

\* At first there is no file and no lock.
LEMMA InitCount == Init => CountInv
<1> SUFFICES ASSUME Init PROVE CountInv
  OBVIOUS
<1>1. inodes = <<>> /\ owed = <<>> /\ Len(inodes) = 0 /\ Len(owed) = 0
  BY DEF Init
<1>2. DOMAIN inodes = {}
  BY <1>1
<1>3. inodes \in Seq([refs : Nat, length : 0..Size, hash : Hashes]) /\ owed \in Seq(Nat)
  BY <1>1
<1>4. TypeOK
  BY <1>1, <1>2, <1>3, BoundsAssumption DEF Init, TypeOK, Labels, NoRefs
<1> QED
  BY <1>2, <1>4 DEF Init, CountInv, TypeInv, PathInv, LockInv, Inside, NoCountLost

\* Every step keeps the locks and the counters.
LEMMA StepCount == CountInv /\ [Next]_vars => CountInv'
<1> SUFFICES ASSUME CountInv, [Next]_vars PROVE CountInv'
  OBVIOUS
<1>1. CASE UNCHANGED vars
  BY <1>1 DEF vars, locals, CountInv, TypeInv, TypeOK, PathInv, LockInv, NoCountLost,
    Own, Labels
<1>2. CASE Next
  <2>1. PICK t \in Threads : Call(t) \/ Step(t) \/ Fails(t)
    BY <1>2 DEF Next
  <2> QED
    BY <2>1, CountCall, CountExists, CountOpen, CountLock, CountGetRefs, CountWriteRefs,
      CountWriteData, CountRead, CountReadCount, CountIncRef, CountDecRef, CountFails
      DEF Step
<1> QED
  BY <1>1, <1>2

\* The variables have their types.  That a counter is never below 0 needs what
\* the locks are for.
THEOREM TypesOK == Spec => []TypeOK
<1>1. CountInv => TypeOK
  BY DEF CountInv, TypeInv
<1> QED
  BY InitCount, StepCount, <1>1, PTL DEF Spec

\* No change of a counter is lost (block_inc_ref, block_dec_ref), however many
\* threads change it, whatever fails, and though block_get_refs leaves a lock of
\* the process behind which any close takes away.
THEOREM NoneLost == Spec => []NoCountLost
<1>1. CountInv => NoCountLost
  BY DEF CountInv
<1> QED
  BY InitCount, StepCount, <1>1, PTL DEF Spec

-----------------------------------------------------------------------------
(* A lock lasts from the fcntl to the close.                                *)

\* A lock of a thread is its own, of the call that it is in; a lock that nobody has any
\* more was left by a call that changed a counter, and whose unlocking failed.
OwnersInv ==
  /\ \A l \in locks : l.owner \in Threads => pc[l.owner] \in Inside /\ l = Own(l.owner)
  /\ \A l \in locks : l.owner = Leaked => faults > 0 /\ l.kind = "write"

\* Failures are counted and not forgotten.
LEMMA FaultsGrow ==
  ASSUME TypeOK, NEW t \in Threads, Call(t) \/ Step(t) \/ Fails(t)
  PROVE  faults \in Nat /\ (UNCHANGED faults \/ faults' = faults + 1)
<1>1. faults \in Nat
  BY BoundsAssumption DEF TypeOK
<1>2. CASE WriteData(t)
  BY <1>1, <1>2 DEF WriteData, Fault
<1> QED
  BY <1>1, <1>2 DEF Call, Step, Fails, Exists, Open, Lock, GetRefs, TakeLock, WriteRefs, Read,
    ReadCount, IncRef, DecRef, Fault

\* A step of one thread, after which the locks it has are its own.
LEMMA OwnersKept ==
  ASSUME TypeInv, OwnersInv, NEW t \in Threads, Only(t),
         faults \in Nat, UNCHANGED faults \/ faults' = faults + 1,
         \A l \in locks' : l.owner = t => pc'[t] \in Inside /\ l = Own(t)',
         \A l \in locks' : l.owner \notin {t, Process} =>
           \/ l \in locks
           \/ l.owner = Leaked /\ l.kind = "write" /\ faults' > 0
  PROVE  OwnersInv'
<1>1. ASSUME NEW l \in locks', l.owner \in Threads, l.owner # t
      PROVE  pc'[l.owner] \in Inside /\ l = Own(l.owner)'
  <2>1. l \in locks
    BY <1>1, ProcessAssumption
  <2>2. pc[l.owner] \in Inside /\ l = Own(l.owner)
    BY <1>1, <2>1 DEF OwnersInv
  <2>3. /\ pc'[l.owner] = pc[l.owner] /\ call'[l.owner] = call[l.owner]
        /\ fd'[l.owner] = fd[l.owner]
    BY <1>1, OthersStay
  <2> QED
    BY <2>2, <2>3 DEF Own
<1>2. ASSUME NEW l \in locks', l.owner = Leaked PROVE faults' > 0 /\ l.kind = "write"
  <2>1. l \in locks => faults > 0 /\ l.kind = "write"
    BY <1>2 DEF OwnersInv
  <2>2. l.owner \notin {t, Process}
    BY <1>2, ProcessAssumption
  <2> QED
    BY <1>2, <2>1, <2>2
<1> QED
  BY <1>1, <1>2 DEF OwnersInv

\* Every step takes its lock on the way in, or has it closed on the way out.
LEMMA OwnersStep ==
  ASSUME TypeInv, OwnersInv, NEW t \in Threads, Call(t) \/ Step(t) \/ Fails(t)
  PROVE  OwnersInv'
<1>1. faults \in Nat /\ (UNCHANGED faults \/ faults' = faults + 1)
  BY FaultsGrow DEF TypeInv
<1>2. ASSUME Only(t), pc[t] \notin Inside, UNCHANGED locks PROVE OwnersInv'
  BY <1>1, <1>2, OwnersKept, ProcessAssumption DEF OwnersInv
<1>3. ASSUME Return(t), Close(t) PROVE OwnersInv'
  BY <1>1, <1>3, ReturnOnly, OwnersKept DEF Close
<1>4. ASSUME Only(t), pc'[t] \in Inside, UNCHANGED <<locks, call, fd>>
      PROVE  OwnersInv'
  <2>1. \A l \in locks' : l.owner = t => l = Own(t)'
    BY <1>4, ProcessAssumption DEF OwnersInv, Own
  <2> QED
    BY <1>1, <1>4, <2>1, OwnersKept
<1>5. CASE Call(t)
  <2>1. Only(t) /\ pc[t] \notin Inside
    BY <1>5 DEF Call, Only, Inside, TypeInv, TypeOK
  <2> QED
    BY <1>2, <1>5, <2>1 DEF Call
<1>6. CASE Exists(t)
  BY <1>2, <1>6, ReturnOnly, GotoOnly DEF Exists, Inside
<1>7. CASE Open(t)
  <2>1. pc[t] \notin Inside /\ UNCHANGED locks
    BY <1>7 DEF Open, Inside
  <2>2. CASE Return(t)
    BY <1>2, <2>1, <2>2, ReturnOnly
  <2>3. CASE ~Return(t)
    <3>1. /\ pc' = [pc EXCEPT ![t] = "lock"] /\ UNCHANGED <<call, refs>>
          /\ \E i : fd' = [fd EXCEPT ![t] = i]
      BY <1>7, <2>3 DEF Open
    <3>2. Only(t)
      BY <3>1 DEF Only, TypeInv, TypeOK
    <3> QED
      BY <1>2, <2>1, <3>2
  <2> QED
    BY <2>2, <2>3
<1>8. CASE Lock(t)
  <2>1. pc[t] = "lock" /\ ~Of(t, "refs") /\ UNCHANGED <<call, fd>>
    BY <1>8 DEF Lock, TakeLock, Goto
  <2>2. locks' = locks \cup {Own(t)} /\ Own(t)' = Own(t) /\ Own(t).owner = t
    BY <1>8 DEF Lock, TakeLock, Goto, Own
  <2>3. call[t].op \in Ops /\ call[t].op # "refs" /\ call[t] # None
    BY <2>1, CallTyped DEF TypeInv, Of
  <2>4. \E label \in Inside : Goto(t, label)
    BY <1>8, <2>3 DEF Lock, Of, Ops, Inside
  <2>5. Only(t) /\ pc'[t] \in Inside
    BY <2>4, GotoOnly
  <2>6. \A l \in locks : l.owner # t
    BY <2>1, ProcessAssumption DEF OwnersInv, Inside
  <2> QED
    BY <1>1, <2>2, <2>5, <2>6, OwnersKept
<1>9. CASE GetRefs(t)
  <2>1. pc[t] = "lock" /\ Return(t)
    BY <1>9 DEF GetRefs, TakeLock
  <2>2. \A l \in locks' : l \in locks \/ l.owner = Process
    BY <1>9 DEF GetRefs, TakeLock
  <2>3. \A l \in locks' : l.owner # t
    BY <2>1, <2>2, ProcessAssumption DEF OwnersInv, Inside
  <2> QED
    BY <1>1, <2>1, <2>2, <2>3, ReturnOnly, OwnersKept
<1>10. CASE WriteRefs(t)
  <2>1. Goto(t, "data") /\ UNCHANGED locks
    BY <1>10 DEF WriteRefs
  <2> QED
    BY <1>4, <2>1, GotoOnly DEF Goto, Inside
<1>11. CASE ReadCount(t)
  <2>1. CASE pc' = [pc EXCEPT ![t] = "update"] /\ UNCHANGED <<locks, call, fd>>
    <3>1. Only(t) /\ pc'[t] \in Inside
      BY <1>11, <2>1 DEF ReadCount, Return, Only, Inside, TypeInv, TypeOK
    <3> QED
      BY <1>4, <2>1, <3>1
  <2> QED
    BY <1>3, <1>11, <2>1 DEF ReadCount
<1>12. CASE WriteData(t) \/ Read(t) \/ IncRef(t) \/ Fails(t)
  BY <1>3, <1>12 DEF WriteData, Read, IncRef, Fails
<1>13. CASE DecRef(t)
  <2>1. pc[t] = "update" /\ Return(t) /\ (Close(t) \/ (Leak(t) /\ Fault)) /\ Of(t, "dec")
    BY <1>13 DEF DecRef
  <2>2. CASE Close(t)
    BY <1>3, <2>1, <2>2
  <2>3. CASE Leak(t) /\ Fault
    <3> DEFINE left == [Own(t) EXCEPT !.owner = Leaked]
    <3>1. left.owner = Leaked /\ left.kind = "write"
      BY <2>1 DEF Own, Kind, Of
    <3>2. locks' = {l \in locks : l.owner # t} \cup {left}
      BY <2>3 DEF Leak
    <3>3. faults' > 0
      BY <1>1, <2>3 DEF Fault
    <3>4. Only(t)
      BY <2>1, ReturnOnly
    <3> HIDE DEF left
    <3>5. \A l \in locks' : l.owner # t
      BY <3>1, <3>2, ProcessAssumption
    <3>6. \A l \in locks' : l \in locks \/ (l.owner = Leaked /\ l.kind = "write")
      BY <3>1, <3>2
    <3> QED
      BY <1>1, <3>3, <3>4, <3>5, <3>6, OwnersKept
  <2> QED
    BY <2>1, <2>2, <2>3
<1> QED
  BY <1>5, <1>6, <1>7, <1>8, <1>9, <1>10, <1>11, <1>12, <1>13 DEF Step

\* The record locks of the threads are those of the calls that are past their
\* fcntl, whatever fails, and though block_get_refs takes locks of the process.
THEOREM LocksAreExact == Spec => []LocksExact
<1>1. Init => OwnersInv
  BY DEF Init, OwnersInv
<1>2. ASSUME CountInv, OwnersInv, [Next]_vars PROVE OwnersInv'
  <2>1. CASE UNCHANGED vars
    BY <1>2, <2>1 DEF vars, locals, OwnersInv, Own
  <2> QED
    BY <1>2, <2>1, OwnersStep DEF Next, CountInv
<1>3. ASSUME CountInv, OwnersInv PROVE LocksExact
  <2>1. \A t \in Threads : Own(t).owner = t
    BY DEF Own
  <2> QED
    BY <1>3, <2>1 DEF CountInv, LockInv, OwnersInv, LocksExact
<1> QED
  BY InitCount, StepCount, <1>1, <1>2, <1>3, PTL DEF Spec

-----------------------------------------------------------------------------
(* Names of blocks, and what load_block returns.                            *)

\* A step that creates no file, and opens none but that of its block.
LEMMA NamesKept ==
  ASSUME TypeInv, NamesInv, NEW t \in Threads, Only(t),
         \A n \in Names : named'[n] \in {named[n], None},
         DOMAIN inodes \subseteq DOMAIN inodes',
         \A i \in DOMAIN inodes : inodes'[i].hash = inodes[i].hash,
         fd'[t] # None => call'[t] = call[t] /\ fd'[t] \in {fd[t], Inode(H(t))} /\ H(t) \in Hashes
  PROVE  NamesInv'
<1>1. ASSUME NEW h \in Hashes, Inode(h)' # None
      PROVE  Hexify(inodes'[Inode(h)'].hash) = Hexify(h)
  <2>1. Inode(h)' = Inode(h) /\ Inode(h) # None /\ Inode(h) \in DOMAIN inodes
    BY <1>1, NameOf DEF Inode, TypeInv, TypeOK
  <2> QED
    BY <2>1 DEF NamesInv, BlockExists
<1>2. ASSUME NEW u \in Threads, fd'[u] # None
      PROVE  Hexify(inodes'[fd'[u]].hash) = Hexify(call'[u].hash)
  <2>1. CASE u # t
    <3>1. fd'[u] = fd[u] /\ call'[u] = call[u]
      BY <2>1, OthersStay
    <3>2. fd[u] \in DOMAIN inodes
      BY <1>2, <3>1 DEF TypeInv, TypeOK
    <3> QED
      BY <1>2, <3>1, <3>2 DEF NamesInv, H
  <2>2. CASE u = t /\ fd'[t] = fd[t]
    <3>1. fd[t] \in DOMAIN inodes
      BY <1>2, <2>2 DEF TypeInv, TypeOK
    <3> QED
      BY <1>2, <2>2, <3>1 DEF NamesInv, H
  <2>3. CASE u = t /\ fd'[t] = Inode(H(t))
    <3>1. Inode(H(t)) \in DOMAIN inodes
      BY <1>2, <2>3, NameOf DEF Inode, TypeInv, TypeOK
    <3> QED
      BY <1>2, <2>3, <3>1 DEF NamesInv, BlockExists, H
  <2> QED
    BY <1>2, <2>1, <2>2, <2>3
<1> QED
  BY <1>1, <1>2 DEF NamesInv, BlockExists, H

\* What a store creates has the block's name.
LEMMA CreateNames ==
  ASSUME TypeInv, NamesInv, NEW t \in Threads, Open(t), ~BlockExists(H(t)), Of(t, "store")
  PROVE  /\ NamesInv' /\ Inode(H(t))' = fd'[t] /\ pc'[t] = "lock" /\ Only(t)
         /\ \A h \in Hashes : Hexify(h) # Hexify(H(t)) => Inode(h)' = Inode(h)
         /\ DOMAIN inodes \subseteq DOMAIN inodes' /\ fd'[t] \notin DOMAIN inodes
         /\ \A i \in DOMAIN inodes : inodes'[i] = inodes[i]
         /\ inodes'[fd'[t]].length = 0 /\ DOMAIN inodes' = DOMAIN inodes \cup {fd'[t]}
         /\ UNCHANGED <<call, held, faults>>
<1> DEFINE n == Len(inodes) + 1
           new == [refs |-> NoRefs, length |-> 0, hash |-> H(t)]
<1>1. /\ pc[t] = "open" /\ H(t) \in Hashes /\ Hexify(H(t)) \in Names
      /\ inodes' = Append(inodes, new) /\ named' = [named EXCEPT ![Hexify(H(t))] = n]
      /\ fd' = [fd EXCEPT ![t] = n] /\ pc' = [pc EXCEPT ![t] = "lock"]
      /\ UNCHANGED <<call, refs, locks, held, calls, faults>>
  BY CallTyped DEF Open, TypeInv
<1>2. new \in InodeType /\ new.hash = H(t) /\ new.length = 0
  BY <1>1, SizeAssumption DEF InodeType, NoRefs
<1> HIDE DEF new
<1>3. /\ DOMAIN inodes' = DOMAIN inodes \cup {n} /\ inodes'[n] = new
      /\ n \notin DOMAIN inodes
      /\ \A i \in DOMAIN inodes : inodes'[i] = inodes[i]
  BY <1>1, <1>2, InodesTyped, AddElement DEF TypeInv
<1> HIDE DEF n
<1>4. Only(t) /\ fd'[t] = n /\ pc'[t] = "lock"
  BY <1>1 DEF Only, TypeInv, TypeOK
<1>5. Inode(H(t))' = n
  BY <1>1 DEF Inode, H, TypeInv, TypeOK
<1>6. \A h \in Hashes : Hexify(h) # Hexify(H(t)) => Inode(h)' = Inode(h)
  BY <1>1 DEF Inode, TypeInv, TypeOK
<1>7. ASSUME NEW h \in Hashes, Inode(h)' # None
      PROVE  Hexify(inodes'[Inode(h)'].hash) = Hexify(h)
  <2>1. CASE Hexify(h) = Hexify(H(t))
    <3>1. Inode(h)' = n
      BY <1>1, <1>5, <2>1 DEF Inode, H
    <3> QED
      BY <1>2, <1>3, <2>1, <3>1
  <2>2. CASE Hexify(h) # Hexify(H(t))
    <3>1. Inode(h)' = Inode(h) /\ Inode(h) \in DOMAIN inodes
      BY <1>6, <1>7, <2>2, NameOf DEF Inode, TypeInv, TypeOK
    <3> QED
      BY <1>3, <1>7, <3>1 DEF NamesInv, BlockExists
  <2> QED
    BY <2>1, <2>2
<1>8. ASSUME NEW u \in Threads, fd'[u] # None
      PROVE  Hexify(inodes'[fd'[u]].hash) = Hexify(call'[u].hash)
  <2>1. CASE u = t
    BY <1>1, <1>2, <1>3, <1>4, <2>1 DEF H
  <2>2. CASE u # t
    <3>1. fd'[u] = fd[u] /\ fd[u] \in DOMAIN inodes
      BY <1>4, <1>8, <2>2, OthersStay DEF TypeInv, TypeOK
    <3> QED
      BY <1>1, <1>3, <1>8, <3>1 DEF NamesInv, H
  <2> QED
    BY <2>1, <2>2
<1> QED
  BY <1>1, <1>2, <1>3, <1>4, <1>5, <1>6, <1>7, <1>8 DEF NamesInv, BlockExists, H

\* A step of a thread's call that creates no file, and the inode it has or opens.
LEMMA NamesReturn ==
  ASSUME TypeInv, NamesInv, NEW t \in Threads, Return(t), UNCHANGED named,
         DOMAIN inodes' = DOMAIN inodes,
         \A i \in DOMAIN inodes : inodes'[i].hash = inodes[i].hash
  PROVE  NamesInv'
<1>1. Only(t) /\ fd'[t] = None
  BY ReturnOnly
<1> QED
  BY <1>1, NamesKept

\* A thread that goes on has the file that it had.
LEMMA NamesGoto ==
  ASSUME TypeInv, NamesInv, NEW t \in Threads, pc[t] # "idle", NEW label, Goto(t, label),
         UNCHANGED named, DOMAIN inodes' = DOMAIN inodes,
         \A i \in DOMAIN inodes : inodes'[i].hash = inodes[i].hash
  PROVE  NamesInv'
<1>1. Only(t) /\ fd'[t] = fd[t] /\ call'[t] = call[t] /\ H(t) \in Hashes
  BY GotoOnly, CallTyped DEF Goto, TypeInv
<1> QED
  BY <1>1, NamesKept

\* A change of a counter changes nothing else.
LEMMA CounterOnly ==
  ASSUME TypeOK, NEW i \in DOMAIN inodes, NEW n, inodes' = [inodes EXCEPT ![i].refs = n]
  PROVE  /\ DOMAIN inodes' = DOMAIN inodes
         /\ \A j \in DOMAIN inodes :
              inodes'[j].hash = inodes[j].hash /\ inodes'[j].length = inodes[j].length
<1> DEFINE v == [inodes[i] EXCEPT !.refs = n]
<1>1. inodes[i] \in InodeType
  BY InodesTyped
<1>2. v.hash = inodes[i].hash /\ v.length = inodes[i].length
  BY <1>1 DEF InodeType
<1>3. inodes' = [inodes EXCEPT ![i] = v]
  OBVIOUS
<1> HIDE DEF v
<1>4. \A j \in DOMAIN inodes : inodes'[j] = IF j = i THEN v ELSE inodes[j]
  BY <1>3, InodesTyped
<1> QED
  BY <1>2, <1>3, <1>4

\* Every step keeps the names.
LEMMA NamesStep ==
  ASSUME TypeInv, NamesInv, NEW t \in Threads, Call(t) \/ Step(t) \/ Fails(t)
  PROVE  NamesInv'
<1>1. CASE Call(t)
  <2>1. /\ Only(t) /\ fd'[t] = None /\ UNCHANGED <<named, inodes>>
    BY <1>1 DEF Call, Only, TypeInv, TypeOK
  <2> QED
    BY <2>1, NamesKept
<1>2. CASE Exists(t)
  BY <1>2, NamesGoto, NamesReturn DEF Exists
<1>3. CASE Open(t)
  <2>1. CASE BlockExists(H(t))
    <3>1. /\ Only(t) /\ fd'[t] = Inode(H(t)) /\ UNCHANGED <<call, named, inodes>>
          /\ H(t) \in Hashes
      BY <1>3, <2>1, CallTyped DEF Open, Only, TypeInv, TypeOK
    <3> QED
      BY <3>1, NamesKept
  <2>2. CASE ~BlockExists(H(t)) /\ Of(t, "store")
    BY <1>3, <2>2, CreateNames
  <2>3. CASE ~BlockExists(H(t)) /\ ~Of(t, "store")
    BY <1>3, <2>3, NamesReturn DEF Open
  <2> QED
    BY <2>1, <2>2, <2>3
<1>4. CASE Lock(t)
  BY <1>4, NamesGoto DEF Lock, TakeLock
<1>5. CASE GetRefs(t)
  BY <1>5, NamesReturn DEF GetRefs, TakeLock
<1>6. CASE WriteRefs(t)
  <2>1. fd[t] \in DOMAIN inodes /\ SetCounter(fd[t], 1, 1) /\ 1 \in Nat /\ 1 # NoRefs
    BY <1>6, CallTyped DEF WriteRefs, SetCounter, NoRefs, TypeInv
  <2>2. DOMAIN inodes' = DOMAIN inodes /\ \A i \in DOMAIN inodes : inodes'[i].hash = inodes[i].hash
    BY <2>1, CounterTypes
  <2> QED
    BY <1>6, <2>2, NamesGoto DEF WriteRefs
<1>7. CASE WriteData(t)
  <2>1. DOMAIN inodes' = DOMAIN inodes /\ \A i \in DOMAIN inodes : inodes'[i].hash = inodes[i].hash
    BY <1>7, DataTypes
  <2> QED
    BY <1>7, <2>1, NamesReturn DEF WriteData
<1>8. CASE Read(t)
  BY <1>8, NamesReturn DEF Read
<1>9. CASE ReadCount(t)
  <2>1. CASE inodes[fd[t]].refs = NoRefs
    BY <1>9, <2>1, NamesReturn DEF ReadCount
  <2>2. CASE inodes[fd[t]].refs # NoRefs
    <3>1. Only(t) /\ UNCHANGED <<fd, call, named, inodes>> /\ H(t) \in Hashes
      BY <1>9, <2>2, CallTyped DEF ReadCount, Only, TypeInv, TypeOK
    <3> QED
      BY <3>1, NamesKept
  <2> QED
    BY <2>1, <2>2
<1>10. CASE IncRef(t) \/ DecRef(t)
  <2>1. Return(t) /\ fd[t] \in DOMAIN inodes /\ Hexify(H(t)) \in Names
    BY <1>10, CallTyped DEF IncRef, DecRef, TypeInv
  <2>2. DOMAIN inodes' = DOMAIN inodes /\ \A i \in DOMAIN inodes : inodes'[i].hash = inodes[i].hash
    <3>1. \/ UNCHANGED inodes
          \/ \E n : inodes' = [inodes EXCEPT ![fd[t]].refs = n]
      BY <1>10 DEF IncRef, DecRef
    <3>2. CASE UNCHANGED inodes
      BY <3>2
    <3>3. ASSUME NEW n, inodes' = [inodes EXCEPT ![fd[t]].refs = n]
          PROVE  /\ DOMAIN inodes' = DOMAIN inodes
                 /\ \A i \in DOMAIN inodes : inodes'[i].hash = inodes[i].hash
      BY <2>1, <3>3, CounterOnly DEF TypeInv
    <3> QED
      BY <3>1, <3>2, <3>3
  <2>3. \A n \in Names : named'[n] \in {named[n], None}
    BY <1>10 DEF IncRef, DecRef, TypeInv, TypeOK
  <2>4. Only(t) /\ fd'[t] = None
    BY <2>1, ReturnOnly
  <2> QED
    BY <2>2, <2>3, <2>4, NamesKept
<1>11. CASE Fails(t)
  BY <1>11, NamesReturn DEF Fails
<1> QED
  BY <1>1, <1>2, <1>3, <1>4, <1>5, <1>6, <1>7, <1>8, <1>9, <1>10, <1>11 DEF Step

\* The data of a file is written by one call; until one fails, all of it.
LEMMA LengthStep ==
  ASSUME TypeInv, LengthInv, NamesInv, NEW t \in Threads, Call(t) \/ Step(t) \/ Fails(t)
  PROVE  LengthInv'
<1> SUFFICES ASSUME faults' = 0, NEW i \in DOMAIN inodes' PROVE inodes'[i].length \in {0, Size}
  BY DEF LengthInv
<1>1. \A j \in DOMAIN inodes : inodes[j].length \in {0, Size}
  BY FaultsGrow DEF LengthInv, TypeInv
<1>2. CASE UNCHANGED inodes
  BY <1>1, <1>2
<1>3. CASE Open(t)
  <2>1. CASE ~BlockExists(H(t)) /\ Of(t, "store")
    <3>1. /\ DOMAIN inodes' = DOMAIN inodes \cup {fd'[t]}
          /\ inodes'[fd'[t]].length = 0
          /\ \A j \in DOMAIN inodes : inodes'[j] = inodes[j]
      BY Zenon, <1>3, <2>1, CreateNames
    <3> QED
      BY <1>1, <3>1
  <2> QED
    BY <1>2, <1>3, <2>1 DEF Open
<1>4. CASE WriteData(t)
  <2>1. PICK out \in SWriteOutcomes(Size) \cup {[done |-> Size, ret |-> -1]} :
          /\ IF out.ret = Size THEN UNCHANGED faults ELSE Fault
          /\ \A j \in DOMAIN inodes : inodes'[j].length =
               IF j = fd[t] /\ inodes[j].length < out.done
                 THEN out.done ELSE inodes[j].length
    BY <1>4, DataTypes
  <2>2. out.ret = Size
    BY <2>1 DEF Fault, TypeInv, TypeOK
  <2>3. out.done = Size
    BY <2>2, SizeAssumption DEF SWriteOutcomes
  <2>4. DOMAIN inodes' = DOMAIN inodes
    BY <1>4, DataTypes
  <2> QED
    BY <1>1, <2>1, <2>3, <2>4
<1>5. CASE WriteRefs(t) \/ IncRef(t) \/ DecRef(t)
  <2>1. fd[t] \in DOMAIN inodes
    BY <1>5, CallTyped DEF WriteRefs, IncRef, DecRef, TypeInv
  <2>2. \/ UNCHANGED inodes
        \/ \E n : inodes' = [inodes EXCEPT ![fd[t]].refs = n]
    BY <1>5 DEF WriteRefs, IncRef, DecRef
  <2>3. ASSUME NEW n, inodes' = [inodes EXCEPT ![fd[t]].refs = n]
        PROVE  DOMAIN inodes' = DOMAIN inodes /\ \A j \in DOMAIN inodes :
                 inodes'[j].length = inodes[j].length
    BY <2>1, <2>3, CounterOnly DEF TypeInv
  <2> QED
    BY <1>1, <1>2, <2>2, <2>3
<1> QED
  BY <1>2, <1>3, <1>4, <1>5 DEF Call, Step, Fails, Exists, Lock, GetRefs, TakeLock, Read, ReadCount

\* What is read is the block's, and all of it if it is not nothing.
LEMMA LoadsStep ==
  ASSUME NamesDiffer, LoadInv, NEW t \in Threads, Call(t) \/ Step(t) \/ Fails(t)
  PROVE  LoadsWhole'
<1> SUFFICES ASSUME NEW u \in Threads, faults' = 0, ret'[u] # None
             PROVE  ret'[u].hash = ret'[u].asked /\ ret'[u].length = Size
  BY DEF LoadsWhole
<1>1. faults = 0
  BY FaultsGrow DEF LoadInv, TypeInv
<1>2. CASE ret'[u] = ret[u]
  BY <1>1, <1>2 DEF LoadInv, LoadsWhole
<1>3. CASE Call(t)
  <2>1. ret' = [ret EXCEPT ![t] = None]
    BY <1>3 DEF Call
  <2> QED
    BY <1>2, <2>1
<1>4. CASE Read(t) /\ ret'[u] # ret[u]
  <2> DEFINE inode == inodes[fd[t]]
             n == IF inode.refs = NoRefs THEN 0 ELSE SRead(inode.length, Size)
  <2>1. /\ ret' = [ret EXCEPT ![t] = [asked |-> H(t), hash |-> inode.hash, length |-> n]]
        /\ n > 0 /\ pc[t] = "read"
    BY <1>4 DEF Read
  <2>2. u = t
    BY <1>4, <2>1
  <2>3. H(t) \in Hashes /\ fd[t] \in DOMAIN inodes /\ fd[t] # None
    BY <2>1, CallTyped, InodesTyped DEF LoadInv, TypeInv
  <2>4. inode \in InodeType
    BY <2>3, InodesTyped DEF LoadInv, TypeInv
  <2>5. inode.hash = H(t)
    BY <2>3, <2>4 DEF NamesDiffer, LoadInv, NamesInv, InodeType
  <2>6. inode.length \in {0, Size}
    BY <1>1, <2>3 DEF LoadInv, LengthInv
  <2>7. n = Size
    BY <2>1, <2>6, SizeAssumption DEF SRead
  <2>8. ret'[u] = [asked |-> H(t), hash |-> inode.hash, length |-> n]
    BY <1>4, <2>1, <2>2
  <2> QED
    BY <2>5, <2>7, <2>8
<1> QED
  BY <1>2, <1>3, <1>4 DEF Step, Fails, Exists, Open, Lock, GetRefs, TakeLock, WriteRefs, WriteData,
    ReadCount, IncRef, DecRef

\* At first there is no file.
LEMMA InitNames == Init => NamesInv /\ LengthInv /\ LoadsWhole
<1> SUFFICES ASSUME Init PROVE NamesInv /\ LengthInv /\ LoadsWhole
  OBVIOUS
<1>1. DOMAIN inodes = {}
  BY DEF Init
<1>2. \A h \in Hashes : Inode(h) = None
  BY NameOf DEF Init, Inode
<1> QED
  BY <1>1, <1>2 DEF Init, NamesInv, BlockExists, LengthInv, LoadsWhole

\* Every step keeps the names and the lengths.
LEMMA StepLoad == NamesDiffer /\ CountInv /\ LoadInv /\ [Next]_vars => CountInv' /\ LoadInv'
<1> SUFFICES ASSUME NamesDiffer, CountInv, LoadInv, [Next]_vars PROVE CountInv' /\ LoadInv'
  OBVIOUS
<1>1. CountInv'
  BY StepCount
<1>2. CASE UNCHANGED vars
  BY <1>1, <1>2 DEF vars, locals, CountInv, LoadInv, NamesInv, LengthInv, LoadsWhole,
    BlockExists, Inode, H
<1>3. CASE Next
  <2>1. PICK t \in Threads : Call(t) \/ Step(t) \/ Fails(t)
    BY <1>3 DEF Next
  <2> QED
    BY <1>1, <2>1, NamesStep, LengthStep, LoadsStep DEF CountInv, LoadInv
<1> QED
  BY <1>2, <1>3

\* What load_block returns before a call fails is the block it was asked for, and
\* all of it, whatever other threads store, load and count, under a lock or not.
THEOREM LoadsAreWhole == ASSUME NamesDiffer PROVE Spec => []LoadsWhole
<1>1. Init => CountInv /\ LoadInv
  BY InitCount, InitNames DEF CountInv, LoadInv
<1>2. CountInv /\ LoadInv /\ [Next]_vars => CountInv' /\ LoadInv'
  BY StepLoad
<1>3. LoadInv => LoadsWhole
  BY DEF LoadInv
<1> QED
  BY <1>1, <1>2, <1>3, PTL DEF Spec

-----------------------------------------------------------------------------
(* References that are held.                                                *)

\* The calls that give a reference back are finitely many.
LEMMA GivingTyped ==
  ASSUME TypeOK, NEW h \in Hashes
  PROVE  /\ IsFiniteSet(Giving(h)) /\ Cardinality(Giving(h)) \in Nat /\ Owing(h) \in Nat
         /\ Owing(h) >= held[h] /\ held[h] \in Nat
         /\ \A t \in Giving(h) : Cardinality(Giving(h)) >= 1
<1>1. IsFiniteSet(Giving(h))
  <2>1. Giving(h) \in SUBSET Threads
    BY DEF Giving
  <2> QED
    BY <2>1, ThreadsAssumption, FS_Subset
<1>2. Cardinality(Giving(h)) \in Nat
  BY <1>1, FS_CardinalityType
<1>3. held[h] \in Nat
  BY DEF TypeOK
<1>4. \A t \in Giving(h) : Cardinality(Giving(h)) # 0
  BY <1>1, FS_EmptySet
<1> QED
  BY <1>1, <1>2, <1>3, <1>4 DEF Owing

\* A call that gives a reference back is one of those that do.
LEMMA OneGiving ==
  ASSUME TypeOK, NEW t \in Threads, Of(t, "dec")
  PROVE  t \in Giving(H(t))
<1>1. call[t] \in [op : Ops, hash : Hashes] /\ call[t].op = "dec"
  BY DEF TypeOK, Of, Requests
<1>2. call[t] = [op |-> "dec", hash |-> call[t].hash]
  BY <1>1
<1> QED
  BY <1>2 DEF Giving, H

\* A thread that takes a reference is a call that does.
LEMMA OneTaking ==
  ASSUME TypeOK, NEW t \in Threads, Of(t, "inc")
  PROVE  Active("inc", H(t))
<1>1. call[t] \in [op : Ops, hash : Hashes] /\ call[t].op = "inc"
  BY DEF TypeOK, Of, Requests
<1>2. call[t] = [op |-> "inc", hash |-> call[t].hash]
  BY <1>1
<1> QED
  BY <1>2 DEF Active, H

\* Two of them are two.
LEMMA TwoGiving ==
  ASSUME TypeOK, NEW h \in Hashes, NEW t \in Giving(h), NEW u \in Giving(h), t # u
  PROVE  Cardinality(Giving(h)) >= 2
<1>1. IsFiniteSet(Giving(h)) /\ {t, u} \in SUBSET Giving(h)
  BY GivingTyped
<1>2. Cardinality({t, u}) = 2
  <2>1. IsFiniteSet({t}) /\ Cardinality({t}) = 1
    BY FS_Singleton
  <2>2. {t, u} = {t} \cup {u} /\ u \notin {t}
    OBVIOUS
  <2>3. Cardinality({t} \cup {u}) = Cardinality({t}) + 1
    BY Zenon, <2>1, <2>2, FS_AddElement
  <2> QED
    BY <2>1, <2>2, <2>3
<1> QED
  BY <1>1, <1>2, FS_Subset

\* A return of a call that gave a reference back takes it from those, and any other
\* return changes nothing.
LEMMA GivingReturn ==
  ASSUME TypeInv, NEW t \in Threads, Only(t), call'[t] \in {None, call[t]}, NEW h \in Hashes
  PROVE  /\ Cardinality(Giving(h))' \in Nat
         /\ Cardinality(Giving(h))' <= Cardinality(Giving(h))
         /\ call'[t] = None /\ t \in Giving(h) =>
              Cardinality(Giving(h))' = Cardinality(Giving(h)) - 1
         /\ t \notin Giving(h) => Cardinality(Giving(h))' = Cardinality(Giving(h))
<1> DEFINE dec == [op |-> "dec", hash |-> h]
<1>1. dec # None
  BY NoneAssumption DEF Requests, Ops
<1>2. \A u \in Threads \ {t} : call'[u] = call[u]
  BY OthersStay
<1>3. IsFiniteSet(Giving(h)) /\ Cardinality(Giving(h)) \in Nat
  BY GivingTyped DEF TypeInv
<1>4. CASE call'[t] = None /\ t \in Giving(h)
  <2>1. Giving(h)' = Giving(h) \ {t}
    BY <1>1, <1>2, <1>4 DEF Giving
  <2> QED
    <3>1. Cardinality(Giving(h) \ {t}) = Cardinality(Giving(h)) - 1
      BY <1>3, <1>4, FS_RemoveElement
    <3>2. Cardinality(Giving(h)) >= 1
      BY <1>4, GivingTyped DEF TypeInv
    <3>3. Cardinality(Giving(h))' = Cardinality(Giving(h)) - 1
      BY <2>1, <3>1
    <3> QED
      BY <1>3, <1>4, <3>2, <3>3
<1>5. CASE ~(call'[t] = None /\ t \in Giving(h))
  <2>1. Giving(h)' = Giving(h)
    BY <1>1, <1>2, <1>5 DEF Giving
  <2> QED
    BY <1>3, <1>5, <2>1
<1> QED
  BY <1>4, <1>5

\* Two blocks do not have one file.
LEMMA OneName ==
  ASSUME NamesDiffer, NamesInv, NEW g \in Hashes, NEW h \in Hashes,
         BlockExists(g), Inode(g) = Inode(h)
  PROVE  g = h
BY DEF NamesDiffer, NamesInv, BlockExists

\* The types of what the invariant speaks of.
LEMMA InodeTyped ==
  ASSUME TypeOK, NEW h \in Hashes
  PROVE  /\ Inode(h) \in {None} \cup DOMAIN inodes
         /\ BlockExists(h) => Inode(h) \in DOMAIN inodes /\ inodes[Inode(h)].refs \in Nat
BY NameOf, InodesTyped DEF Inode, BlockExists, TypeOK, InodeType

\* One call is made under cfs_state_t.lock as long as no other begins.
LEMMA SerialKept ==
  ASSUME TypeInv, SerialInv, NEW t \in Threads, Only(t), call'[t] \in {None, call[t]}
  PROVE  SerialInv'
BY OthersStay DEF SerialInv

\* What is owed to the block of a call goes by the block.
LEMMA OwingAt ==
  ASSUME NEW u, call'[u] = call[u], NEW h, h = H(u)
  PROVE  Owing(H(u))' = Owing(h)'
BY DEF Owing, Giving, H

\* A step that changes no name, no counter and no reference of a caller.
LEMMA QuietStep ==
  ASSUME HeldInv, CountInv', NamesInv', NEW t \in Threads, Only(t), call'[t] \in {None, call[t]},
         UNCHANGED <<named, held>>,
         \A i \in DOMAIN inodes : inodes'[i].refs \in {inodes[i].refs, inodes[i].refs + 1},
         fd'[t] # None => call'[t] = call[t] /\ fd'[t] \in {fd[t], Inode(H(t))},
         Of(t, "store")' /\ pc'[t] # "exists" =>
           Owing(H(t)) = 0 /\ IF pc'[t] = "open" THEN ~BlockExists(H(t)) ELSE Inode(H(t)) = fd'[t]
  PROVE  HeldInv'
<1> USE DEF HeldInv, CountInv
<1>1. ASSUME NEW u \in Threads, u # t
      PROVE  pc'[u] = pc[u] /\ call'[u] = call[u] /\ fd'[u] = fd[u]
  BY <1>1, OthersStay
<1>2. \A h \in Hashes :
        /\ Inode(h)' = Inode(h) /\ Owing(h) \in Nat /\ Owing(h)' \in Nat /\ Owing(h)' <= Owing(h)
        /\ BlockExists(h)' = BlockExists(h)
  <2> TAKE h \in Hashes
  <2>1. /\ held[h] \in Nat /\ held'[h] = held[h] /\ Cardinality(Giving(h)) \in Nat
        /\ Owing(h) \in Nat
    BY GivingTyped DEF TypeInv
  <2>2. Cardinality(Giving(h))' \in Nat /\ Cardinality(Giving(h))' <= Cardinality(Giving(h))
    BY GivingReturn
  <2>3. Owing(h)' = held'[h] + Cardinality(Giving(h))'
    BY DEF Owing
  <2> QED
    BY <2>1, <2>2, <2>3 DEF Owing, Inode, BlockExists
<1>3. RefInv'
  <2> SUFFICES ASSUME NEW h \in Hashes, Owing(h)' > 0
               PROVE  BlockExists(h)' /\ inodes'[Inode(h)'].refs >= Owing(h)'
    BY DEF RefInv
  <2>1. Owing(h) > 0
    BY <1>2
  <2>2. BlockExists(h) /\ inodes[Inode(h)].refs >= Owing(h)
    BY <2>1 DEF RefInv
  <2>3. Inode(h) \in DOMAIN inodes /\ inodes[Inode(h)].refs \in Nat
    BY <2>2, InodeTyped DEF TypeInv
  <2> QED
    BY <1>2, <2>2, <2>3
<1>4. CallerInv'
  <2>1. \A h \in Hashes : Active("inc", h)' => Active("inc", h)
    <3>1. \A h \in Hashes : [op |-> "inc", hash |-> h] # None
      BY NoneAssumption DEF Requests, Ops
    <3> QED
      BY <1>1, <3>1 DEF Active
  <2>2. \A u \in Threads : (Of(u, "inc") \/ Of(u, "dec"))' /\ fd'[u] # None =>
          fd'[u] = Inode(H(u))'
    <3> SUFFICES ASSUME NEW u \in Threads, (Of(u, "inc") \/ Of(u, "dec"))', fd'[u] # None
                 PROVE  fd'[u] = Inode(H(u))'
      OBVIOUS
    <3>1. call'[u] = call[u]
      BY <1>1
    <3>2. Of(u, "inc") \/ Of(u, "dec")
      BY <3>1 DEF Of
    <3>3. Inode(H(u))' = Inode(H(u))
      BY <3>1 DEF Inode, H
    <3>4. fd'[u] = fd[u] => fd'[u] = Inode(H(u))
      BY <3>2 DEF CallerInv
    <3> QED
      BY <1>1, <3>3, <3>4
  <2> QED
    BY <2>1, <2>2 DEF CallerInv
<1>5. SerialInv'
  BY SerialKept
<1>6. StoreInv'
  <2> SUFFICES ASSUME NEW u \in Threads, Of(u, "store")', pc'[u] # "exists"
               PROVE  /\ Owing(H(u))' = 0
                      /\ IF pc'[u] = "open" THEN ~BlockExists(H(u))' ELSE Inode(H(u))' = fd'[u]
    BY DEF StoreInv
  <2>1. call'[u] = call[u] /\ call[u] # None
    BY <1>1 DEF Of
  <2>2. Of(u, "store") /\ H(u)' = H(u) /\ H(u) \in Hashes
    BY <2>1, CallTyped DEF Of, H, TypeInv, TypeOK
  <2>3. Owing(H(u)) = 0 /\ IF pc'[u] = "open" THEN ~BlockExists(H(u)) ELSE Inode(H(u)) = fd'[u]
    BY <1>1, <2>2 DEF StoreInv
  <2>4. Owing(H(u))' = 0
    <3>1. PICK h \in Hashes : h = H(u)
      BY <2>2
    <3>2. Owing(H(u))' = Owing(h)'
      BY <2>1, <3>1, OwingAt
    <3> QED
      BY <1>2, <2>3, <3>1, <3>2
  <2>5. Inode(H(u))' = Inode(H(u)) /\ BlockExists(H(u))' = BlockExists(H(u))
    BY <2>2 DEF Inode, BlockExists
  <2> QED
    BY <2>3, <2>4, <2>5
<1> QED
  BY <1>3, <1>4, <1>5, <1>6

\* A store that found no name goes on to make one; the block is nobody's.
LEMMA HeldExists == ASSUME HeldInv, CountInv', NamesInv', NEW t \in Threads, Exists(t) PROVE HeldInv'
<1>1. /\ pc[t] = "exists" /\ UNCHANGED <<named, held, inodes>>
      /\ H(t) \in Hashes /\ fd[t] = None
  BY CallTyped DEF Exists, HeldInv, CountInv, TypeInv, TypeOK
<1>2. CASE Return(t)
  <2>1. Only(t) /\ call'[t] = None /\ fd'[t] = None
    BY <1>2, ReturnOnly DEF HeldInv, CountInv
  <2> QED
    BY <1>1, <2>1, QuietStep DEF Of
<1>3. CASE Goto(t, "open") /\ BlockExists(H(t)) = Of(t, "load")
  <2>1. Only(t) /\ pc'[t] = "open" /\ call'[t] = call[t] /\ fd'[t] = None
    BY <1>1, <1>3, GotoOnly DEF Goto, HeldInv, CountInv
  <2>2. Of(t, "store") => ~BlockExists(H(t))
    BY <1>3 DEF Of
  <2>3. ~BlockExists(H(t)) => Owing(H(t)) = 0
    BY <1>1, GivingTyped DEF HeldInv, CountInv, TypeInv, RefInv
  <2>4. Of(t, "store")' => Of(t, "store")
    BY <2>1 DEF Of
  <2> QED
    BY <1>1, <2>1, <2>2, <2>3, <2>4, QuietStep
<1> QED
  BY <1>2, <1>3 DEF Exists

\* What a store goes on with is as it was.
LEMMA StoreGoes ==
  ASSUME HeldInv, NEW t \in Threads, call'[t] = call[t], Of(t, "store")',
         pc[t] \notin {"exists", "open"}
  PROVE  Owing(H(t)) = 0 /\ Inode(H(t)) = fd[t]
BY DEF HeldInv, StoreInv, Of

\* A lock that is taken changes no reference.
LEMMA HeldLock == ASSUME HeldInv, CountInv', NamesInv', NEW t \in Threads, Lock(t) PROVE HeldInv'
<1>1. /\ pc[t] = "lock" /\ UNCHANGED <<named, held, inodes, call, fd>> /\ Only(t)
  BY GotoOnly DEF Lock, TakeLock, Goto, HeldInv, CountInv
<1>2. pc'[t] # "open"
  <2>1. call[t].op \in Ops /\ call[t] # None
    BY <1>1, CallTyped DEF HeldInv, CountInv, TypeInv
  <2>2. pc'[t] \in {"refs", "read", "count"}
    BY <2>1 DEF Lock, Goto, Of, Ops, HeldInv, CountInv, TypeInv, TypeOK
  <2> QED
    BY <2>2
<1> QED
  BY <1>1, <1>2, StoreGoes, QuietStep

\* A return that gives no reference takes none either.
LEMMA HeldReturn ==
  ASSUME HeldInv, CountInv', NamesInv', NEW t \in Threads, Return(t), UNCHANGED <<named, held>>,
         \A i \in DOMAIN inodes : inodes'[i].refs \in {inodes[i].refs, inodes[i].refs + 1}
  PROVE  HeldInv'
<1>1. Only(t) /\ call'[t] = None /\ fd'[t] = None
  BY ReturnOnly DEF HeldInv, CountInv
<1> QED
  BY <1>1, QuietStep DEF Of

\* Reading a counter changes no reference.
LEMMA HeldReadCount == ASSUME HeldInv, CountInv', NamesInv', NEW t \in Threads, ReadCount(t) PROVE HeldInv'
<1>1. pc[t] = "count" /\ UNCHANGED <<named, held, inodes>>
  BY DEF ReadCount
<1>2. CASE inodes[fd[t]].refs = NoRefs
  BY <1>1, <1>2, HeldReturn DEF ReadCount
<1>3. CASE inodes[fd[t]].refs # NoRefs
  <2>1. Only(t) /\ UNCHANGED <<call, fd>> /\ pc'[t] = "update"
    BY <1>3 DEF ReadCount, Only, HeldInv, CountInv, TypeInv, TypeOK
  <2> QED
    BY <1>1, <2>1, StoreGoes, QuietStep
<1> QED
  BY <1>2, <1>3

\* The file that a store creates has the name of no other block.
LEMMA HeldCreate ==
  ASSUME NamesDiffer, HeldInv, CountInv', NamesInv', NEW t \in Threads, Open(t),
         ~BlockExists(H(t)), Of(t, "store")
  PROVE  HeldInv'
<1> USE DEF HeldInv, CountInv
<1>1. /\ Inode(H(t))' = fd'[t] /\ pc'[t] = "lock" /\ Only(t)
      /\ \A h \in Hashes : Hexify(h) # Hexify(H(t)) => Inode(h)' = Inode(h)
      /\ \A i \in DOMAIN inodes : inodes'[i] = inodes[i]
      /\ UNCHANGED <<call, held>>
  BY CreateNames
<1>2. H(t) \in Hashes /\ pc[t] = "open" /\ Owing(H(t)) = 0
  BY CallTyped DEF Open, TypeInv, StoreInv
<1>3. \A h \in Hashes : Owing(h)' = Owing(h) /\ Active("inc", h)' = Active("inc", h)
  BY <1>1 DEF Owing, Giving, Active
<1>4. \A h \in Hashes : BlockExists(h) => Inode(h)' = Inode(h) /\ BlockExists(h)'
  BY <1>1, <1>2 DEF NamesDiffer, BlockExists
<1>5. RefInv'
  <2> SUFFICES ASSUME NEW h \in Hashes, Owing(h)' > 0
               PROVE  BlockExists(h)' /\ inodes'[Inode(h)'].refs >= Owing(h)'
    BY DEF RefInv
  <2>1. BlockExists(h) /\ inodes[Inode(h)].refs >= Owing(h) /\ Inode(h) \in DOMAIN inodes
    BY <1>3, InodeTyped DEF RefInv, TypeInv
  <2> QED
    BY <1>1, <1>3, <1>4, <2>1
<1>6. CallerInv'
  <2>1. ASSUME NEW u \in Threads, Of(u, "inc") \/ Of(u, "dec"), fd'[u] # None
        PROVE  fd'[u] = Inode(H(u))'
    <3>1. u # t
      BY <2>1 DEF Of
    <3>2. fd'[u] = fd[u] /\ fd[u] = Inode(H(u))
      BY <1>1, <2>1, <3>1, OthersStay DEF CallerInv
    <3>3. H(u) \in Hashes /\ BlockExists(H(u))
      BY <2>1, <3>2, CallTyped DEF TypeInv, TypeOK, Of, BlockExists
    <3> QED
      BY <1>1, <1>4, <3>2, <3>3 DEF Inode, H
  <2> QED
    BY <1>1, <1>3, <2>1 DEF CallerInv, Of
<1>7. SerialInv'
  BY <1>1, SerialKept
<1>8. StoreInv'
  <2>1. ASSUME NEW u \in Threads, Of(u, "store") PROVE u = t
    BY <2>1 DEF SerialInv, Of, Locked
  <2>2. Owing(H(t))' = 0
    <3>1. PICK h \in Hashes : h = H(t)
      BY <1>2
    <3> QED
      BY <1>1, <1>2, <1>3, <3>1, OwingAt
  <2> QED
    BY <1>1, <2>1, <2>2 DEF StoreInv, Of
<1> QED
  BY <1>5, <1>6, <1>7, <1>8

\* A file that is made is the store's; one that is opened has the name.
LEMMA HeldOpen == ASSUME NamesDiffer, HeldInv, CountInv', NamesInv', NEW t \in Threads, Open(t) PROVE HeldInv'
<1>1. pc[t] = "open" /\ UNCHANGED held
  BY DEF Open
<1>2. CASE BlockExists(H(t))
  <2>1. /\ Only(t) /\ fd'[t] = Inode(H(t)) /\ pc'[t] = "lock"
        /\ UNCHANGED <<call, named, inodes>>
    BY <1>2 DEF Open, Only, HeldInv, CountInv, TypeInv, TypeOK
  <2>2. ~Of(t, "store")
    BY <1>1, <1>2 DEF HeldInv, StoreInv
  <2>3. ~Of(t, "store")'
    BY <2>1, <2>2 DEF Of
  <2> QED
    BY <1>1, <2>1, <2>3, QuietStep
<1>3. CASE ~BlockExists(H(t)) /\ Of(t, "store")
  BY <1>3, HeldCreate
<1>4. CASE ~BlockExists(H(t)) /\ ~Of(t, "store")
  BY <1>1, <1>4, HeldReturn DEF Open
<1> QED
  BY <1>2, <1>3, <1>4

\* The counter of a block that is being stored is made 1: nobody has the block yet.
LEMMA HeldWriteRefs ==
  ASSUME NamesDiffer, HeldInv, CountInv', NamesInv', NEW t \in Threads, WriteRefs(t)
  PROVE  HeldInv'
<1> USE DEF HeldInv, CountInv
<1>1. /\ pc[t] = "refs" /\ UNCHANGED <<named, held, call, fd>> /\ Only(t) /\ pc'[t] = "data"
      /\ SetCounter(fd[t], 1, 1) /\ 1 \in Nat /\ 1 # NoRefs
  <2>1. Goto(t, "data")
    BY DEF WriteRefs
  <2>2. Only(t) /\ pc'[t] = "data"
    BY <2>1, GotoOnly
  <2> QED
    BY <2>1, <2>2 DEF WriteRefs, Goto, SetCounter, NoRefs
<1>2. /\ fd[t] \in DOMAIN inodes /\ H(t) \in Hashes /\ Of(t, "store")
  BY <1>1, CallTyped DEF TypeInv, PathInv, Of
<1>3. Owing(H(t)) = 0 /\ Inode(H(t)) = fd[t] /\ BlockExists(H(t))
  <2>1. Owing(H(t)) = 0 /\ Inode(H(t)) = fd[t]
    BY <1>1, <1>2 DEF StoreInv
  <2>2. fd[t] # None
    BY <1>2, InodesTyped DEF TypeInv
  <2> QED
    BY <2>1, <2>2 DEF BlockExists
<1>4. \A i \in DOMAIN inodes : i # fd[t] => inodes'[i].refs = inodes[i].refs
  <2>1. SetCounter(fd[t], 1, 1) /\ 1 \in Nat /\ 1 # NoRefs /\ fd[t] \in DOMAIN inodes
    BY <1>1, <1>2
  <2>2. TypeInv
    OBVIOUS
  <2> HIDE DEF HeldInv, CountInv
  <2>3. \A i \in DOMAIN inodes :
          inodes'[i].refs = IF i = fd[t] THEN 1 ELSE inodes[i].refs
    BY ONLY <2>1, <2>2, CounterTypes
  <2> QED
    BY <2>3
<1>5. \A h \in Hashes :
        /\ Owing(h)' = Owing(h) /\ Active("inc", h)' = Active("inc", h)
        /\ Inode(h)' = Inode(h) /\ BlockExists(h)' = BlockExists(h)
  BY <1>1 DEF Owing, Giving, Active, Inode, BlockExists
<1>6. RefInv'
  <2> SUFFICES ASSUME NEW h \in Hashes, Owing(h)' > 0
               PROVE  BlockExists(h)' /\ inodes'[Inode(h)'].refs >= Owing(h)'
    BY DEF RefInv
  <2>1. BlockExists(h) /\ inodes[Inode(h)].refs >= Owing(h) /\ Inode(h) \in DOMAIN inodes
    BY <1>5, InodeTyped DEF RefInv, TypeInv
  <2>2. Owing(h) # 0
    BY <1>5
  <2>3. Inode(h) # fd[t]
    BY <1>2, <1>3, <2>1, <2>2, OneName
  <2> QED
    BY <1>4, <1>5, <2>1, <2>3
<1>7. CallerInv'
  BY <1>1, <1>5 DEF CallerInv, Of, Inode, H
<1>8. SerialInv'
  BY <1>1, SerialKept
<1>9. StoreInv'
  <2> SUFFICES ASSUME NEW u \in Threads, Of(u, "store")', pc'[u] # "exists"
               PROVE  /\ Owing(H(u))' = 0
                      /\ IF pc'[u] = "open" THEN ~BlockExists(H(u))' ELSE Inode(H(u))' = fd'[u]
    BY DEF StoreInv
  <2>1. Of(u, "store")
    BY <1>1 DEF Of
  <2>2. u = t
    BY <1>2, <2>1 DEF SerialInv, Of, Locked
  <2>3. PICK h \in Hashes : h = H(t)
    BY <1>2
  <2>4. Owing(H(t))' = Owing(h)' /\ Inode(H(t))' = Inode(h)'
    BY <1>1, <2>3, OwingAt DEF Inode, H
  <2> QED
    BY <1>1, <1>3, <1>5, <2>2, <2>3, <2>4
<1> QED
  BY <1>6, <1>7, <1>8, <1>9

\* A return of a call that leaves references to the others: what the invariant says
\* of other threads, from what it says of the blocks.
LEMMA HeldOthers ==
  ASSUME HeldInv, NEW t \in Threads, Return(t),
         \A h \in Hashes : held[h] > 0 => held'[h] > 0,
         \A u \in Threads \ {t} : Of(u, "inc") \/ Of(u, "dec") =>
           (fd[u] # None => Inode(H(u))' = Inode(H(u))),
         \A u \in Threads \ {t} : Of(u, "store") /\ Owing(H(u)) = 0 =>
           Owing(H(u))' = 0 /\ Inode(H(u))' = Inode(H(u))
  PROVE  CallerInv' /\ SerialInv' /\ StoreInv'
<1>1. Only(t) /\ call'[t] = None /\ fd'[t] = None
  BY ReturnOnly DEF HeldInv, CountInv
<1>2. ASSUME NEW u \in Threads, u # t
      PROVE  pc'[u] = pc[u] /\ call'[u] = call[u] /\ fd'[u] = fd[u]
  BY <1>1, <1>2, OthersStay DEF HeldInv, CountInv
<1>3. CallerInv'
  <2>1. \A h \in Hashes : Active("inc", h)' => Active("inc", h)
    <3>1. \A h \in Hashes : [op |-> "inc", hash |-> h] # None
      BY NoneAssumption DEF Requests, Ops
    <3> QED
      BY <1>1, <1>2, <3>1 DEF Active
  <2>2. \A h \in Hashes : Active("inc", h)' => held'[h] > 0
    BY <2>1 DEF HeldInv, CallerInv
  <2> QED
    BY <1>1, <1>2, <2>2 DEF HeldInv, CallerInv, Of
<1>4. SerialInv'
  BY <1>1, SerialKept DEF HeldInv, CountInv
<1>5. StoreInv'
  BY <1>1, <1>2 DEF HeldInv, StoreInv, Of, BlockExists
<1> QED
  BY <1>3, <1>4, <1>5

\* The references to a block that is stored, or to which one is added, and those to
\* the others.
LEMMA OwingMore ==
  ASSUME TypeInv, NEW t \in Threads, Return(t), pc[t] # "idle", ~Of(t, "dec"),
         held' = [held EXCEPT ![H(t)] = @ + 1]
  PROVE  /\ H(t) \in Hashes
         /\ \A h \in Hashes :
              /\ Owing(h)' = IF h = H(t) THEN Owing(h) + 1 ELSE Owing(h)
              /\ Owing(h) \in Nat /\ (held[h] > 0 => held'[h] > 0)
<1>1. H(t) \in Hashes
  BY CallTyped DEF TypeInv
<1>2. Only(t) /\ call'[t] = None
  BY ReturnOnly
<1>3. ASSUME NEW h \in Hashes
      PROVE  /\ Owing(h)' = IF h = H(t) THEN Owing(h) + 1 ELSE Owing(h)
             /\ Owing(h) \in Nat /\ (held[h] > 0 => held'[h] > 0)
  <2>1. t \notin Giving(h)
    BY NoneAssumption DEF Giving, Of, Requests, Ops
  <2>2. Cardinality(Giving(h))' = Cardinality(Giving(h))
    BY <1>2, <2>1, GivingReturn
  <2>3. held[h] \in Nat /\ Cardinality(Giving(h)) \in Nat
    BY GivingTyped DEF TypeInv
  <2>4. held'[h] = IF h = H(t) THEN held[h] + 1 ELSE held[h]
    BY <1>1 DEF TypeInv, TypeOK
  <2>5. Owing(h)' = held'[h] + Cardinality(Giving(h))'
    BY DEF Owing
  <2> QED
    BY <2>2, <2>3, <2>4, <2>5 DEF Owing
<1> QED
  BY <1>1, <1>3

\* The block is stored: it is its caller's, the only one.
LEMMA HeldWriteData ==
  ASSUME HeldInv, CountInv', NamesInv', NEW t \in Threads, WriteData(t)
  PROVE  HeldInv'
<1> USE DEF HeldInv, CountInv
<1>1. pc[t] = "data" /\ Return(t) /\ UNCHANGED named
  BY DEF WriteData
<1>2. /\ DOMAIN inodes' = DOMAIN inodes /\ fd[t] \in DOMAIN inodes /\ inodes[fd[t]].refs # NoRefs
      /\ \A i \in DOMAIN inodes : inodes'[i].refs = inodes[i].refs
      /\ held' = held \/ held' = [held EXCEPT ![H(t)] = @ + 1]
  BY DataTypes
<1>3. CASE held' = held
  BY <1>1, <1>2, <1>3, HeldReturn
<1>4. CASE held' = [held EXCEPT ![H(t)] = @ + 1]
  <2>1. Of(t, "store") /\ ~Of(t, "dec") /\ inodes[fd[t]].refs \in Nat /\ fd[t] # None
    BY <1>1, <1>2, CallTyped, InodesTyped DEF TypeInv, PathInv, Of, InodeType
  <2>2. /\ H(t) \in Hashes
        /\ \A h \in Hashes :
             /\ Owing(h)' = IF h = H(t) THEN Owing(h) + 1 ELSE Owing(h)
             /\ Owing(h) \in Nat /\ (held[h] > 0 => held'[h] > 0)
    BY <1>1, <1>4, <2>1, OwingMore
  <2>3. Owing(H(t)) = 0 /\ Inode(H(t)) = fd[t]
    BY <1>1, <2>1 DEF StoreInv
  <2>4. \A h \in Hashes : Inode(h)' = Inode(h)
    BY <1>1 DEF Inode
  <2>5. RefInv'
    <3> SUFFICES ASSUME NEW h \in Hashes, Owing(h)' > 0
                 PROVE  BlockExists(h)' /\ inodes'[Inode(h)'].refs >= Owing(h)'
      BY DEF RefInv
    <3>1. CASE h = H(t)
      BY <1>2, <2>1, <2>2, <2>3, <2>4, <3>1 DEF BlockExists, NoRefs
    <3>2. CASE h # H(t)
      <4>1. BlockExists(h) /\ inodes[Inode(h)].refs >= Owing(h) /\ Inode(h) \in DOMAIN inodes
        BY <2>2, <3>2, InodeTyped DEF RefInv, TypeInv
      <4> QED
        BY <1>2, <2>2, <2>4, <3>2, <4>1 DEF BlockExists
    <3> QED
      BY <3>1, <3>2
  <2>6. \A u \in Threads \ {t} : ~Of(u, "store")
    BY <2>1 DEF SerialInv, Of, Locked
  <2>7. \A u \in Threads \ {t} : Of(u, "inc") \/ Of(u, "dec") => Inode(H(u))' = Inode(H(u))
    <3>1. \A u \in Threads \ {t} : call'[u] = call[u]
      BY <1>1, ReturnOnly, OthersStay
    <3> QED
      BY <1>1, <3>1 DEF Inode, H
  <2>8. CallerInv' /\ SerialInv' /\ StoreInv'
    BY <1>1, <2>2, <2>6, <2>7, HeldOthers
  <2> QED
    BY <2>5, <2>8
<1> QED
  BY <1>2, <1>3, <1>4

\* A reference is added: the file that has the block's name has the counter.
LEMMA HeldAdded ==
  ASSUME NamesDiffer, HeldInv, CountInv', NamesInv', NEW t \in Threads, IncRef(t),
         held' = [held EXCEPT ![H(t)] = @ + 1]
  PROVE  HeldInv'
<1> USE DEF HeldInv, CountInv
<1>1. /\ pc[t] = "update" /\ Of(t, "inc") /\ ~Of(t, "dec") /\ Return(t) /\ UNCHANGED named
      /\ SetCounter(fd[t], refs[t] + 1, owed[fd[t]] + 1)
  BY DEF IncRef, SetCounter, Of
<1>2. /\ H(t) \in Hashes
      /\ \A h \in Hashes :
           /\ Owing(h)' = IF h = H(t) THEN Owing(h) + 1 ELSE Owing(h)
           /\ Owing(h) \in Nat /\ (held[h] > 0 => held'[h] > 0)
  BY <1>1, OwingMore
<1>3. fd[t] \in DOMAIN inodes /\ fd[t] = Inode(H(t)) /\ BlockExists(H(t))
  <2>1. fd[t] \in DOMAIN inodes /\ fd[t] # None
    BY <1>1, CallTyped, InodesTyped DEF TypeInv
  <2>2. fd[t] = Inode(H(t))
    BY <1>1, <2>1 DEF CallerInv
  <2> QED
    BY <2>1, <2>2 DEF BlockExists
<1>4. Owing(H(t)) > 0
  BY <1>1, <1>2, OneTaking, GivingTyped DEF CallerInv, TypeInv
<1>5. /\ refs[t] \in Nat /\ refs[t] = inodes[fd[t]].refs
      /\ \A i \in DOMAIN inodes :
           inodes'[i].refs = IF i = fd[t] THEN refs[t] + 1 ELSE inodes[i].refs
  <2>1. refs[t] \in Nat \ {0} /\ refs[t] = inodes[fd[t]].refs /\ refs[t] = owed[fd[t]]
    BY <1>1, ReadIsOwed
  <2>2. refs[t] + 1 \in Nat /\ refs[t] + 1 # NoRefs /\ owed[fd[t]] + 1 \in Nat
    BY <2>1 DEF NoRefs
  <2>3. \A i \in DOMAIN inodes :
          inodes'[i].refs = IF i = fd[t] THEN refs[t] + 1 ELSE inodes[i].refs
    BY <1>1, <1>3, <2>2, CounterTypes
  <2> QED
    BY <2>1, <2>3
<1>6. \A h \in Hashes : Inode(h)' = Inode(h)
  BY <1>1 DEF Inode
<1>7. RefInv'
  <2> SUFFICES ASSUME NEW h \in Hashes, Owing(h)' > 0
               PROVE  BlockExists(h)' /\ inodes'[Inode(h)'].refs >= Owing(h)'
    BY DEF RefInv
  <2>1. Owing(h) > 0
    BY <1>2, <1>4
  <2>2. BlockExists(h) /\ inodes[Inode(h)].refs >= Owing(h) /\ Inode(h) \in DOMAIN inodes
    BY <2>1, InodeTyped DEF RefInv, TypeInv
  <2>3. h = H(t) <=> Inode(h) = fd[t]
    BY <1>2, <1>3, <2>2, OneName
  <2> QED
    BY <1>2, <1>5, <1>6, <2>2, <2>3 DEF BlockExists
<1>8. \A u \in Threads \ {t} : call'[u] = call[u]
  BY <1>1, ReturnOnly, OthersStay
<1>9. \A u \in Threads \ {t} : Of(u, "inc") \/ Of(u, "dec") => Inode(H(u))' = Inode(H(u))
  BY <1>1, <1>8 DEF Inode, H
<1>10. ASSUME NEW u \in Threads \ {t}, Of(u, "store"), Owing(H(u)) = 0
       PROVE  Owing(H(u))' = 0 /\ Inode(H(u))' = Inode(H(u))
  <2>1. H(u) \in Hashes /\ H(u) # H(t)
    <3>1. pc[u] # "idle"
      BY <1>10 DEF Of, TypeInv, TypeOK
    <3>2. H(u) \in Hashes
      BY <3>1, CallTyped DEF TypeInv
    <3> QED
      BY <1>4, <1>10, <3>2
  <2>2. PICK h \in Hashes : h = H(u)
    BY <2>1
  <2>3. Owing(H(u))' = Owing(h)'
    BY <1>8, <2>2, OwingAt
  <2> QED
    BY <1>1, <1>2, <1>8, <1>10, <2>1, <2>2, <2>3 DEF Inode, H
<1>11. CallerInv' /\ SerialInv' /\ StoreInv'
  BY <1>1, <1>2, <1>9, <1>10, HeldOthers
<1> QED
  BY <1>7, <1>11

\* Where the unlocking fails the counter is up and nobody has a reference more.
LEMMA HeldIncRef ==
  ASSUME NamesDiffer, HeldInv, CountInv', NamesInv', NEW t \in Threads, IncRef(t)
  PROVE  HeldInv'
<1>1. CASE held' = [held EXCEPT ![H(t)] = @ + 1]
  BY <1>1, HeldAdded
<1>2. CASE held' = held
  <2>1. /\ pc[t] = "update" /\ Return(t) /\ UNCHANGED <<named, held>>
        /\ SetCounter(fd[t], refs[t] + 1, owed[fd[t]] + 1)
    BY <1>2 DEF IncRef, SetCounter
  <2>2. /\ fd[t] \in DOMAIN inodes /\ refs[t] \in Nat \ {0}
        /\ refs[t] = inodes[fd[t]].refs /\ refs[t] = owed[fd[t]]
    BY <2>1, ReadIsOwed, CallTyped DEF HeldInv, CountInv, TypeInv
  <2>3. refs[t] + 1 \in Nat /\ refs[t] + 1 # NoRefs /\ owed[fd[t]] + 1 \in Nat
    BY <2>2 DEF NoRefs
  <2>4. \A i \in DOMAIN inodes :
          inodes'[i].refs = IF i = fd[t] THEN refs[t] + 1 ELSE inodes[i].refs
    BY <2>1, <2>2, <2>3, CounterTypes DEF HeldInv, CountInv
  <2>5. \A i \in DOMAIN inodes : inodes'[i].refs \in {inodes[i].refs, inodes[i].refs + 1}
    BY <2>2, <2>4
  <2> QED
    BY <2>1, <2>5, HeldReturn
<1> QED
  BY <1>1, <1>2 DEF IncRef

\* A reference is given back; the last one takes the name of the file away, and then
\* no other call has it open to change its counter.
LEMMA HeldDecRef ==
  ASSUME NamesDiffer, HeldInv, CountInv', NamesInv', NEW t \in Threads, DecRef(t)
  PROVE  HeldInv'
<1> USE DEF HeldInv, CountInv
<1>1. pc[t] = "update" /\ Of(t, "dec") /\ Return(t) /\ UNCHANGED held
  BY DEF DecRef
<1>2. H(t) \in Hashes /\ fd[t] \in DOMAIN inodes /\ fd[t] = Inode(H(t)) /\ BlockExists(H(t))
  <2>1. H(t) \in Hashes /\ fd[t] \in DOMAIN inodes /\ fd[t] # None
    BY <1>1, CallTyped, InodesTyped DEF TypeInv
  <2>2. fd[t] = Inode(H(t))
    BY <1>1, <2>1 DEF CallerInv
  <2> QED
    BY <2>1, <2>2 DEF BlockExists
<1>3. Only(t) /\ call'[t] = None
  BY <1>1, ReturnOnly
<1>4. t \in Giving(H(t))
  BY <1>1, OneGiving DEF TypeInv
<1>5. \A h \in Hashes :
        /\ Owing(h) \in Nat /\ Owing(h)' \in Nat /\ Owing(h)' <= Owing(h)
        /\ h = H(t) => Owing(h) >= 1 /\ Owing(h)' = Owing(h) - 1
  <2> TAKE h \in Hashes
  <2>1. held'[h] = held[h] /\ held[h] \in Nat /\ Cardinality(Giving(h)) \in Nat
    BY <1>1, GivingTyped DEF TypeInv
  <2>2. Cardinality(Giving(h))' \in Nat /\ Cardinality(Giving(h))' <= Cardinality(Giving(h))
    BY <1>3, GivingReturn
  <2>3. h = H(t) => /\ Cardinality(Giving(h)) >= 1
                    /\ Cardinality(Giving(h))' = Cardinality(Giving(h)) - 1
    BY <1>3, <1>4, GivingReturn, GivingTyped DEF TypeInv
  <2>4. Owing(h)' = held'[h] + Cardinality(Giving(h))'
    BY DEF Owing
  <2> QED
    BY <2>1, <2>2, <2>3, <2>4 DEF Owing
<1>6. refs[t] \in Nat \ {0} /\ refs[t] = inodes[fd[t]].refs /\ refs[t] = owed[fd[t]]
  BY <1>1, ReadIsOwed
<1>7. refs[t] >= Owing(H(t))
  <2>1. Owing(H(t)) >= 1 /\ Owing(H(t)) \in Nat
    BY <1>2, <1>5
  <2>2. Owing(H(t)) > 0
    BY <2>1
  <2>3. inodes[Inode(H(t))].refs >= Owing(H(t))
    BY <1>2, <2>2 DEF RefInv
  <2> QED
    BY <1>2, <1>6, <2>3
<1>8. \A h \in Hashes : h # H(t) => Inode(h)' = Inode(h)
  <2>1. named' = named \/ named' = [named EXCEPT ![Hexify(H(t))] = None]
    BY DEF DecRef
  <2>2. \A h \in Hashes : h # H(t) => Hexify(h) \in Names /\ Hexify(h) # Hexify(H(t))
    BY <1>2, NameOf DEF NamesDiffer
  <2> QED
    BY <2>1, <2>2 DEF Inode, TypeInv, TypeOK
<1>9. /\ ~Last(t) => UNCHANGED named
      /\ \A i \in DOMAIN inodes : inodes'[i].refs =
           IF i = fd[t] /\ ~Last(t) THEN refs[t] - 1 ELSE inodes[i].refs
  <2>1. CASE Last(t)
    BY <2>1 DEF DecRef
  <2>2. CASE ~Last(t)
    <3>1. SetCounter(fd[t], refs[t] - 1, owed[fd[t]] - 1) /\ UNCHANGED named
      BY <2>2 DEF DecRef, SetCounter
    <3>2. refs[t] - 1 \in Nat /\ refs[t] - 1 # NoRefs /\ owed[fd[t]] - 1 \in Nat
      BY <1>6, <2>2 DEF NoRefs, Last
    <3>3. \A i \in DOMAIN inodes :
            inodes'[i].refs = IF i = fd[t] THEN refs[t] - 1 ELSE inodes[i].refs
      BY <1>2, <3>1, <3>2, CounterTypes
    <3> QED
      BY <2>2, <3>1, <3>3
  <2> QED
    BY <2>1, <2>2
<1>10. RefInv'
  <2> SUFFICES ASSUME NEW h \in Hashes, Owing(h)' > 0
               PROVE  BlockExists(h)' /\ inodes'[Inode(h)'].refs >= Owing(h)'
    BY DEF RefInv
  <2>1. Owing(h) > 0
    BY <1>5
  <2>2. BlockExists(h) /\ inodes[Inode(h)].refs >= Owing(h) /\ Inode(h) \in DOMAIN inodes
    BY <2>1, InodeTyped DEF RefInv, TypeInv
  <2>3. CASE h # H(t)
    <3>1. Inode(h) # fd[t]
      BY <1>2, <2>2, <2>3, OneName
    <3>2. inodes'[Inode(h)].refs = inodes[Inode(h)].refs /\ inodes[Inode(h)].refs \in Nat
      BY <1>9, <2>2, <3>1, InodeTyped DEF TypeInv
    <3> QED
      BY <1>5, <1>8, <2>2, <2>3, <3>2 DEF BlockExists
  <2>4. CASE h = H(t)
    <3>1. ~Last(t)
      BY <1>5, <1>7, <2>4 DEF Last
    <3>2. Inode(h)' = Inode(h) /\ inodes'[Inode(h)].refs = refs[t] - 1
      BY <1>2, <1>9, <2>4, <3>1 DEF Inode
    <3> QED
      BY <1>5, <1>6, <1>7, <2>2, <2>4, <3>2 DEF BlockExists
  <2> QED
    BY <2>3, <2>4
<1>11. \A u \in Threads \ {t} : call'[u] = call[u]
  BY <1>1, ReturnOnly, OthersStay
<1>12. ASSUME NEW u \in Threads \ {t}, Of(u, "inc") \/ Of(u, "dec")
       PROVE  Inode(H(u))' = Inode(H(u))
  <2>1. pc[u] # "idle"
    BY <1>12 DEF Of, TypeInv, TypeOK
  <2>2. H(u) \in Hashes /\ H(u)' = H(u)
    BY <1>11, <2>1, CallTyped DEF TypeInv, H
  <2>3. CASE H(u) = H(t)
    <3>1. Owing(H(t)) >= 2
      <4>1. CASE Of(u, "dec")
        <5>1. u \in Giving(H(t))
          BY <2>3, <4>1, OneGiving DEF TypeInv
        <5>2. Cardinality(Giving(H(t))) >= 2
          BY <1>2, <1>4, <5>1, TwoGiving DEF TypeInv
        <5> QED
          BY <1>2, <5>2, GivingTyped DEF TypeInv, Owing
      <4>2. CASE Of(u, "inc")
        <5>1. held[H(t)] > 0
          BY <1>2, <2>3, <4>2, OneTaking DEF TypeInv, CallerInv
        <5>2. Cardinality(Giving(H(t))) >= 1 /\ Cardinality(Giving(H(t))) \in Nat
              /\ held[H(t)] \in Nat
          BY <1>2, <1>4, GivingTyped DEF TypeInv
        <5> QED
          BY <5>1, <5>2 DEF Owing
      <4> QED
        BY <1>12, <4>1, <4>2
    <3>2. ~Last(t)
      BY <1>2, <1>5, <1>6, <1>7, <3>1 DEF Last
    <3> QED
      BY <1>9, <2>2, <3>2 DEF Inode
  <2>4. CASE H(u) # H(t)
    <3>1. PICK h \in Hashes : h = H(u)
      BY <2>2
    <3> QED
      BY <1>8, <2>2, <2>4, <3>1 DEF Inode
  <2> QED
    BY <2>3, <2>4
<1>13. ASSUME NEW u \in Threads \ {t}, Of(u, "store"), Owing(H(u)) = 0
       PROVE  Owing(H(u))' = 0 /\ Inode(H(u))' = Inode(H(u))
  <2>1. pc[u] # "idle"
    BY <1>13 DEF Of, TypeInv, TypeOK
  <2>2. H(u) \in Hashes /\ H(u)' = H(u)
    BY <1>11, <2>1, CallTyped DEF TypeInv, H
  <2>3. PICK h \in Hashes : h = H(u)
    BY <2>2
  <2>4. Owing(H(u))' = Owing(h)' /\ h # H(t)
    BY <1>2, <1>5, <1>11, <1>13, <2>3, OwingAt
  <2> QED
    BY <1>5, <1>8, <1>13, <2>2, <2>3, <2>4 DEF Inode
<1>14. CallerInv' /\ SerialInv' /\ StoreInv'
  BY <1>1, <1>12, <1>13, HeldOthers
<1> QED
  BY <1>10, <1>14

\* A call begins: the reference that it gives back is not its caller's from now on.
LEMMA HeldCall == ASSUME Serial, HeldInv, CountInv', NamesInv', NEW t \in Threads, Call(t) PROVE HeldInv'
<1> USE DEF HeldInv, CountInv
<1>1. PICK op \in Ops, h \in Hashes :
        /\ Legal(op, h)
        /\ call' = [call EXCEPT ![t] = [op |-> op, hash |-> h]]
        /\ pc' = [pc EXCEPT ![t] = IF op \in {"store", "load"} THEN "exists" ELSE "open"]
        /\ held' = IF op = "dec" THEN [held EXCEPT ![h] = @ - 1] ELSE held
  BY DEF Call
<1>2. pc[t] = "idle" /\ call[t] = None /\ fd[t] = None /\ UNCHANGED <<named, inodes, fd>>
  BY DEF Call, TypeInv, TypeOK
<1>3. /\ call'[t] = [op |-> op, hash |-> h] /\ call'[t] # None
      /\ pc'[t] = (IF op \in {"store", "load"} THEN "exists" ELSE "open")
      /\ \A u \in Threads \ {t} : call'[u] = call[u] /\ pc'[u] = pc[u]
  BY <1>1, NoneAssumption DEF TypeInv, TypeOK, Requests
<1>4. \A g \in Hashes : Owing(g)' = Owing(g)
  <2> TAKE g \in Hashes
  <2>1. /\ held[g] \in Nat /\ IsFiniteSet(Giving(g)) /\ Cardinality(Giving(g)) \in Nat
    BY GivingTyped DEF TypeInv
  <2>2. Owing(g)' = held'[g] + Cardinality(Giving(g)')
    BY DEF Owing
  <2>3. CASE op = "dec" /\ g = h
    <3>1. Giving(g)' = Giving(g) \cup {t}
      BY <1>3, <2>3 DEF Giving
    <3>2. t \notin Giving(g)
      BY <1>2, NoneAssumption DEF Giving, Requests, Ops
    <3>3. Cardinality(Giving(g)') = Cardinality(Giving(g)) + 1
      BY <2>1, <3>1, <3>2, FS_AddElement
    <3>4. held'[g] = held[g] - 1
      BY <1>1, <2>3 DEF TypeInv, TypeOK
    <3> QED
      BY <2>1, <2>2, <3>3, <3>4 DEF Owing
  <2>4. CASE ~(op = "dec" /\ g = h)
    <3>1. Giving(g)' = Giving(g)
      BY <1>2, <1>3, <2>4, NoneAssumption DEF Giving, Requests, Ops
    <3>2. held'[g] = held[g]
      BY <1>1, <2>4 DEF TypeInv, TypeOK
    <3> QED
      BY <2>2, <3>1, <3>2 DEF Owing
  <2> QED
    BY <2>3, <2>4
<1>5. \A g : Inode(g)' = Inode(g) /\ BlockExists(g)' = BlockExists(g)
  BY <1>2 DEF Inode, BlockExists
<1>6. RefInv'
  BY <1>2, <1>4, <1>5 DEF RefInv
<1>7. CallerInv'
  <2>1. ASSUME NEW g \in Hashes, Active("inc", g)' PROVE held'[g] > 0
    <3>1. held[g] \in Nat
      BY DEF TypeInv, TypeOK
    <3>2. CASE op = "inc" /\ g = h
      BY <1>1, <3>2 DEF Legal
    <3>3. CASE ~(op = "inc" /\ g = h)
      <4>1. Active("inc", g)
        BY <1>3, <2>1, <3>3 DEF Active
      <4>2. held[g] > 0
        BY <4>1 DEF CallerInv
      <4>3. op = "dec" /\ g = h => held[g] > 1
        BY <1>1, <4>1 DEF Legal
      <4> QED
        BY <1>1, <3>1, <4>2, <4>3 DEF TypeInv, TypeOK
    <3> QED
      BY <3>2, <3>3
  <2>2. ASSUME NEW u \in Threads, (Of(u, "inc") \/ Of(u, "dec"))', fd'[u] # None
        PROVE  fd'[u] = Inode(H(u))'
    <3>1. u # t /\ call'[u] = call[u]
      BY <1>2, <1>3, <2>2
    <3>2. fd[u] = Inode(H(u))
      BY <1>2, <2>2, <3>1 DEF CallerInv, Of
    <3> QED
      BY <1>2, <3>1, <3>2 DEF Inode, H
  <2> QED
    BY <2>1, <2>2 DEF CallerInv
<1>8. SerialInv'
  <2>1. Locked(op) => \A u \in Threads : call[u] # None => ~Locked(call[u].op)
    BY <1>1 DEF Legal
  <2>2. call'[t].op = op
    BY <1>3
  <2> QED
    BY <1>3, <2>1, <2>2 DEF SerialInv
<1>9. StoreInv'
  <2> SUFFICES ASSUME NEW u \in Threads, Of(u, "store")', pc'[u] # "exists"
               PROVE  /\ Owing(H(u))' = 0
                      /\ IF pc'[u] = "open" THEN ~BlockExists(H(u))' ELSE Inode(H(u))' = fd'[u]
    BY DEF StoreInv
  <2>1. u # t
    BY <1>3 DEF Of
  <2>2. call'[u] = call[u] /\ pc'[u] = pc[u] /\ Of(u, "store")
    BY <1>3, <2>1 DEF Of
  <2>3. Owing(H(u)) = 0 /\ IF pc[u] = "open" THEN ~BlockExists(H(u)) ELSE Inode(H(u)) = fd[u]
    BY <2>2 DEF StoreInv
  <2>4. pc[u] # "idle"
    BY <2>2 DEF Of, TypeInv, TypeOK
  <2>5. PICK g \in Hashes : g = H(u)
    BY <2>4, CallTyped DEF TypeInv
  <2>6. Owing(H(u))' = Owing(g)'
    BY <2>2, <2>5, OwingAt
  <2> QED
    BY <1>2, <1>4, <2>2, <2>3, <2>5, <2>6 DEF Inode, BlockExists, H
<1> QED
  BY <1>6, <1>7, <1>8, <1>9

\* At first nobody has a reference.
LEMMA InitHeld == Init => HeldInv
<1> SUFFICES ASSUME Init PROVE HeldInv
  OBVIOUS
<1>1. CountInv /\ NamesInv
  BY InitCount, InitNames
<1>2. ASSUME NEW h \in Hashes PROVE Owing(h) = 0 /\ ~Active("inc", h)
  <2>1. [op |-> "dec", hash |-> h] # None /\ [op |-> "inc", hash |-> h] # None
    BY NoneAssumption DEF Requests, Ops
  <2>2. Giving(h) = {}
    BY <2>1 DEF Init, Giving
  <2> QED
    BY <2>1, <2>2, FS_EmptySet DEF Init, Owing, Active
<1> QED
  BY <1>1, <1>2 DEF Init, HeldInv, RefInv, CallerInv, SerialInv, StoreInv, Of

\* Every step keeps the references covered.
LEMMA StepHeld == Serial /\ NamesDiffer /\ HeldInv /\ [Next]_vars => HeldInv'
<1> SUFFICES ASSUME Serial, NamesDiffer, HeldInv, [Next]_vars PROVE HeldInv'
  OBVIOUS
<1>1. CountInv'
  BY StepCount DEF HeldInv
<1>2. CASE UNCHANGED vars
  BY <1>1, <1>2 DEF vars, locals, HeldInv, NamesInv, RefInv, CallerInv, SerialInv, StoreInv,
    BlockExists, Inode, H, Of, Owing, Giving, Active
<1>3. CASE Next
  <2>1. PICK t \in Threads : Call(t) \/ Step(t) \/ Fails(t)
    BY <1>3 DEF Next
  <2>2. NamesInv'
    BY <2>1, NamesStep DEF HeldInv, CountInv
  <2>3. CASE GetRefs(t)
    BY <1>1, <2>2, <2>3, HeldReturn DEF GetRefs, TakeLock
  <2>4. CASE Read(t)
    BY <1>1, <2>2, <2>4, HeldReturn DEF Read
  <2>5. CASE Fails(t)
    BY <1>1, <2>2, <2>5, HeldReturn DEF Fails
  <2> QED
    BY <1>1, <2>1, <2>2, <2>3, <2>4, <2>5, HeldCall, HeldExists, HeldOpen, HeldLock,
      HeldWriteRefs, HeldWriteData, HeldReadCount, HeldIncRef, HeldDecRef DEF Step
<1> QED
  BY <1>2, <1>3

\* A block to which somebody has a reference stays, with a counter that covers all the
\* references, though calls that began before may fail or go on when others end, and
\* may have files open that are unlinked by then (store_block, block_inc_ref,
\* block_dec_ref); for callers who make the first of these under cfs_state_t.lock.
THEOREM HeldStay == ASSUME Serial, NamesDiffer PROVE Spec => []HeldBlocksStay
<1>1. HeldInv => HeldBlocksStay
  <2> SUFFICES ASSUME HeldInv, NEW h \in Hashes, held[h] > 0
               PROVE  BlockExists(h) /\ inodes[Inode(h)].refs >= held[h]
    BY DEF HeldBlocksStay
  <2>1. Owing(h) \in Nat /\ held[h] \in Nat /\ Owing(h) >= held[h]
    BY GivingTyped DEF HeldInv, CountInv, TypeInv
  <2>2. BlockExists(h) /\ inodes[Inode(h)].refs >= Owing(h)
    BY <2>1 DEF HeldInv, RefInv
  <2>3. inodes[Inode(h)].refs \in Nat
    BY <2>2, InodeTyped DEF HeldInv, CountInv, TypeInv
  <2> QED
    BY <2>1, <2>2, <2>3
<1>2. HeldInv /\ [Next]_vars => HeldInv'
  BY StepHeld
<1> QED
  BY InitHeld, <1>1, <1>2, PTL DEF Spec

=============================================================================
