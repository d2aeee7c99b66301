--------------------------- MODULE CfsFileProofs ---------------------------
(***************************************************************************)
(* Theorems about module CfsFile, for every number of threads, handles,    *)
(* files, indexes and blocks, and every bound.                             *)
(***************************************************************************)
EXTENDS CfsFile, TLAPS, WellFoundedInduction

(* The bodies that the actions make out of bodies are sequences of pairs.   *)

\* A pair of a body that gets another hash is a pair.
LEMMA PairType ==
  ASSUME NEW body \in Seq(Pair), NEW k \in 1..Len(body),
         NEW hash \in Blocks \cup Marks
  PROVE  [body[k] EXCEPT !.hash = hash] \in Pair
<1>1. body[k] \in Pair
  OBVIOUS
<1> QED
  BY <1>1 DEF Pair

\* The body with its last pair completed is a body.
LEMMA CompletedType ==
  ASSUME NEW body \in Seq(Pair), NEW b \in Blocks
  PROVE  /\ Completed(body, b) \in Seq(Pair)
         /\ Len(Completed(body, b)) = Len(body)
<1>1. \A k \in 1..Len(body) : [body[k] EXCEPT !.hash = b] \in Pair
  BY PairType
<1> QED
  BY <1>1 DEF Completed

\* The body that is written over at its end is a body.
LEMMA SmashedType ==
  ASSUME NEW body \in Seq(Pair)
  PROVE  /\ Smashed(body) \in Seq(Pair)
         /\ Len(Smashed(body)) = Len(body)
<1>1. [index |-> Junk, hash |-> "torn"] \in Pair
  BY DEF Pair, Marks
<1>2. \A k \in 1..Len(body) : [body[k] EXCEPT !.hash = "bad"] \in Pair
  BY PairType DEF Marks
<1> QED
  BY <1>1, <1>2 DEF Smashed

\* A set of numbers that is not empty has its least one.
LEMMA MinIn ==
  ASSUME NEW S \in SUBSET Nat, S # {}
  PROVE  Min(S) \in S
<1> DEFINE Less == {ss \in Nat \X Nat : ss[1] < ss[2]}
<1>1. IsWellFoundedOn(Less, Nat)
  BY NatLessThanWellFounded DEF OpToRel
<1> HIDE DEF Less
<1>2. PICK x \in S : \A y \in S : ~(<<y, x>> \in Less)
  BY <1>1, WFMin
<1>3. \A y \in S : ~(y < x)
  BY <1>2 DEF Less
<1>4. \A y \in S : x <= y
  BY <1>3
<1> QED
  BY <1>4 DEF Min

\* The search ends at a pair of the body, or at none.
LEMMA FindIn ==
  ASSUME NEW h, NEW i, FindIndex(h, i) # 0, meta[cache[h].file].body \in Seq(Pair)
  PROVE  FindIndex(h, i) \in DOMAIN meta[cache[h].file].body
<1> DEFINE body == meta[cache[h].file].body
<1>1. Hits(body, i) # {} /\ FindIndex(h, i) = Min(Hits(body, i))
  BY DEF FindIndex
<1>2. Hits(body, i) \in SUBSET (DOMAIN body) /\ DOMAIN body \subseteq Nat
  BY DEF Hits
<1> QED
  BY <1>1, <1>2, MinIn

\* The gap is a pair of the body, where there is one.
LEMMA GapIn ==
  ASSUME NEW body \in Seq(Pair), GapAt(body) # 0
  PROVE  GapAt(body) \in 1..Len(body) /\ body[GapAt(body)].hash = "zero"
<1> DEFINE gaps == {j \in DOMAIN body : body[j].hash = "zero"}
<1>1. gaps # {} /\ GapAt(body) = Min(gaps)
  BY DEF GapAt
<1>2. gaps \in SUBSET Nat
  OBVIOUS
<1>3. Min(gaps) \in gaps
  BY <1>1, <1>2, MinIn
<1> QED
  BY <1>1, <1>3

\* The names of blocks in a body.
Names(body) == {body[k].hash : k \in DOMAIN body} \cap Blocks

\* What a rewrite that lands far makes of a body: it gets no shorter, and what
\* differs, or is new, is behind a gap or is one, and names no other blocks.
FarBody(body, next) ==
  /\ next \in Seq(Pair)
  /\ Len(body) <= Len(next)
  /\ \A j \in 1..Len(next) :
       \/ j <= Len(body) /\ next[j] = body[j]
       \/ /\ next[j].hash \in Names(body) \cup {"bad", "zero"}
          /\ j <= Len(body) => \E i \in 1..(j - 1) : body[i].hash = "zero"

\* A body as it was is one of these.
LEMMA FarSame ==
  ASSUME NEW body \in Seq(Pair)
  PROVE  FarBody(body, body)
  BY DEF FarBody

\* So is one with a gap behind it.
LEMMA FarGap ==
  ASSUME NEW body \in Seq(Pair)
  PROVE  FarBody(body, Append(body, [index |-> 0, hash |-> "zero"]))
<1> DEFINE pair == [index |-> 0, hash |-> "zero"]
           next == Append(body, pair)
<1>1. pair \in Pair /\ pair.hash = "zero"
  BY DEF Pair, Marks
<1> HIDE DEF pair
<1>2. next \in Seq(Pair) /\ Len(next) = Len(body) + 1 /\ next[Len(body) + 1] = pair
  BY <1>1
<1>3. \A j \in 1..Len(body) : next[j] = body[j]
  BY <1>1
<1> HIDE DEF next
<1>4. \A j \in 1..Len(next) : j \in 1..Len(body) \/ j = Len(body) + 1
  BY <1>2
<1>5. Len(body) \in Nat
  OBVIOUS
<1>6. \A j \in 1..Len(next) :
        \/ j <= Len(body) /\ next[j] = body[j]
        \/ j > Len(body) /\ next[j].hash = "zero"
  BY <1>1, <1>2, <1>3, <1>4, <1>5
<1>7. FarBody(body, next)
  BY <1>2, <1>5, <1>6 DEF FarBody
<1> QED
  BY <1>7 DEF next, pair

\* So is one with the hash of a pair behind the gap overwritten.
LEMMA FarStamped ==
  ASSUME NEW body \in Seq(Pair), GapAt(body) # 0,
         NEW place \in Int, place > GapAt(body),
         NEW mark \in Names(body) \cup {"bad"}
  PROVE  FarBody(body, Stamped(body, place, mark))
<1> DEFINE next == Stamped(body, place, mark)
           n == IF place > Len(body) THEN place ELSE Len(body)
<1>1. n \in Nat /\ Len(body) <= n /\ DOMAIN body = 1..Len(body)
  OBVIOUS
<1>2. GapAt(body) \in 1..Len(body) /\ body[GapAt(body)].hash = "zero"
  BY GapIn
<1>3. mark \in Blocks \cup Marks
  BY DEF Names, Marks
<1>4. \A j \in 1..Len(body) : body[j] \in Pair /\ body[j].index \in Indexes \cup {0, Junk}
  <2>1. \A j \in 1..Len(body) : body[j] \in Pair
    OBVIOUS
  <2> QED
    BY <2>1 DEF Pair
<1>5. next = [j \in 1..n |->
         IF j = place
           THEN [index |-> IF j \in DOMAIN body THEN body[j].index ELSE 0, hash |-> mark]
         ELSE IF j \in DOMAIN body THEN body[j]
         ELSE [index |-> 0, hash |-> "bad"]]
  BY DEF Stamped
<1> HIDE DEF next, n
<1>6. \A j \in 1..n : next[j] \in Pair
  BY <1>1, <1>3, <1>4, <1>5 DEF Pair, Marks
<1>7. next \in Seq(Pair) /\ Len(next) = n
  BY <1>1, <1>5, <1>6
<1>8. ASSUME NEW j \in 1..n
      PROVE  \/ j <= Len(body) /\ next[j] = body[j]
             \/ /\ next[j].hash \in Names(body) \cup {"bad", "zero"}
                /\ j <= Len(body) => \E i \in 1..(j - 1) : body[i].hash = "zero"
  <2>1. CASE j = place
    <3>1. next[j].hash = mark
      BY <1>5, <2>1
    <3>2. GapAt(body) \in 1..(j - 1)
      BY <1>2, <2>1
    <3> QED
      BY <1>2, <3>1, <3>2
  <2>2. CASE j # place /\ j \in DOMAIN body
    BY <1>1, <1>5, <2>2
  <2>3. CASE j # place /\ j \notin DOMAIN body
    BY <1>1, <1>5, <2>3
  <2> QED
    BY <2>1, <2>2, <2>3
<1> QED
  BY <1>1, <1>7, <1>8 DEF FarBody, next

\* So is one with any of the hashes behind the gap overwritten.
LEMMA FarAny ==
  ASSUME NEW body \in Seq(Pair), GapAt(body) # 0,
         NEW over \in SUBSET {j \in DOMAIN body : j > GapAt(body) /\ body[j].hash # "torn"},
         NEW mark \in Names(body) \cup {"bad"}
  PROVE  FarBody(body, [j \in DOMAIN body |->
                          IF j \in over THEN [body[j] EXCEPT !.hash = mark] ELSE body[j]])
<1> DEFINE next == [j \in DOMAIN body |->
                      IF j \in over THEN [body[j] EXCEPT !.hash = mark] ELSE body[j]]
<1>1. GapAt(body) \in 1..Len(body) /\ body[GapAt(body)].hash = "zero"
  BY GapIn
<1>2. mark \in Blocks \cup Marks
  BY DEF Names, Marks
<1>3. DOMAIN body = 1..Len(body) /\ Len(body) \in Nat
  OBVIOUS
<1>4. \A j \in 1..Len(body) : body[j] \in Pair
  OBVIOUS
<1>5. \A j \in 1..Len(body) : [body[j] EXCEPT !.hash = mark] \in Pair
  BY <1>2, PairType
<1>6. next \in Seq(Pair) /\ Len(next) = Len(body)
  BY <1>3, <1>4, <1>5
<1>7. \A j \in over : [body[j] EXCEPT !.hash = mark].hash = mark
  BY <1>3, <1>4 DEF Pair
<1>8. ASSUME NEW j \in 1..Len(body)
      PROVE  \/ next[j] = body[j]
             \/ /\ next[j].hash \in Names(body) \cup {"bad", "zero"}
                /\ \E i \in 1..(j - 1) : body[i].hash = "zero"
  <2>1. CASE j \notin over
    BY <1>3, <2>1
  <2>2. CASE j \in over
    <3>1. next[j].hash = mark
      BY <1>3, <1>7, <2>2
    <3>2. GapAt(body) \in 1..(j - 1)
      BY <1>1, <1>3, <2>2
    <3> QED
      BY <1>1, <3>1, <3>2
  <2> QED
    BY <2>1, <2>2
<1> HIDE DEF next
<1>9. FarBody(body, next)
  BY <1>3, <1>6, <1>8 DEF FarBody
<1> QED
  BY <1>9 DEF next

\* What a rewrite that lands far makes of a file.
LEMMA FarIs ==
  ASSUME NEW file \in FileState, NEW k \in DOMAIN file.body, NEW out \in FarFiles(file, k)
  PROVE  /\ out \in FileState
         /\ out.size = file.size /\ out.total = file.total
         /\ FarBody(file.body, out.body)
<1> DEFINE body == file.body
           gap == GapAt(body)
           place == gap + k - file.base
           mark == IF body[k].hash \in Blocks THEN body[k].hash ELSE "bad"
           tail == {j \in DOMAIN body : j > gap /\ body[j].hash # "torn"}
           Any(over, m) == [j \in DOMAIN body |->
                              IF j \in over THEN [body[j] EXCEPT !.hash = m] ELSE body[j]]
<1>1. body \in Seq(Pair) /\ k \in Nat /\ file.base \in Nat
  BY DEF FileState
<1>2. mark \in Names(body) \cup {"bad"}
  BY DEF Names
<1>3. ASSUME NEW next, FarBody(body, next), NEW base \in Nat
      PROVE  LET new == [file EXCEPT !.body = next, !.base = base]
             IN  /\ new \in FileState /\ new.body = next
                 /\ new.size = file.size /\ new.total = file.total
  BY <1>3 DEF FarBody, FileState
<1>4. ASSUME NEW next, FarBody(body, next)
      PROVE  LET new == [file EXCEPT !.body = next]
             IN  /\ new \in FileState /\ new.body = next
                 /\ new.size = file.size /\ new.total = file.total
  BY <1>4 DEF FarBody, FileState
<1>5. CASE gap = 0
  <2>1. out = [file EXCEPT !.body = Append(body, [index |-> 0, hash |-> "zero"]), !.base = k]
    BY <1>5 DEF FarFiles
  <2> DEFINE next == Append(body, [index |-> 0, hash |-> "zero"])
  <2>2. FarBody(body, next)
    BY <1>1, FarGap
  <2> HIDE DEF next
  <2>3. LET new == [file EXCEPT !.body = next, !.base = k]
        IN  /\ new \in FileState /\ new.body = next
            /\ new.size = file.size /\ new.total = file.total
    BY <1>1, <1>3, <2>2
  <2>4. out = [file EXCEPT !.body = next, !.base = k]
    BY <2>1 DEF next
  <2> QED
    BY <2>2, <2>3, <2>4
<1>6. CASE gap # 0 /\ \E j \in DOMAIN body : body[j].hash = "torn"
  <2>1. PICK over \in SUBSET tail, m \in {mark, "bad"} :
          out = [file EXCEPT !.body = Any(over, m)]
    BY <1>6 DEF FarFiles
  <2>2. FarBody(body, Any(over, m))
    BY <1>1, <1>2, <1>6, FarAny
  <2> HIDE DEF Any
  <2> QED
    BY <1>4, <2>1, <2>2
<1>7. CASE gap # 0 /\ ~(\E j \in DOMAIN body : body[j].hash = "torn") /\ place > gap
  <2>1. out = [file EXCEPT !.body = Stamped(body, place, mark)]
    BY <1>7 DEF FarFiles
  <2>2. place \in Int
    BY <1>1, <1>7, GapIn
  <2>3. FarBody(body, Stamped(body, place, mark))
    BY <1>1, <1>2, <1>7, <2>2, FarStamped
  <2> HIDE DEF place, mark
  <2> QED
    BY <1>4, <2>1, <2>3
<1>8. CASE gap # 0 /\ ~(\E j \in DOMAIN body : body[j].hash = "torn") /\ ~(place > gap)
  <2>1. out = file
    BY <1>8 DEF FarFiles
  <2> QED
    BY <1>1, <2>1, FarSame
<1> QED
  BY <1>5, <1>6, <1>7, <1>8

-----------------------------------------------------------------------------
(* Type correctness.                                                        *)

\* A new store and new files are well typed.
LEMMA TypeInit == Init => TypeOK
<1>1. NewFile \in FileState
  BY DEF NewFile, FileState
<1>2. Closed \in HandleState
  BY DEF Closed, HandleState
<1>3. NoFile \in Int
  BY DEF NoFile
<1>4. SUFFICES ASSUME Init PROVE TypeOK
  OBVIOUS
<1>5. meta \in [Files -> FileState] /\ cache \in [Handles -> HandleState]
  BY <1>1, <1>2, <1>4 DEF Init
<1>6. blocks \in [Blocks -> Int]
  BY <1>3, <1>4 DEF Init
<1>7. pc \in [Threads -> Labels] /\ ret \in [Threads -> Answers]
  BY <1>4 DEF Init, Labels, Answers
<1> QED
  BY <1>4, <1>5, <1>6, <1>7 DEF Init, TypeOK

\* cfs_register_file keeps the types.
LEMMA TypeOpen ==
  ASSUME TypeOK, NEW h \in Handles, NEW f \in Files, Open(h, f)
  PROVE  TypeOK'
<1>1. cache' \in [Handles -> HandleState]
  BY DEF TypeOK, Open, HandleState, FileState
<1>2. \A g \in Handles : cache[g].file # None => cache'[g].file # None
  BY NoneAssumption DEF TypeOK, Open
<1>3. \A t \in Threads : pc[t] # "idle" => req[t].handle \in Handles
  BY DEF TypeOK, Requests
<1> QED
  BY <1>1, <1>2, <1>3 DEF TypeOK, Open

\* cfs_release_file keeps the types: no request uses the handle.
LEMMA TypeRelease ==
  ASSUME TypeOK, NEW h \in Handles, Release(h)
  PROVE  TypeOK'
<1>1. cache' \in [Handles -> HandleState]
  BY DEF TypeOK, Release, HandleState, Closed
<1> QED
  BY <1>1 DEF TypeOK, Release

\* A crash keeps the types: it closes handles with their requests.
LEMMA TypeCrash ==
  ASSUME TypeOK, Crash
  PROVE  TypeOK'
<1>1. cache' \in [Handles -> HandleState]
  BY DEF Crash, Closed, HandleState
<1>2. crashes' \in Nat
  BY DEF TypeOK, Crash
<1> QED
  BY <1>1, <1>2 DEF TypeOK, Crash, Labels, Answers

\* A new request is on an open handle.
LEMMA TypeCall ==
  ASSUME TypeOK, NEW t \in Threads, Call(t)
  PROVE  TypeOK'
<1>1. PICK r \in Requests : /\ cache[r.handle].file # None
                            /\ req' = [req EXCEPT ![t] = r]
  BY DEF Call
<1>2. req' \in [Threads -> Requests \cup {None}]
  BY <1>1 DEF TypeOK
<1>3. pc' = [pc EXCEPT ![t] = "wait"]
  BY DEF Call
<1>4. ret' \in [Threads -> Answers]
  BY DEF TypeOK, Call, Answers
<1>5. \A u \in Threads : pc'[u] # "idle" =>
        req'[u] # None /\ cache[req'[u].handle].file # None
  BY <1>1, <1>3, NoneAssumption DEF TypeOK
<1>6. \A u \in Threads : pc'[u] \notin {"idle", "wait", "find"} =>
        req'[u].op = "write"
  BY <1>1, <1>3 DEF TypeOK
<1> QED
  BY <1>2, <1>3, <1>4, <1>5, <1>6 DEF TypeOK, Call, Labels

(* What a thread with a request works on.                                   *)
LEMMA RequestType ==
  ASSUME TypeOK, NEW t \in Threads, pc[t] # "idle"
  PROVE  /\ req[t] \in Requests
         /\ req[t].handle \in Handles
         /\ req[t].index \in Indexes
         /\ cache[req[t].handle].file \in Files
         /\ req[t].op = "write" => req[t].block \in Blocks
<1>1. req[t] \in Requests
  BY DEF TypeOK
<1>2. req[t].handle \in Handles /\ req[t].index \in Indexes
  BY <1>1 DEF Requests
<1>3. req[t].op = "write" => req[t].block \in Blocks
  BY <1>1 DEF Requests
<1>4. cache[req[t].handle].file \in Files
  BY <1>2 DEF TypeOK, HandleState
<1> QED
  BY <1>1, <1>2, <1>3, <1>4

(* A step of a thread goes to a label of its request or returns.            *)
LEMMA TypeGoto ==
  ASSUME TypeOK, NEW t \in Threads, NEW label \in Labels,
         pc[t] # "idle", Goto(t, label), UNCHANGED <<req, requests, crashes>>,
         label \notin {"idle", "wait", "find"} => req[t].op = "write",
         meta' \in [Files -> FileState], blocks' \in [Blocks -> Int],
         cache' \in [Handles -> HandleState],
         \A h \in Handles : cache'[h].file = cache[h].file,
         mutex' \in BOOLEAN, ret' \in [Threads -> Answers], faults' \in Nat
  PROVE  TypeOK'
<1>1. pc' = [pc EXCEPT ![t] = label]
  BY DEF Goto
<1>2. \A u \in Threads : pc'[u] # "idle" => pc[u] # "idle"
  BY <1>1 DEF TypeOK
<1>3. \A u \in Threads : pc[u] # "idle" => req[u].handle \in Handles
  BY RequestType
<1> QED
  BY <1>1, <1>2, <1>3 DEF TypeOK

\* A thread that returns is idle and has an answer.
LEMMA TypeReturn ==
  ASSUME TypeOK, NEW t \in Threads, NEW v \in Answers, Goto(t, "idle"),
         req' = [req EXCEPT ![t] = None], ret' = [ret EXCEPT ![t] = v],
         UNCHANGED <<blocks, cache, requests, crashes>>,
         meta' \in [Files -> FileState], mutex' \in BOOLEAN, faults' \in Nat
  PROVE  TypeOK'
<1>1. pc' = [pc EXCEPT ![t] = "idle"]
  BY DEF Goto
<1> QED
  BY <1>1 DEF TypeOK, Labels

\* A thread that takes the lock starts on the path of its request.
LEMMA TypeAcquire ==
  ASSUME TypeOK, NEW t \in Threads, Acquire(t)
  PROVE  TypeOK'
<1>1. req[t] \in Requests
  BY RequestType DEF Acquire, At
<1> DEFINE label == IF req[t].op = "write" THEN "store" ELSE "find"
<1>2. label \in Labels /\ (label \notin {"idle", "wait", "find"} =>
                            req[t].op = "write")
  BY DEF Labels
<1>3. Goto(t, label)
  BY DEF Acquire
<1> HIDE DEF label
<1> QED
  BY <1>2, <1>3, TypeGoto DEF Acquire, At, TypeOK

\* The block file of a request that writes gets a length.
LEMMA TypeBlocks ==
  ASSUME TypeOK, NEW t \in Threads, pc[t] \in {"store", "refs", "data", "fail"},
         NEW label \in {"refs", "data", "find", "fail"}, Goto(t, label),
         NEW n \in Int,
         blocks' = blocks \/ blocks' = [blocks EXCEPT ![req[t].block] = n],
         mutex' \in BOOLEAN, faults' \in Nat,
         UNCHANGED <<meta, cache, req, ret, requests, crashes>>
  PROVE  TypeOK'
<1>1. blocks' \in [Blocks -> Int]
  BY DEF TypeOK
<1>2. req[t].op = "write"
  BY DEF TypeOK
<1> QED
  BY <1>1, <1>2, TypeGoto DEF TypeOK, Labels

\* A store_block that fails leaves a length, or no file.
LEMMA FailedLengthsType ==
  ASSUME NEW label \in {"store", "refs", "data"}, NEW b \in Blocks
  PROVE  FailedLengths(label, b) \subseteq Int
<1>1. RefSize \in Int /\ NoFile \in Int
  BY SizeAssumption DEF NoFile
<1> QED
  BY <1>1 DEF FailedLengths

\* The steps of store_block keep the types.
LEMMA TypeStore ==
  ASSUME TypeOK, NEW t \in Threads,
         StoreBlock(t) \/ WriteRefs(t) \/ WriteData(t) \/ StoreFails(t)
  PROVE  TypeOK'
<1>1. RefSize \in Int
  BY SizeAssumption
<1>2. CASE StoreBlock(t)
  <2>1. CASE blocks[req[t].block] # NoFile
    BY <1>2, <2>1, TypeBlocks DEF StoreBlock, At, TypeOK
  <2>2. CASE blocks[req[t].block] = NoFile
    BY <1>2, <2>2, TypeBlocks DEF StoreBlock, At, TypeOK
  <2> QED
    BY <2>1, <2>2
<1>3. CASE WriteRefs(t)
  BY <1>1, <1>3, TypeBlocks DEF WriteRefs, At, TypeOK
<1>4. CASE WriteData(t)
  <2>1. Whole(req[t].block) \in Int
    <3>1. req[t].block \in Blocks
      BY <1>4, RequestType DEF WriteData, At, TypeOK
    <3> QED
      BY <3>1, SizeAssumption DEF Whole
  <2> QED
    BY <1>4, <2>1, TypeBlocks DEF WriteData, At, TypeOK
<1>5. CASE StoreFails(t)
  <2>1. pc[t] \in {"store", "refs", "data"}
    BY <1>5 DEF StoreFails, At
  <2>2. req[t].block \in Blocks
    BY <2>1, RequestType DEF TypeOK
  <2>3. PICK n \in FailedLengths(pc[t], req[t].block) :
          blocks' = [blocks EXCEPT ![req[t].block] = n]
    BY <1>5 DEF StoreFails
  <2>4. n \in Int
    BY <2>1, <2>2, <2>3, FailedLengthsType
  <2>5. Goto(t, "fail") /\ faults' \in Nat /\ mutex' \in BOOLEAN
    BY <1>5 DEF StoreFails, Fault, TypeOK
  <2>6. UNCHANGED <<meta, cache, req, ret, requests, crashes>>
    BY <1>5 DEF StoreFails
  <2> QED
    BY <2>1, <2>3, <2>4, <2>5, <2>6, TypeBlocks
<1> QED
  BY <1>2, <1>3, <1>4, <1>5

\* The two unlocks of the error path keep the types.
LEMMA TypeUnlock ==
  ASSUME TypeOK, NEW t \in Threads, Unlock(t) \/ UnlockAgain(t)
  PROVE  TypeOK'
<1>1. CASE Unlock(t)
  BY <1>1, TypeBlocks, TypeGoto DEF Unlock, At, TypeOK, Labels
<1>2. CASE UnlockAgain(t)
  BY <1>2, TypeReturn DEF UnlockAgain, At, TypeOK, Answers
<1> QED
  BY <1>1, <1>2

\* A write past the search changes its file, and its handle's counts.
LEMMA TypeWrite ==
  ASSUME TypeOK, NEW t \in Threads,
         pc[t] # "idle", req[t].op = "write",
         NEW label \in {"hash", "size", "total"}, Goto(t, label),
         meta' \in [Files -> FileState],
         cache' \in [Handles -> HandleState],
         \A h \in Handles : cache'[h].file = cache[h].file,
         faults' \in Nat,
         UNCHANGED <<blocks, mutex, req, ret, requests, crashes>>
  PROVE  TypeOK'
<1>1. label \in Labels
  BY DEF Labels
<1>2. blocks' \in [Blocks -> Int] /\ mutex' \in BOOLEAN /\ ret' \in [Threads -> Answers]
  BY DEF TypeOK
<1> QED
  BY <1>1, <1>2, TypeGoto

\* A file whose body is changed to a body is a file.
LEMMA BodyType ==
  ASSUME TypeOK, NEW f \in Files, NEW body \in Seq(Pair),
         meta' = [meta EXCEPT ![f].body = body]
  PROVE  meta' \in [Files -> FileState]
<1>1. [meta[f] EXCEPT !.body = body] \in FileState
  BY DEF TypeOK, FileState
<1> QED
  BY <1>1 DEF TypeOK

\* Counting a pair keeps the types of the handles.
LEMMA CountType ==
  ASSUME TypeOK, NEW t \in Threads, pc[t] # "idle", req[t].op = "write", Count(t)
  PROVE  /\ cache' \in [Handles -> HandleState]
         /\ \A h \in Handles : cache'[h].file = cache[h].file
<1> DEFINE h == req[t].handle
<1>1. h \in Handles /\ req[t].block \in Blocks
  BY RequestType
<1>2. cache[h].size + SizeOf[req[t].block] \in Int /\ cache[h].total + 1 \in Nat
  BY <1>1, SizeAssumption DEF TypeOK, HandleState
<1>3. cache' = [cache EXCEPT ![h].size = cache[h].size + SizeOf[req[t].block],
                             ![h].total = cache[h].total + 1]
  BY <1>1 DEF Count, TypeOK, HandleState
<1> DEFINE new == [cache[h] EXCEPT !.size = cache[h].size + SizeOf[req[t].block],
                                  !.total = cache[h].total + 1]
<1>4. cache' = [cache EXCEPT ![h] = new]
  BY <1>3
<1>5. new \in HandleState /\ new.file = cache[h].file
  BY <1>1, <1>2 DEF TypeOK, HandleState
<1> HIDE DEF new
<1> QED
  BY <1>1, <1>4, <1>5 DEF TypeOK

\* A search fails at most once more than before.
LEMMA FoundType ==
  ASSUME TypeOK, NEW t \in Threads, NEW k, Found(t, k)
  PROVE  faults' \in Nat
  BY DEF Found, Fault, TypeOK

\* What a rewrite makes of the file of thread t.
LEMMA RewrittenIs ==
  ASSUME TypeOK, NEW t \in Threads, pc[t] # "idle", NEW k \in Positions(t), k # 0,
         Found(t, k), NEW landing \in Landings,
         NEW out \in Rewritten(meta[cache[req[t].handle].file], k, landing)
  PROVE  LET file == meta[cache[req[t].handle].file]
         IN  /\ out \in FileState
             /\ out.size = file.size /\ out.total = file.total
             /\ \/ FarBody(file.body, out.body)
                \/ out.body = Smashed(file.body) /\ AtEnd(file.body, k)
<1> DEFINE file == meta[cache[req[t].handle].file]
<1>1. file \in FileState /\ file.body \in Seq(Pair)
  BY RequestType DEF TypeOK, FileState
<1>2. CASE landing = "far"
  <2>1. k # Astray
    <3>1. "search" \notin Faults
      BY <1>2, SearchAssumption
    <3>2. k = FindIndex(req[t].handle, req[t].index)
      BY <3>1 DEF Found, Fault
    <3> QED
      BY <1>1, <3>2, FindIn DEF Astray
  <2>2. k = FindIndex(req[t].handle, req[t].index)
    BY <2>1 DEF Positions
  <2>3. k \in DOMAIN file.body
    BY <1>1, <2>2, FindIn
  <2>4. out \in FarFiles(file, k)
    BY <1>2 DEF Rewritten
  <2> HIDE DEF file
  <2>5. /\ out \in FileState
        /\ out.size = file.size /\ out.total = file.total
        /\ FarBody(file.body, out.body)
    BY <1>1, <2>3, <2>4, FarIs
  <2> QED
    BY <2>5 DEF file
<1>3. CASE landing # "far"
  <2> DEFINE body == IF AtEnd(file.body, k) THEN Smashed(file.body) ELSE file.body
  <2>1. out = [file EXCEPT !.body = body]
    BY <1>3 DEF Rewritten
  <2>2. body \in Seq(Pair)
    BY <1>1, SmashedType
  <2>3. \/ body = Smashed(file.body) /\ AtEnd(file.body, k)
        \/ body = file.body
    OBVIOUS
  <2> HIDE DEF body, file
  <2>4. out \in FileState /\ out.body = body /\ out.size = file.size /\ out.total = file.total
    BY <1>1, <2>1, <2>2 DEF FileState
  <2>5. FarBody(file.body, file.body)
    BY <1>1, FarSame
  <2>6. /\ out \in FileState
        /\ out.size = file.size /\ out.total = file.total
        /\ \/ FarBody(file.body, out.body)
           \/ out.body = Smashed(file.body) /\ AtEnd(file.body, k)
    BY <2>3, <2>4, <2>5
  <2> QED
    BY <2>6 DEF file
<1> QED
  BY <1>2, <1>3

\* Writing an index again keeps the types, wherever the search ends and the seek
\* lands.
LEMMA TypeReplace ==
  ASSUME TypeOK, NEW t \in Threads, Replace(t)
  PROVE  TypeOK'
<1> DEFINE h == req[t].handle
           f == cache[h].file
<1>0. PICK k \in Positions(t), landing \in Landings :
        /\ Found(t, k)
        /\ k # 0
        /\ \E file \in Rewritten(meta[f], k, landing) : meta' = [meta EXCEPT ![f] = file]
        /\ cache' = [cache EXCEPT ![h].size =
             @ - BlockGetSize(HashAt(meta[f].body, k, req[t].block))
               + SizeOf[req[t].block]]
  BY DEF Replace
<1> DEFINE oldSize == BlockGetSize(HashAt(meta[f].body, k, req[t].block))
           size == cache[h].size - oldSize + SizeOf[req[t].block]
<1>1. pc[t] = "find" /\ req[t].op = "write" /\ Goto(t, "size")
  BY DEF Replace, At
<1>2. h \in Handles /\ f \in Files /\ req[t].block \in Blocks
  BY <1>1, RequestType
<1>3. oldSize \in Int
  BY DEF TypeOK, NoFile, BlockGetSize
<1>4. size \in Int
  <2>1. cache[h].size \in Int /\ SizeOf[req[t].block] \in Int
    BY <1>2, SizeAssumption DEF TypeOK, HandleState
  <2> HIDE DEF oldSize, h
  <2> QED
    BY <1>3, <2>1
<1>5. cache' = [cache EXCEPT ![h].size = size]
  BY <1>0
<1>6. /\ cache' \in [Handles -> HandleState]
      /\ \A g \in Handles : cache'[g].file = cache[g].file
  BY <1>2, <1>4, <1>5 DEF TypeOK, HandleState
<1>7. PICK file \in Rewritten(meta[f], k, landing) : meta' = [meta EXCEPT ![f] = file]
  BY <1>0
<1>8. file \in FileState
  BY <1>0, <1>1, RewrittenIs
<1>9. meta' \in [Files -> FileState]
  BY <1>2, <1>7, <1>8 DEF TypeOK
<1>10. faults' \in Nat /\ UNCHANGED <<blocks, mutex, req, ret, requests, crashes>>
  BY <1>0, FoundType DEF Replace
<1> QED
  BY <1>1, <1>6, <1>9, <1>10, TypeWrite

\* Appending a pair keeps the types.
LEMMA TypeAppend ==
  ASSUME TypeOK, NEW t \in Threads, AppendIndex(t) \/ AppendHash(t)
  PROVE  TypeOK'
<1> DEFINE f == cache[req[t].handle].file
<1>1. /\ pc[t] # "idle" /\ req[t].op = "write"
      /\ UNCHANGED <<blocks, mutex, req, ret, requests, crashes>>
      /\ faults' \in Nat
  BY FoundType DEF AppendIndex, AppendHash, At, TypeOK
<1>2. f \in Files /\ req[t].index \in Indexes /\ req[t].block \in Blocks
  BY <1>1, RequestType
<1>3. meta[f].body \in Seq(Pair)
  BY <1>2 DEF TypeOK, FileState
<1>4. CASE AppendIndex(t)
  <2> DEFINE body == Append(meta[f].body, [index |-> req[t].index, hash |-> "torn"])
  <2>1. [index |-> req[t].index, hash |-> "torn"] \in Pair
    BY <1>2 DEF Pair, Marks
  <2>2. body \in Seq(Pair)
    BY <1>3, <2>1
  <2>3. meta' = [meta EXCEPT ![f].body = body]
    BY <1>2, <1>4 DEF AppendIndex
  <2>4. meta' \in [Files -> FileState]
    BY <1>2, <2>2, <2>3, BodyType
  <2>5. Goto(t, "hash") /\ cache' = cache
    BY <1>4 DEF AppendIndex
  <2> QED
    BY <1>1, <2>4, <2>5, TypeWrite DEF TypeOK
<1>5. CASE AppendHash(t)
  <2>1. Completed(meta[f].body, req[t].block) \in Seq(Pair)
    BY <1>2, <1>3, CompletedType
  <2>2. meta' = [meta EXCEPT ![f].body = Completed(meta[f].body, req[t].block)]
    BY <1>2, <1>5 DEF AppendHash
  <2>3. meta' \in [Files -> FileState]
    BY <1>2, <2>1, <2>2, BodyType
  <2>4. Goto(t, "size") /\ Count(t)
    BY <1>5 DEF AppendHash
  <2> QED
    BY <1>1, <2>3, <2>4, CountType, TypeWrite
<1> QED
  BY <1>4, <1>5

\* An append that fails keeps the types.
LEMMA TypeAppendFails ==
  ASSUME TypeOK, NEW t \in Threads, HashFails(t) \/ IndexFails(t)
  PROVE  TypeOK'
<1>1. /\ pc[t] # "idle" /\ req[t].op = "write" /\ Goto(t, "size")
      /\ UNCHANGED <<meta, blocks, mutex, req, ret, requests, crashes>>
      /\ Count(t)
  BY DEF HashFails, IndexFails, At, TypeOK
<1>2. faults' \in Nat
  BY DEF HashFails, IndexFails, Fault, TypeOK
<1>3. meta' \in [Files -> FileState]
  BY <1>1 DEF TypeOK
<1> QED
  BY <1>1, <1>2, <1>3, CountType, TypeWrite

\* Writing the header keeps the types.
LEMMA TypeHeader ==
  ASSUME TypeOK, NEW t \in Threads, WriteSize(t) \/ WriteTotal(t)
  PROVE  TypeOK'
<1> DEFINE h == req[t].handle
           f == cache[h].file
<1>1. pc[t] # "idle" /\ req[t].op = "write"
  BY DEF WriteSize, WriteTotal, At, TypeOK
<1>2. h \in Handles /\ f \in Files
  BY <1>1, RequestType
<1>3. meta[f] \in FileState /\ cache[h] \in HandleState
  BY <1>2 DEF TypeOK
<1>4. CASE WriteSize(t)
  <2>1. [meta[f] EXCEPT !.size = cache[h].size] \in FileState
    BY <1>3 DEF FileState, HandleState
  <2>2. meta' \in [Files -> FileState]
    BY <1>2, <1>4, <2>1 DEF WriteSize, TypeOK
  <2>3. Goto(t, "total") /\ cache' = cache /\ faults' \in Nat
    BY <1>4 DEF WriteSize, At, TypeOK
  <2>4. UNCHANGED <<blocks, mutex, req, ret, requests, crashes>>
    BY <1>4 DEF WriteSize
  <2> QED
    BY <1>1, <2>2, <2>3, <2>4, TypeWrite DEF TypeOK
<1>5. CASE WriteTotal(t)
  <2>1. [meta[f] EXCEPT !.total = cache[h].total] \in FileState
    BY <1>3 DEF FileState, HandleState
  <2>2. meta' \in [Files -> FileState]
    BY <1>2, <1>5, <2>1 DEF WriteTotal, TypeOK
  <2> QED
    BY <1>5, <2>2, TypeReturn DEF WriteTotal, Return, TypeOK, Answers
<1> QED
  BY <1>4, <1>5

\* cfs_file_read_block keeps the types.
LEMMA TypeRead ==
  ASSUME TypeOK, NEW t \in Threads, ReadBlock(t)
  PROVE  TypeOK'
<1>1. PICK v : Return(t, v) /\ v \in Answers
  BY DEF ReadBlock, ReadHole, Load, LoadFails, Answers, Loaded
<1>2. UNCHANGED <<meta, blocks, cache, requests, crashes>> /\ faults' \in Nat
  BY FoundType DEF ReadBlock, ReadHole, Load, LoadFails, Fault, TypeOK
<1> QED
  BY <1>1, <1>2, TypeReturn DEF Return, TypeOK

\* Every step keeps the types.
LEMMA TypeNext == TypeOK /\ [Next]_vars => TypeOK'
<1> SUFFICES ASSUME TypeOK, [Next]_vars PROVE TypeOK'
  OBVIOUS
<1>1. ASSUME NEW t \in Threads, Step(t) PROVE TypeOK'
  BY <1>1, TypeAcquire, TypeStore, TypeUnlock, TypeReplace, TypeAppend,
     TypeAppendFails, TypeHeader, TypeRead DEF Step, Register
<1>2. CASE UNCHANGED vars
  BY <1>2 DEF vars, TypeOK
<1> QED
  BY <1>1, <1>2, TypeOpen, TypeRelease, TypeCall, TypeCrash DEF Next

\* Every variable keeps its type, and a thread that executes a request holds an
\* open handle, whatever fails and whenever the process dies.
THEOREM TypeCorrect == Spec => []TypeOK
<1> QED
  BY TypeInit, TypeNext, PTL DEF Spec

-----------------------------------------------------------------------------
(* Mutual exclusion, as long as storing a block does not fail.              *)

LockInv ==
  /\ \A t \in Threads : Critical(t) => mutex
  /\ \A t, u \in Threads : Critical(t) /\ Critical(u) => t = u
  /\ \A t \in Threads : pc[t] \notin {"fail", "fail2"}

\* Steps inside the critical section, and the steps that leave it.
LEMMA LockInside ==
  ASSUME TypeOK, LockInv, NEW t \in Threads, Critical(t),
         NEW label \in Labels \ {"wait", "fail", "fail2"}, Goto(t, label),
         mutex' = IF label = "idle" THEN FALSE ELSE mutex
  PROVE  LockInv'
<1>1. pc' = [pc EXCEPT ![t] = label]
  BY DEF Goto
<1>2. \A u \in Threads : u # t => ~Critical(u) /\ ~Critical(u)'
  BY <1>1 DEF LockInv, Critical, TypeOK
<1>3. Critical(t)' => mutex'
  BY <1>1 DEF LockInv, Critical, TypeOK
<1> QED
  BY <1>1, <1>2, <1>3 DEF LockInv, Critical, TypeOK

\* No step of a thread leaves two threads, or a free lock, in the critical
\* section, if it is not a store_block that fails.
LEMMA LockStep ==
  ASSUME TypeOK, LockInv, NEW t \in Threads, Step(t), ~StoreFails(t)
  PROVE  LockInv'
<1>1. CASE Acquire(t)
  BY <1>1 DEF Acquire, At, Goto, LockInv, Critical, TypeOK
<1>2. CASE Unlock(t) \/ UnlockAgain(t)
  BY <1>2 DEF Unlock, UnlockAgain, At, LockInv
<1>3. CASE StoreBlock(t) \/ WriteRefs(t) \/ WriteData(t)
  <2>1. Critical(t) /\ mutex' = mutex
    BY <1>3 DEF StoreBlock, WriteRefs, WriteData, At, Critical
  <2>2. Goto(t, "find") \/ Goto(t, "refs") \/ Goto(t, "data")
    BY <1>3 DEF StoreBlock, WriteRefs, WriteData
  <2> QED
    BY <2>1, <2>2, LockInside DEF Labels
<1>4. CASE Replace(t) \/ AppendIndex(t) \/ AppendHash(t) \/ HashFails(t)
           \/ IndexFails(t) \/ WriteSize(t)
  <2>1. Critical(t) /\ mutex' = mutex
    BY <1>4 DEF Replace, AppendIndex, AppendHash, HashFails, IndexFails,
                WriteSize, At, Critical
  <2>2. Goto(t, "hash") \/ Goto(t, "size") \/ Goto(t, "total")
    BY <1>4 DEF Replace, AppendIndex, AppendHash, HashFails, IndexFails,
                WriteSize
  <2> QED
    BY <2>1, <2>2, LockInside DEF Labels
<1>5. CASE WriteTotal(t) \/ ReadBlock(t)
  <2>1. Critical(t) /\ mutex' = FALSE
    BY <1>5 DEF WriteTotal, ReadBlock, ReadHole, Load, LoadFails, Return, At,
                Critical
  <2>2. Goto(t, "idle")
    BY <1>5 DEF WriteTotal, ReadBlock, ReadHole, Load, LoadFails, Return
  <2> QED
    BY <2>1, <2>2, LockInside DEF Labels
<1> QED
  BY <1>1, <1>2, <1>3, <1>4, <1>5 DEF Step, Register

\* Neither does any other step.
LEMMA LockNext ==
  ASSUME TypeOK, LockInv, [Next]_vars, \A t \in Threads : ~StoreFails(t)
  PROVE  LockInv'
<1>1. ASSUME NEW t \in Threads, Call(t) PROVE LockInv'
  BY <1>1 DEF Call, LockInv, Critical, TypeOK
<1>2. CASE Crash
  BY <1>2 DEF Crash, LockInv, Critical
<1>3. CASE UNCHANGED <<pc, mutex>>
  BY <1>3 DEF LockInv, Critical
<1> QED
  BY <1>1, <1>2, <1>3, LockStep DEF Next, Open, Release, vars

\* Two threads are never inside the critical sections of cfs.c together, if no
\* block fails to be stored.  (When one does, its error path unlocks twice, and
\* the run bad_unlock shows the two threads.)
THEOREM MutualExclusionHolds ==
  ASSUME "store" \notin Faults
  PROVE  Spec => []MutualExclusion
<1>1. Init => LockInv
  BY DEF Init, LockInv, Critical
<1>2. TypeOK /\ LockInv /\ [Next]_vars => LockInv'
  BY LockNext DEF StoreFails, Fault
<1>3. LockInv => MutualExclusion
  BY DEF LockInv, MutualExclusion, Overlap
<1> QED
  BY <1>1, <1>2, <1>3, TypeCorrect, PTL DEF Spec

-----------------------------------------------------------------------------
(* The lock is never left behind.                                           *)

\* A step of a thread does not move the others.
LEMMA OthersStay ==
  ASSUME TypeOK, NEW t \in Threads, Step(t), NEW u \in Threads, u # t
  PROVE  pc'[u] = pc[u] /\ req'[u] = req[u]
  BY DEF Step, Acquire, Register, StoreBlock, WriteRefs, WriteData, StoreFails,
     Unlock, UnlockAgain, Replace, AppendIndex, AppendHash, HashFails,
     IndexFails, WriteSize, WriteTotal, ReadBlock, ReadHole, Load, LoadFails,
     Return, Goto, TypeOK

\* The holder is another thread, which goes on, or this one, which goes on
\* inside, or unlocks.
LEMMA HolderStep ==
  ASSUME TypeOK, LockHasHolder, NEW t \in Threads, Step(t), mutex'
  PROVE  LockHasHolder'
<1>1. ASSUME NEW u \in Threads, u # t, Critical(u) PROVE Critical(u)'
  BY <1>1, OthersStay DEF Critical
<1>2. CASE Acquire(t)
  BY <1>2 DEF Acquire, Goto, LockHasHolder, Critical, TypeOK
<1>3. CASE ~Critical(t) /\ mutex
  BY <1>1, <1>3 DEF LockHasHolder
<1>4. CASE Critical(t) /\ ~Acquire(t)
  <2>1. pc'[t] \in {"refs", "data", "find", "hash", "size", "total", "fail"}
    BY <1>4 DEF Step, Register, StoreBlock, WriteRefs, WriteData, StoreFails,
       Unlock, UnlockAgain, Replace, AppendIndex, AppendHash, HashFails,
       IndexFails, WriteSize, WriteTotal, ReadBlock, ReadHole, Load, LoadFails,
       Return, Goto, At, Critical, TypeOK
  <2> QED
    BY <2>1 DEF LockHasHolder, Critical
<1>5. CASE ~Critical(t) /\ ~mutex /\ ~Acquire(t)
  <2>1. UnlockAgain(t)
    BY <1>5 DEF Step, Register, StoreBlock, WriteRefs, WriteData, StoreFails,
       Unlock, Replace, AppendIndex, AppendHash, HashFails, IndexFails,
       WriteSize, WriteTotal, ReadBlock, ReadHole, Load, LoadFails, At, Critical
  <2> QED
    BY <1>5, <2>1 DEF UnlockAgain
<1> QED
  BY <1>2, <1>3, <1>4, <1>5

\* Nobody leaves the lock behind, whatever fails, and though the error path of
\* cfs_file_register_block unlocks it a second time when it may be another's.
THEOREM LockHasHolderHolds == Spec => []LockHasHolder
<1>1. Init => LockHasHolder
  BY DEF Init, LockHasHolder
<1>2. ASSUME TypeOK, LockHasHolder, [Next]_vars PROVE LockHasHolder'
  <2>1. ASSUME NEW t \in Threads, Call(t) PROVE LockHasHolder'
    BY <1>2, <2>1 DEF Call, LockHasHolder, Critical, TypeOK
  <2>2. CASE Crash
    BY <2>2 DEF Crash, LockHasHolder
  <2>3. CASE UNCHANGED <<pc, mutex>>
    BY <1>2, <2>3 DEF LockHasHolder, Critical
  <2>4. ASSUME NEW t \in Threads, Step(t) PROVE LockHasHolder'
    BY <1>2, <2>4, HolderStep DEF LockHasHolder
  <2> QED
    BY <1>2, <2>1, <2>2, <2>3, <2>4 DEF Next, Open, Release, vars
<1> QED
  BY <1>1, <1>2, TypeCorrect, PTL DEF Spec

-----------------------------------------------------------------------------
(* A pair never names a block that has no file.                             *)

\* Beside the pairs: the block of a write that is past store_block has a file.
NamedInv ==
  /\ NamedBlocksExist
  /\ \A t \in Threads :
       pc[t] \in {"refs", "data", "hash"} \/ (pc[t] = "find" /\ req[t].op = "write")
         => blocks[req[t].block] # NoFile

\* No block file goes away.
LEMMA BlocksGrow ==
  ASSUME TypeOK, [Next]_vars, NEW b \in Blocks, blocks[b] # NoFile
  PROVE  blocks'[b] # NoFile
<1>1. RefSize > 0 /\ NoFile = -1
  BY SizeAssumption DEF NoFile
<1>2. ASSUME NEW t \in Threads, StoreBlock(t) \/ WriteRefs(t) PROVE blocks'[b] # NoFile
  BY <1>1, <1>2 DEF StoreBlock, WriteRefs, TypeOK
<1>3. ASSUME NEW t \in Threads, WriteData(t) PROVE blocks'[b] # NoFile
  <2>1. req[t].block \in Blocks
    BY <1>3, RequestType DEF WriteData, At, TypeOK
  <2>2. Whole(req[t].block) > 0
    BY <2>1, SizeAssumption DEF Whole
  <2> QED
    BY <1>1, <1>3, <2>2 DEF WriteData, TypeOK
<1>4. ASSUME NEW t \in Threads, StoreFails(t) PROVE blocks'[b] # NoFile
  <2>1. pc[t] \in {"store", "refs", "data"}
    BY <1>4 DEF StoreFails, At
  <2>2. req[t].block \in Blocks
    BY <2>1, RequestType DEF TypeOK
  <2>3. PICK n \in FailedLengths(pc[t], req[t].block) :
          blocks' = [blocks EXCEPT ![req[t].block] = n]
    BY <1>4 DEF StoreFails
  <2>4. CASE pc[t] = "store"
    BY <1>4, <2>2, <2>3, <2>4 DEF StoreFails, TypeOK
  <2>5. CASE pc[t] # "store"
    <3>1. FailedLengths(pc[t], req[t].block) \subseteq {0, RefSize}
             \cup RefSize..Whole(req[t].block)
      BY <2>1, <2>5 DEF FailedLengths
    <3>2. n \in {0, RefSize} \cup RefSize..Whole(req[t].block)
      BY <2>3, <3>1
    <3>3. RefSize \in Nat /\ Whole(req[t].block) \in Int
      BY <2>2, SizeAssumption DEF Whole
    <3>4. n # NoFile
      BY <1>1, <3>2, <3>3
    <3> QED
      BY <2>2, <2>3, <3>4 DEF TypeOK
  <2> QED
    BY <2>4, <2>5
<1>5. CASE UNCHANGED blocks
  BY <1>5
<1>6. ASSUME NEW t \in Threads, Step(t) PROVE blocks'[b] # NoFile
  BY <1>2, <1>3, <1>4, <1>5, <1>6
     DEF Step, Acquire, Register, Unlock, UnlockAgain, Replace, AppendIndex,
         AppendHash, HashFails, IndexFails, WriteSize, WriteTotal, ReadBlock,
         ReadHole, Load, LoadFails
<1> QED
  BY <1>5, <1>6 DEF Next, Open, Release, Call, Crash, vars

\* The names in a body that a step has made: old ones, or that of its block.
LEMMA NamesMade ==
  ASSUME NEW body \in Seq(Pair)
  PROVE  /\ \A next : FarBody(body, next) => Names(next) \subseteq Names(body)
         /\ Names(Smashed(body)) \subseteq Names(body)
         /\ \A i \in Indexes :
              Names(Append(body, [index |-> i, hash |-> "torn"])) \subseteq Names(body)
         /\ \A b \in Blocks : Names(Completed(body, b)) \subseteq Names(body) \cup {b}
<1>1. "torn" \notin Blocks /\ "zero" \notin Blocks /\ "bad" \notin Blocks
  BY MarksAssumption
<1>2. \A i : Names(Append(body, [index |-> i, hash |-> "torn"])) \subseteq Names(body)
  BY <1>1 DEF Names
<1>3. Names(Smashed(body)) \subseteq Names(body)
  <2>1. \A k \in 1..Len(body) : Smashed(body)[k].hash \in {body[k].hash, "torn", "bad"}
    <3>1. \A k \in 1..Len(body) : body[k] \in Pair
      OBVIOUS
    <3> QED
      BY <3>1 DEF Smashed, Pair
  <2> QED
    BY <1>1, <2>1 DEF Names, Smashed
<1>4. \A b \in Blocks : Names(Completed(body, b)) \subseteq Names(body) \cup {b}
  <2>1. \A b \in Blocks : \A k \in 1..Len(body) :
          Completed(body, b)[k].hash \in {body[k].hash, b}
    <3>1. \A k \in 1..Len(body) : body[k] \in Pair
      OBVIOUS
    <3> QED
      BY <3>1 DEF Completed, Pair
  <2> QED
    BY <2>1 DEF Names, Completed
<1>5. ASSUME NEW next, FarBody(body, next)
      PROVE  Names(next) \subseteq Names(body)
  <2>1. DOMAIN next = 1..Len(next) /\ DOMAIN body = 1..Len(body)
    BY <1>5 DEF FarBody
  <2>2. ASSUME NEW j \in 1..Len(next), next[j].hash \in Blocks
        PROVE  next[j].hash \in Names(body)
    <3>1. CASE j <= Len(body) /\ next[j] = body[j]
      BY <2>1, <2>2, <3>1 DEF Names
    <3>2. CASE next[j].hash \in Names(body) \cup {"bad", "zero"}
      BY <1>1, <2>2, <3>2
    <3> QED
      BY <1>5, <3>1, <3>2 DEF FarBody
  <2> QED
    BY <2>1, <2>2 DEF Names
<1> QED
  BY <1>2, <1>3, <1>4, <1>5

(* What the steps that write a CFS file do to the bodies and the totals.     *)

\* Writing an index again changes a body in one of two ways, and no total.
LEMMA ReplaceMeta ==
  ASSUME TypeOK, NEW t \in Threads, Replace(t), NEW g \in Files
  PROVE  /\ meta'[g].total = meta[g].total
         /\ \/ FarBody(meta[g].body, meta'[g].body)
            \/ /\ meta'[g].body = Smashed(meta[g].body)
               /\ \E k : k # 0 /\ AtEnd(meta[g].body, k)
<1> DEFINE f == cache[req[t].handle].file
<1>1. pc[t] # "idle"
  BY DEF Replace, At
<1>2. PICK k \in Positions(t), landing \in Landings :
        /\ Found(t, k) /\ k # 0
        /\ \E file \in Rewritten(meta[f], k, landing) : meta' = [meta EXCEPT ![f] = file]
  BY DEF Replace
<1>3. PICK file \in Rewritten(meta[f], k, landing) : meta' = [meta EXCEPT ![f] = file]
  BY <1>2
<1>4. /\ file.total = meta[f].total
      /\ \/ FarBody(meta[f].body, file.body)
         \/ file.body = Smashed(meta[f].body) /\ AtEnd(meta[f].body, k)
  BY <1>1, <1>2, RewrittenIs
<1>5. CASE g = f
  <2>1. meta'[g] = file
    BY <1>3, <1>5 DEF TypeOK
  <2> QED
    BY <1>2, <1>4, <1>5, <2>1
<1>6. CASE g # f
  <2>1. meta'[g] = meta[g]
    BY <1>3, <1>6 DEF TypeOK
  <2>2. meta[g].body \in Seq(Pair)
    BY DEF TypeOK, FileState
  <2> QED
    BY <2>1, <2>2, FarSame
<1> QED
  BY <1>5, <1>6

\* Writing the header changes no body.
LEMMA HeaderMeta ==
  ASSUME TypeOK, NEW t \in Threads, WriteSize(t) \/ WriteTotal(t), NEW g \in Files
  PROVE  /\ meta'[g].body = meta[g].body
         /\ \/ meta'[g].total = meta[g].total
            \/ /\ pc[t] = "total"
               /\ g = cache[req[t].handle].file
               /\ meta'[g].total = cache[req[t].handle].total
<1> DEFINE f == cache[req[t].handle].file
<1>1. meta[g] \in FileState
  BY DEF TypeOK
<1>2. CASE g # f
  BY <1>2 DEF WriteSize, WriteTotal, TypeOK
<1>3. CASE g = f /\ WriteSize(t)
  <2>1. meta'[g] = [meta[g] EXCEPT !.size = cache[req[t].handle].size]
    BY <1>3 DEF WriteSize, TypeOK
  <2> QED
    BY <1>1, <2>1 DEF FileState
<1>4. CASE g = f /\ WriteTotal(t)
  <2>1. meta'[g] = [meta[g] EXCEPT !.total = cache[req[t].handle].total]
    BY <1>4 DEF WriteTotal, TypeOK
  <2>2. pc[t] = "total"
    BY <1>4 DEF WriteTotal, At
  <2> QED
    BY <1>1, <1>4, <2>1, <2>2 DEF FileState
<1> QED
  BY <1>2, <1>3, <1>4

\* An append brings in the name of its block at most.
LEMMA AppendMeta ==
  ASSUME TypeOK, NEW t \in Threads, AppendIndex(t) \/ AppendHash(t), NEW g \in Files
  PROVE  /\ meta'[g].total = meta[g].total
         /\ \/ meta'[g].body = meta[g].body /\ g # cache[req[t].handle].file
            \/ /\ g = cache[req[t].handle].file
               /\ IF AppendIndex(t)
                    THEN meta'[g].body =
                           Append(meta[g].body, [index |-> req[t].index, hash |-> "torn"])
                    ELSE meta'[g].body = Completed(meta[g].body, req[t].block)
<1> DEFINE f == cache[req[t].handle].file
<1>1. meta[g] \in FileState
  BY DEF TypeOK
<1>2. CASE g # f
  BY <1>2 DEF AppendIndex, AppendHash, TypeOK
<1>3. CASE g = f /\ AppendIndex(t)
  <2> DEFINE body == Append(meta[g].body, [index |-> req[t].index, hash |-> "torn"])
  <2>1. meta'[g] = [meta[g] EXCEPT !.body = body]
    BY <1>3 DEF AppendIndex, TypeOK
  <2> HIDE DEF body
  <2>2. meta'[g].body = body /\ meta'[g].total = meta[g].total
    BY <1>1, <2>1 DEF FileState
  <2> QED
    BY <1>3, <2>2 DEF body
<1>4. CASE g = f /\ ~AppendIndex(t)
  <2>1. meta'[g] = [meta[g] EXCEPT !.body = Completed(meta[g].body, req[t].block)]
    BY <1>4 DEF AppendHash, TypeOK
  <2> QED
    BY <1>1, <1>4, <2>1 DEF FileState
<1> QED
  BY <1>2, <1>3, <1>4

\* NamedBlocksExist in terms of the names of bodies.
LEMMA ByNames ==
  NamedBlocksExist <=>
    \A f \in Files : \A b \in Names(meta[f].body) : blocks[b] # NoFile
  BY DEF NamedBlocksExist, Names

\* A step of a thread brings no name into a file but that of its own block.
LEMMA NamesStep ==
  ASSUME TypeOK, NEW t \in Threads, Step(t), NEW f \in Files,
         NEW b \in Names(meta'[f].body)
  PROVE  b \in Names(meta[f].body) \/ (pc[t] = "hash" /\ b = req[t].block)
<1> DEFINE body == meta[f].body
<1>1. body \in Seq(Pair)
  BY DEF TypeOK, FileState
<1>2. CASE AppendHash(t) \/ AppendIndex(t)
  <2>1. /\ pc[t] # "idle" /\ req[t].index \in Indexes /\ req[t].block \in Blocks
        /\ ~AppendIndex(t) => pc[t] = "hash"
    BY <1>2, RequestType DEF AppendIndex, AppendHash, At, TypeOK
  <2>2. \/ meta'[f].body = body
        \/ meta'[f].body = Append(body, [index |-> req[t].index, hash |-> "torn"])
        \/ meta'[f].body = Completed(body, req[t].block) /\ pc[t] = "hash"
    BY <1>2, <2>1, AppendMeta
  <2>3. /\ Names(Completed(body, req[t].block)) \subseteq
              Names(body) \cup {req[t].block}
        /\ Names(Append(body, [index |-> req[t].index, hash |-> "torn"]))
             \subseteq Names(body)
    BY <1>1, <2>1, NamesMade
  <2> QED
    BY <2>2, <2>3
<1>3. CASE Replace(t)
  BY <1>1, <1>3, ReplaceMeta, NamesMade
<1>4. CASE WriteSize(t) \/ WriteTotal(t)
  BY <1>4, HeaderMeta
<1>5. CASE UNCHANGED meta
  BY <1>5
<1> QED
  BY <1>2, <1>3, <1>4, <1>5
     DEF Step, Acquire, Register, StoreBlock, WriteRefs, WriteData,
         StoreFails, Unlock, UnlockAgain, HashFails, IndexFails, ReadBlock,
         ReadHole, Load, LoadFails


\* A step of a thread names only blocks whose files exist.
LEMMA NamedPairs ==
  ASSUME TypeOK, NamedInv, [Next]_vars
  PROVE  NamedBlocksExist'
<1>1. ASSUME NEW t \in Threads, Step(t) PROVE NamedBlocksExist'
  <2>1. \A f \in Files : \A b \in Names(meta'[f].body) : blocks[b] # NoFile
    BY <1>1, NamesStep, ByNames DEF NamedInv
  <2>2. \A f \in Files : \A b \in Names(meta'[f].body) : blocks'[b] # NoFile
    BY <2>1, BlocksGrow DEF Names
  <2> QED
    BY <2>2 DEF NamedBlocksExist, Names
<1>2. CASE UNCHANGED <<meta, blocks>>
  BY <1>2 DEF NamedInv, NamedBlocksExist
<1> QED
  BY <1>1, <1>2 DEF Next, Open, Release, Call, Crash, vars

\* A thread whose request changes in a step of it has none left.
LEMMA RequestEnds ==
  ASSUME TypeOK, NEW t \in Threads, Step(t), req'[t] # req[t]
  PROVE  pc'[t] = "idle"
<1>1. CASE UnlockAgain(t)
  BY <1>1 DEF UnlockAgain, Goto, TypeOK
<1>2. CASE WriteTotal(t) \/ ReadBlock(t)
  BY <1>2 DEF WriteTotal, ReadBlock, ReadHole, Load, LoadFails, Return, Goto, TypeOK
<1>3. req' = req \/ UnlockAgain(t) \/ WriteTotal(t) \/ ReadBlock(t)
  BY DEF Step, Acquire, Register, StoreBlock, WriteRefs, WriteData, StoreFails,
     Unlock, Replace, AppendIndex, AppendHash, HashFails, IndexFails, WriteSize
<1> QED
  BY <1>1, <1>2, <1>3

\* The other half of NamedInv: threads past store_block.
Stored(t) ==
  pc[t] \in {"refs", "data", "hash"} \/ (pc[t] = "find" /\ req[t].op = "write")

\* The block of a thread that is past store_block has a file.
LEMMA NamedThreads ==
  ASSUME TypeOK, NamedInv, [Next]_vars, NEW t \in Threads, Stored(t)'
  PROVE  blocks'[req'[t].block] # NoFile
<1>1. CASE Stored(t) /\ req'[t] = req[t]
  <2>1. req[t].block \in Blocks
    BY <1>1, RequestType DEF Stored, TypeOK
  <2> QED
    BY <1>1, <2>1, BlocksGrow DEF NamedInv, Stored
<1>2. CASE StoreBlock(t)
  <2>1. req[t].block \in Blocks
    BY <1>2, RequestType DEF StoreBlock, At, TypeOK
  <2> QED
    BY <1>2, <2>1 DEF StoreBlock, TypeOK, NoFile
<1>3. CASE ~Stored(t) /\ req'[t] = req[t] /\ ~StoreBlock(t)
  <2>1. ~UNCHANGED pc
    BY <1>3 DEF Stored
  <2>2. \A u \in Threads : Step(u) => u = t
    <3>1. ASSUME NEW u \in Threads, Step(u), u # t PROVE pc'[t] = pc[t]
      BY <3>1, OthersStay
    <3> QED
      BY <1>3, <3>1 DEF Stored
  <2>3. ~Crash /\ \A u \in Threads : ~Call(u)
    BY <1>3 DEF Crash, Call, Stored, TypeOK
  <2>4. Step(t)
    BY <2>1, <2>2, <2>3 DEF Next, Open, Release, vars
  <2> QED
    BY <1>3, <2>4 DEF Stored, Step, Acquire, Register, WriteRefs, WriteData,
         StoreFails, Unlock, UnlockAgain, Replace, AppendIndex, AppendHash,
         HashFails, IndexFails, WriteSize, WriteTotal, ReadBlock, ReadHole,
         Load, LoadFails, Return, At, Goto, TypeOK
<1>4. CASE req'[t] # req[t]
  <2>1. pc'[t] \in {"wait", "idle"}
    <3>1. \A u \in Threads : Step(u) => u = t
      BY <1>4, OthersStay
    <3>2. CASE Step(t)
      BY <1>4, <3>2, RequestEnds
    <3>3. CASE \E u \in Threads : Call(u)
      BY <1>4, <3>3 DEF Call, TypeOK
    <3>4. CASE Crash
      BY <3>4 DEF Crash
    <3> QED
      BY <1>4, <3>1, <3>2, <3>3, <3>4 DEF Next, Open, Release, vars
  <2> QED
    BY <2>1 DEF Stored
<1> QED
  BY <1>1, <1>2, <1>3, <1>4

\* A pair never names a block that has no file, whatever fails and whenever the
\* process dies.
THEOREM NamedBlocksExistHolds == Spec => []NamedBlocksExist
<1>1. Init => NamedInv
  BY DEF Init, NamedInv, NamedBlocksExist, NewFile
<1>2. TypeOK /\ NamedInv /\ [Next]_vars => NamedInv'
  BY NamedPairs, NamedThreads DEF NamedInv, Stored
<1>3. NamedInv => NamedBlocksExist
  BY DEF NamedInv
<1> QED
  BY <1>1, <1>2, <1>3, TypeCorrect, PTL DEF Spec

-----------------------------------------------------------------------------
(* The header never counts more pairs than there are.                       *)

\* No handle's copy counts more pairs than its file has, and one pair less
\* while its thread is between the index and the hash of a new pair.
CountInv ==
  /\ HeaderNeverOvercounts
  /\ \A h \in Handles : cache[h].file # None =>
       cache[h].total <= Len(meta[cache[h].file].body)
  /\ \A t \in Threads : pc[t] = "hash" =>
       cache[req[t].handle].total < Len(meta[cache[req[t].handle].file].body)

\* No body gets shorter, and a header's total changes to a handle's only.
LEMMA BodyGrows ==
  ASSUME TypeOK, [Next]_vars, NEW f \in Files
  PROVE  /\ Len(meta[f].body) <= Len(meta'[f].body)
         /\ \/ meta'[f].total = meta[f].total
            \/ \E t \in Threads : /\ pc[t] = "total"
                                  /\ f = cache[req[t].handle].file
                                  /\ meta'[f].total = cache[req[t].handle].total
<1>1. meta[f].body \in Seq(Pair) /\ Len(meta[f].body) \in Nat
  BY DEF TypeOK, FileState
<1>2. ASSUME NEW t \in Threads, Replace(t)
      PROVE  Len(meta[f].body) <= Len(meta'[f].body) /\ meta'[f].total = meta[f].total
  <2>1. FarBody(meta[f].body, meta'[f].body) => Len(meta[f].body) <= Len(meta'[f].body)
    BY DEF FarBody
  <2>2. Len(Smashed(meta[f].body)) = Len(meta[f].body)
    BY <1>1, SmashedType
  <2> QED
    BY <1>1, <1>2, <2>1, <2>2, ReplaceMeta
<1>3. ASSUME NEW t \in Threads, AppendIndex(t) \/ AppendHash(t)
      PROVE  Len(meta[f].body) <= Len(meta'[f].body) /\ meta'[f].total = meta[f].total
  <2>1. req[t].index \in Indexes /\ req[t].block \in Blocks
    BY <1>3, RequestType DEF AppendIndex, AppendHash, At, TypeOK
  <2>2. Len(Completed(meta[f].body, req[t].block)) = Len(meta[f].body)
    BY <1>1, <2>1, CompletedType
  <2>3. Len(Append(meta[f].body, [index |-> req[t].index, hash |-> "torn"]))
          = Len(meta[f].body) + 1
    BY <1>1
  <2>4. /\ meta'[f].total = meta[f].total
        /\ \/ meta'[f].body = meta[f].body
           \/ meta'[f].body = Completed(meta[f].body, req[t].block)
           \/ meta'[f].body = Append(meta[f].body, [index |-> req[t].index, hash |-> "torn"])
    BY <1>3, AppendMeta
  <2> QED
    BY <1>1, <2>2, <2>3, <2>4
<1>4. ASSUME NEW t \in Threads, Step(t)
      PROVE  \/ meta' = meta \/ Replace(t) \/ AppendIndex(t) \/ AppendHash(t)
             \/ WriteSize(t) \/ WriteTotal(t)
  BY <1>4 DEF Step, Acquire, Register, StoreBlock, WriteRefs, WriteData,
       StoreFails, Unlock, UnlockAgain, HashFails, IndexFails, ReadBlock,
       ReadHole, Load, LoadFails
<1>5. CASE meta' = meta
  BY <1>1, <1>5
<1>6. ASSUME NEW t \in Threads, WriteSize(t) \/ WriteTotal(t)
      PROVE  /\ Len(meta[f].body) <= Len(meta'[f].body)
             /\ \/ meta'[f].total = meta[f].total
                \/ /\ pc[t] = "total"
                   /\ f = cache[req[t].handle].file
                   /\ meta'[f].total = cache[req[t].handle].total
  BY <1>1, <1>6, HeaderMeta
<1> QED
  BY <1>2, <1>3, <1>4, <1>5, <1>6 DEF Next, Open, Release, Call, Crash, vars

\* What a step of a thread does to the copies of the header.
LEMMA CacheStep ==
  ASSUME TypeOK, NEW t \in Threads, Step(t), ~HashFails(t), ~IndexFails(t)
  PROVE  \A h \in Handles :
           /\ cache'[h].file = cache[h].file
           /\ \/ cache'[h].total = cache[h].total
              \/ /\ AppendHash(t) /\ h = req[t].handle
                 /\ cache'[h].total = cache[h].total + 1
<1>1. CASE Replace(t)
  <2>1. PICK size : cache' = [cache EXCEPT ![req[t].handle].size = size]
    BY <1>1 DEF Replace
  <2> QED
    BY <2>1 DEF TypeOK, HandleState
<1>2. CASE AppendHash(t)
  <2>1. Count(t)
    BY <1>2 DEF AppendHash
  <2> QED
    BY <1>2, <2>1 DEF Count, TypeOK, HandleState
<1>3. CASE cache' = cache
  BY <1>3
<1> QED
  BY <1>1, <1>2, <1>3 DEF Step, Acquire, Register, StoreBlock, WriteRefs,
     WriteData, StoreFails, Unlock, UnlockAgain, AppendIndex, WriteSize,
     WriteTotal, ReadBlock, ReadHole, Load, LoadFails

\* A count that is within a length is within a longer one.
LEMMA Between ==
  ASSUME NEW x \in Nat, NEW y \in Nat, NEW z \in Nat
  PROVE  /\ x <= y /\ y <= z => x <= z
         /\ x < y /\ y <= z => x + 1 <= z
         /\ x <= y /\ z = y + 1 => x < z
OBVIOUS

\* A step of a thread keeps the counts within the pairs of the files.
LEMMA CountStep ==
  ASSUME TypeOK, CountInv, NEW t \in Threads, Step(t), [Next]_vars,
         ~HashFails(t), ~IndexFails(t)
  PROVE  CountInv'
<1> DEFINE F(u) == cache[req[u].handle].file
<1>1. \A f \in Files : /\ Len(meta[f].body) <= Len(meta'[f].body)
                       /\ Len(meta[f].body) \in Nat /\ Len(meta'[f].body) \in Nat
  <2>1. meta \in [Files -> FileState] /\ meta' \in [Files -> FileState]
    BY TypeNext DEF TypeOK
  <2>2. \A f \in Files : meta[f].body \in Seq(Pair) /\ meta'[f].body \in Seq(Pair)
    BY <2>1 DEF FileState
  <2> QED
    BY <2>2, BodyGrows
<1>2. /\ \A h \in Handles : cache[h].total \in Nat
      /\ \A h \in Handles : cache[h].file # None => cache[h].file \in Files
      /\ \A u \in Threads : pc[u] # "idle" => req[u].handle \in Handles /\ F(u) \in Files
  BY RequestType DEF TypeOK, HandleState
<1>3. HeaderNeverOvercounts'
  <2>1. \A u \in Threads : pc[u] = "total" =>
          cache[req[u].handle].total <= Len(meta[F(u)].body)
    BY <1>2 DEF CountInv, TypeOK
  <2>2. ASSUME NEW f \in Files PROVE meta'[f].total <= Len(meta'[f].body)
    <3>1. \/ meta'[f].total = meta[f].total
          \/ \E u \in Threads : /\ pc[u] = "total" /\ f = F(u)
                                /\ meta'[f].total = cache[req[u].handle].total
      BY BodyGrows
    <3>2. meta[f].total \in Nat /\ meta[f].total <= Len(meta[f].body)
      BY DEF TypeOK, FileState, CountInv, HeaderNeverOvercounts
    <3>3. Len(meta[f].body) <= Len(meta'[f].body)
      BY <1>1
    <3>4. CASE meta'[f].total = meta[f].total
      <4>1. Len(meta[f].body) \in Nat /\ Len(meta'[f].body) \in Nat
        BY <1>1
      <4> QED
        BY <3>2, <3>3, <3>4, <4>1, Between
    <3>5. ASSUME NEW u \in Threads, pc[u] = "total", f = F(u),
                 meta'[f].total = cache[req[u].handle].total
          PROVE  meta'[f].total <= Len(meta'[f].body)
      <4>1. /\ cache[req[u].handle].total \in Nat
            /\ cache[req[u].handle].total <= Len(meta[f].body)
            /\ Len(meta[f].body) \in Nat /\ Len(meta'[f].body) \in Nat
        BY <1>1, <1>2, <2>1, <3>5
      <4> QED
        BY <3>3, <3>5, <4>1, Between
    <3> QED
      BY <3>1, <3>4, <3>5
  <2> QED
    BY <2>2 DEF HeaderNeverOvercounts
<1>4. ASSUME NEW h \in Handles, cache'[h].file # None
      PROVE  cache'[h].total <= Len(meta'[cache'[h].file].body)
  <2>1. cache'[h].file = cache[h].file /\ cache[h].file \in Files
    BY <1>2, <1>4, CacheStep
  <2>2. CASE cache'[h].total = cache[h].total
    BY <1>1, <1>2, <1>4, <2>1, <2>2 DEF CountInv
  <2>3. CASE AppendHash(t) /\ h = req[t].handle /\ cache'[h].total = cache[h].total + 1
    <3>1. cache[h].total < Len(meta[cache[h].file].body)
      BY <2>3 DEF CountInv, AppendHash, At
    <3> QED
      <4>1. /\ cache[h].total \in Nat
            /\ Len(meta[cache[h].file].body) \in Nat
            /\ Len(meta'[cache[h].file].body) \in Nat
            /\ Len(meta[cache[h].file].body) <= Len(meta'[cache[h].file].body)
        BY <1>1, <1>2, <2>1
      <4>2. cache[h].total + 1 <= Len(meta'[cache[h].file].body)
        BY <3>1, <4>1, Between
      <4> QED
        BY <2>1, <2>3, <4>2
  <2> QED
    BY <2>2, <2>3, CacheStep
<1>5. ASSUME NEW u \in Threads, pc'[u] = "hash"
      PROVE  cache'[req'[u].handle].total < Len(meta'[cache'[req'[u].handle].file].body)
  <2>1. CASE u = t
    <3>1. AppendIndex(t)
      BY <1>5, <2>1 DEF Step, Acquire, Register, StoreBlock, WriteRefs,
         WriteData, StoreFails, Unlock, UnlockAgain, Replace, AppendHash,
         HashFails, IndexFails, WriteSize, WriteTotal, ReadBlock, ReadHole,
         Load, LoadFails, Return, Goto, TypeOK
    <3>2. req[t].handle \in Handles /\ F(t) \in Files
      BY <1>2, <3>1 DEF AppendIndex, At
    <3>3. cache[req[t].handle].total <= Len(meta[F(t)].body)
      BY <3>2, NoneAssumption DEF CountInv
    <3>4. meta'[F(t)].body = Append(meta[F(t)].body, [index |-> req[t].index, hash |-> "torn"])
      BY <3>1, <3>2, AppendMeta
    <3>5. meta[F(t)].body \in Seq(Pair)
      BY <3>2 DEF TypeOK, FileState
    <3>6. \A body \in Seq(Pair) : \A e : Len(Append(body, e)) = Len(body) + 1
      OBVIOUS
    <3>7. Len(meta'[F(t)].body) = Len(meta[F(t)].body) + 1
      BY <3>4, <3>5, <3>6
    <3>8. cache' = cache /\ req' = req
      BY <3>1 DEF AppendIndex
    <3>9. /\ cache[req[t].handle].total \in Nat /\ Len(meta[F(t)].body) \in Nat
          /\ Len(meta'[F(t)].body) \in Nat
      BY <1>1, <1>2, <3>2
    <3>10. cache[req[t].handle].total < Len(meta'[F(t)].body)
      BY <3>3, <3>7, <3>9, Between
    <3> QED
      BY <2>1, <3>8, <3>10
  <2>2. CASE u # t
    <3>1. pc[u] = "hash" /\ req'[u] = req[u]
      BY <1>5, <2>2 DEF Step, Acquire, Register, StoreBlock, WriteRefs,
         WriteData, StoreFails, Unlock, UnlockAgain, Replace, AppendIndex,
         AppendHash, HashFails, IndexFails, WriteSize, WriteTotal, ReadBlock,
         ReadHole, Load, LoadFails, Return, Goto, TypeOK
    <3>2. ~AppendHash(t)
      BY <2>2, <3>1 DEF AppendHash, At, Overlap, Critical
    <3>3. req[u].handle \in Handles /\ F(u) \in Files
      BY <1>2, <3>1
    <3>4. cache'[req[u].handle].total = cache[req[u].handle].total
          /\ cache'[req[u].handle].file = F(u)
      BY <3>2, <3>3, CacheStep
    <3>5. cache[req[u].handle].total < Len(meta[F(u)].body)
      BY <3>1 DEF CountInv
    <3>6. /\ cache[req[u].handle].total \in Nat
          /\ Len(meta[F(u)].body) \in Nat /\ Len(meta'[F(u)].body) \in Nat
          /\ Len(meta[F(u)].body) <= Len(meta'[F(u)].body)
      BY <1>1, <1>2, <3>3
    <3>7. \A x, y, z \in Nat : x < y /\ y <= z => x < z
      OBVIOUS
    <3>8. cache[req[u].handle].total < Len(meta'[F(u)].body)
      BY <3>5, <3>6, <3>7
    <3> QED
      BY <3>1, <3>4, <3>8
  <2> QED
    BY <2>1, <2>2
<1> QED
  BY <1>3, <1>4, <1>5 DEF CountInv

\* Every step keeps the counts within the pairs of the files.
LEMMA CountNext ==
  ASSUME "append" \notin Faults, TypeOK, CountInv, [Next]_vars
  PROVE  CountInv'
<1>1. ASSUME NEW h \in Handles, NEW f \in Files, Open(h, f) PROVE CountInv'
  <2>1. /\ \A g \in Handles : g # h => cache'[g] = cache[g]
        /\ cache'[h].file = f /\ cache'[h].total = meta[f].total
        /\ cache[h].file = None
    BY <1>1 DEF Open, TypeOK, HandleState
  <2>2. \A t \in Threads : pc[t] = "hash" => req[t].handle \in Handles /\ req[t].handle # h
    BY <2>1, RequestType, NoneAssumption
  <2>3. UNCHANGED <<meta, pc, req>>
    BY <1>1 DEF Open
  <2> QED
    BY <2>1, <2>2, <2>3 DEF CountInv, HeaderNeverOvercounts
<1>2. ASSUME NEW h \in Handles, Release(h) PROVE CountInv'
  <2>1. /\ \A g \in Handles : g # h => cache'[g] = cache[g]
        /\ cache'[h].file = None
    BY <1>2 DEF Release, Closed, TypeOK
  <2>2. \A t \in Threads : pc[t] = "hash" => req[t].handle \in Handles /\ req[t].handle # h
    BY <1>2, RequestType DEF Release
  <2>3. UNCHANGED <<meta, pc, req>>
    BY <1>2 DEF Release
  <2> QED
    BY <2>1, <2>2, <2>3 DEF CountInv, HeaderNeverOvercounts
<1>3. ASSUME NEW t \in Threads, Call(t) PROVE CountInv'
  <2>1. \A u \in Threads : pc'[u] = "hash" => pc[u] = "hash" /\ req'[u] = req[u]
    BY <1>3 DEF Call, TypeOK
  <2> QED
    BY <1>3, <2>1 DEF Call, CountInv, HeaderNeverOvercounts
<1>4. CASE Crash
  BY <1>4 DEF Crash, Closed, CountInv, HeaderNeverOvercounts
<1>5. CASE UNCHANGED vars
  BY <1>5 DEF vars, CountInv, HeaderNeverOvercounts
<1>6. \A t \in Threads : ~HashFails(t) /\ ~IndexFails(t)
  BY DEF HashFails, IndexFails, Fault
<1> QED
  BY <1>1, <1>2, <1>3, <1>4, <1>5, <1>6, CountStep DEF Next

\* The header never counts more pairs than the file has, with any number of
\* handles whose copies are stale, across crashes and failures to store a
\* block: only an append that fails makes it count a pair that is not there.
THEOREM HeaderNeverOvercountsHolds ==
  ASSUME "append" \notin Faults
  PROVE  Spec => []HeaderNeverOvercounts
<1>1. Init => CountInv
  BY DEF Init, CountInv, HeaderNeverOvercounts, NewFile, Closed
<1>2. TypeOK /\ CountInv /\ [Next]_vars => CountInv'
  BY CountNext
<1>3. CountInv => HeaderNeverOvercounts
  BY DEF CountInv
<1> QED
  BY <1>1, <1>2, <1>3, TypeCorrect, PTL DEF Spec

-----------------------------------------------------------------------------
(* A whole block file stays whole.                                          *)

\* The block file that a thread is writing has the length it left it at.
PartialInv ==
  \A t \in Threads :
    /\ pc[t] = "refs" => blocks[req[t].block] = 0
    /\ pc[t] = "data" => blocks[req[t].block] = RefSize

\* While a thread writes a block file, its length is that of the step.
LEMMA PartialStep ==
  ASSUME TypeOK, PartialInv, NEW t \in Threads, Step(t)
  PROVE  PartialInv'
<1>1. ASSUME NEW u \in Threads, u # t, pc'[u] \in {"refs", "data"}
      PROVE  pc'[u] = pc[u] /\ req'[u] = req[u] /\ blocks' = blocks
  <2>1. pc[u] = pc'[u] /\ req'[u] = req[u]
    BY <1>1 DEF Step, Acquire, Register, StoreBlock, WriteRefs, WriteData,
       StoreFails, Unlock, UnlockAgain, Replace, AppendIndex, AppendHash,
       HashFails, IndexFails, WriteSize, WriteTotal, ReadBlock, ReadHole,
       Load, LoadFails, Return, Goto, TypeOK
  <2>2. ~(StoreBlock(t) \/ WriteRefs(t) \/ WriteData(t) \/ StoreFails(t))
    BY <1>1, <2>1 DEF StoreBlock, WriteRefs, WriteData, StoreFails, At, Overlap,
       Critical
  <2> QED
    BY <2>1, <2>2 DEF Step, Acquire, Register, Unlock, UnlockAgain, Replace,
       AppendIndex, AppendHash, HashFails, IndexFails, WriteSize, WriteTotal,
       ReadBlock, ReadHole, Load, LoadFails
<1>2. CASE StoreBlock(t) \/ WriteRefs(t)
  <2>1. req[t].block \in Blocks
    BY <1>2, RequestType DEF StoreBlock, WriteRefs, At, TypeOK
  <2>2. /\ pc'[t] = "refs" => blocks'[req'[t].block] = 0
        /\ pc'[t] = "data" => blocks'[req'[t].block] = RefSize
    BY <1>2, <2>1 DEF StoreBlock, WriteRefs, At, Goto, TypeOK
  <2> QED
    BY <1>1, <2>2 DEF PartialInv
<1>3. CASE ~(StoreBlock(t) \/ WriteRefs(t))
  <2>1. pc'[t] \notin {"refs", "data"}
    BY <1>3 DEF Step, Acquire, Register, WriteData, StoreFails, Unlock,
       UnlockAgain, Replace, AppendIndex, AppendHash, HashFails, IndexFails,
       WriteSize, WriteTotal, ReadBlock, ReadHole, Load, LoadFails, Return,
       Goto, TypeOK
  <2> QED
    BY <1>1, <2>1 DEF PartialInv
<1> QED
  BY <1>2, <1>3

\* The same for every step.
LEMMA PartialNext ==
  ASSUME TypeOK, PartialInv, [Next]_vars
  PROVE  PartialInv'
<1>1. ASSUME NEW t \in Threads, Call(t) PROVE PartialInv'
  BY <1>1 DEF Call, PartialInv, TypeOK
<1>2. CASE Crash
  BY <1>2 DEF Crash, PartialInv
<1>3. CASE UNCHANGED <<blocks, pc, req>>
  BY <1>3 DEF PartialInv
<1> QED
  BY <1>1, <1>2, <1>3, PartialStep DEF Next, Open, Release, vars

\* No step of a thread shortens a block file that is whole.
LEMMA WholeStep ==
  ASSUME TypeOK, PartialInv, [Next]_vars, NEW b \in Blocks, blocks[b] = Whole(b)
  PROVE  blocks'[b] = Whole(b)
<1>1. /\ RefSize \in Int /\ RefSize > 0
      /\ Whole(b) \in Int /\ Whole(b) > RefSize /\ NoFile < 0 /\ NoFile \in Int
  BY SizeAssumption DEF Whole, NoFile
<1>2. ASSUME NEW t \in Threads, StoreBlock(t) PROVE blocks'[b] = Whole(b)
  BY <1>1, <1>2 DEF StoreBlock, TypeOK
<1>3. ASSUME NEW t \in Threads, WriteRefs(t) PROVE blocks'[b] = Whole(b)
  <2>1. blocks[req[t].block] = 0
    BY <1>3 DEF WriteRefs, At, PartialInv
  <2> QED
    BY <1>1, <1>3, <2>1 DEF WriteRefs, TypeOK
<1>4. ASSUME NEW t \in Threads, WriteData(t) PROVE blocks'[b] = Whole(b)
  BY <1>4 DEF WriteData, TypeOK
<1>5. ASSUME NEW t \in Threads, StoreFails(t) PROVE blocks'[b] = Whole(b)
  <2>1. blocks[req[t].block] \in {NoFile, 0, RefSize}
    BY <1>5 DEF StoreFails, At, PartialInv
  <2> QED
    BY <1>1, <1>5, <2>1 DEF StoreFails, TypeOK
<1>6. CASE UNCHANGED blocks
  BY <1>6
<1>7. ASSUME NEW t \in Threads, Step(t) PROVE blocks'[b] = Whole(b)
  BY <1>2, <1>3, <1>4, <1>5, <1>6, <1>7
     DEF Step, Acquire, Register, Unlock, UnlockAgain, Replace, AppendIndex,
         AppendHash, HashFails, IndexFails, WriteSize, WriteTotal, ReadBlock,
         ReadHole, Load, LoadFails
<1> QED
  BY <1>6, <1>7 DEF Next, Open, Release, Call, Crash, vars

\* No step cuts or damages a block file that is whole: not a second store of
\* the same content, not one that fails, not a crash.
THEOREM WholeBlocksStayHolds == Spec => WholeBlocksStay
<1>1. Init => PartialInv
  BY DEF Init, PartialInv
<1>2. TypeOK /\ PartialInv /\ [Next]_vars => PartialInv'
  BY PartialNext
<1>3. TypeOK /\ PartialInv /\ [Next]_vars =>
        [\A b \in Blocks : blocks[b] = Whole(b) => blocks'[b] = Whole(b)]_vars
  BY WholeStep
<1> QED
  BY <1>1, <1>2, <1>3, TypeCorrect, PTL DEF Spec, WholeBlocksStay

=============================================================================
