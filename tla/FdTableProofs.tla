---------------------------- MODULE FdTableProofs ----------------------------
(***************************************************************************)
(* Theorems about module FdTable, for every number of handles and threads, *)
(* every limit of descriptors, every first size of the table, and whether  *)
(* or not realloc moves either array.                                      *)
(***************************************************************************)
EXTENDS FdTable, FiniteSetTheorems, TLAPS

-----------------------------------------------------------------------------
(* The inductive invariant.                                                 *)

Unextended == {"files", "setfiles", "fds"}   \* before fds has its new size
Growing == Unextended \cup {"setfds", "clear"}
Holding == Growing \cup {"claim"}

\* Who holds the lock.
LockInv ==
  /\ \A h \in Handles : hpc[h] \in Holding => mutex
  /\ \A t \in Threads : pc[t] = "use" => mutex
  /\ \A g, h \in Handles : hpc[g] \in Holding /\ hpc[h] \in Holding => g = h
  /\ \A t, u \in Threads : pc[t] = "use" /\ pc[u] = "use" => t = u
  /\ \A h \in Handles, t \in Threads : ~(hpc[h] \in Holding /\ pc[t] = "use")

\* A handle has its own descriptor as long as it is not closed.
FdsInv ==
  /\ \A h \in Handles : hpc[h] # "closed" => fh[h] \in open \ lent
  /\ \A g, h \in Handles :
       hpc[g] # "closed" /\ hpc[h] # "closed" /\ fh[g] = fh[h] => g = h

\* How much of the table is there while it grows.
ShapeInv ==
  /\ \A h \in Handles : hpc[h] = "files" => DOMAIN files = 0..(cap \div 2 - 1)
  /\ (\A h \in Handles : hpc[h] # "files") => DOMAIN files = 0..(cap - 1)
  /\ \A h \in Handles : hpc[h] \in Unextended => DOMAIN fds = 0..(cap \div 2 - 1)
  /\ (\A h \in Handles : hpc[h] \notin Unextended) => DOMAIN fds = 0..(cap - 1)
  /\ \A h \in Handles : hpc[h] \in Growing =>
       cap \div 2 > 0 /\ cap = 2 * (cap \div 2)
  /\ \A h \in Handles : hpc[h] = "clear" =>
       cursor[h] \in (cap \div 2 - 1)..cap

\* The taken slots are those of the open handles.
SlotInv ==
  /\ \A h \in Handles : hpc[h] = "open" =>
       \E i \in Taken : fds[i] = fh[h] /\ files[i] = h
  /\ \A i \in Taken :
       files[i] \in Handles /\ hpc[files[i]] = "open" /\ fds[i] = fh[files[i]]
  /\ \A i, j \in Taken : fds[i] = fds[j] => i = j

\* The first half of the table, or of what it was before it began to grow.
Half == IF \E h \in Handles : hpc[h] \in Growing
        THEN (cap \div 2) \div 2 ELSE cap \div 2

\* There is room: the taken slots lie in the first half, and the slots that
\* have not been initialised are ahead of the loop that does it.
RoomInv ==
  /\ nFds = Cardinality(Taken)
  /\ nFds <= Half
  /\ \A i \in Taken : i < Half
  /\ \A h \in Handles : hpc[h] = "claim" => nFds < cap \div 2
  /\ \A i \in DOMAIN fds : fds[i] = Junk =>
       \E h \in Handles : \/ hpc[h] = "setfds" /\ cap \div 2 <= i
                          \/ hpc[h] = "clear" /\ cursor[h] <= i

\* A request is one of an open handle; its slot lies at or ahead of its lookup,
\* as long as that has read the table.
RequestInv ==
  \A t \in Threads :
    /\ pc[t] = "idle" => req[t] = None
    /\ pc[t] # "idle" =>
         req[t] \in Handles /\ hpc[req[t]] = "open" /\ slot[t] \in Nat
    /\ t \notin strayed /\ pc[t] \in {"scan", "read"} =>
         \E i \in Taken : i >= slot[t] /\ fds[i] = fh[req[t]]
    /\ t \notin strayed /\ pc[t] \in {"match", "found", "use"} =>
         slot[t] \in Taken /\ fds[slot[t]] = fh[req[t]]

TableInv ==
  TypeOK /\ LockInv /\ FdsInv /\ ShapeInv /\ SlotInv /\ RoomInv /\ RequestInv

\* Pointers are to the array of today or to an older one, and until fds has moved
\* there is no older one: no lookup has strayed.
StrayInv ==
  /\ at["fds"] <= moved["fds"]
  /\ \A t \in Threads : ptr[t] <= moved["fds"]
  /\ moved["fds"] = 0 => strayed = {}

\* A step leaves slot i as it is.
Kept(i) == i \in Taken' /\ fds'[i] = fds[i] /\ files'[i] = files[i]

-----------------------------------------------------------------------------
(* Facts about the table.                                                   *)

\* The marks of free and unused slots are no descriptors.
LEMMA Marked ==
  /\ Free \notin Fds /\ Junk \notin Fds /\ Free # Junk /\ None \notin Handles
BY NoneAssumption DEF Free, Junk, Fds

\* The table has a size.
LEMMA Shape ==
  ASSUME TypeOK
  PROVE  /\ cap \in Nat /\ cap > 0 /\ cap \div 2 \in Nat
         /\ \E n \in {cap, cap \div 2} :
              /\ DOMAIN fds = 0..(n - 1)
              /\ fds \in [0..(n - 1) -> Fds \cup {Free, Junk}]
         /\ \E n \in {cap, cap \div 2} :
              /\ DOMAIN files = 0..(n - 1)
              /\ files \in [0..(n - 1) -> Handles \cup {None}]
BY DEF TypeOK

\* Where the table does not grow, both arrays have its size.
LEMMA WholeTable ==
  ASSUME TypeOK, ShapeInv, \A g \in Handles : hpc[g] \notin Unextended
  PROVE  /\ DOMAIN fds = 0..(cap - 1) /\ DOMAIN files = 0..(cap - 1)
         /\ fds \in [0..(cap - 1) -> Fds \cup {Free, Junk}]
         /\ files \in [0..(cap - 1) -> Handles \cup {None}]
<1>1. DOMAIN fds = 0..(cap - 1) /\ DOMAIN files = 0..(cap - 1)
  BY DEF ShapeInv, Unextended
<1> QED
  BY <1>1, Shape

\* Its taken slots are finitely many.
LEMMA TakenFinite ==
  ASSUME TypeOK
  PROVE  IsFiniteSet(Taken) /\ Cardinality(Taken) \in Nat /\ Taken \subseteq Nat
<1>1. PICK n \in Nat : DOMAIN fds = 0..(n - 1)
  BY Shape
<1>2. IsFiniteSet(0..(n - 1))
  BY FS_Interval
<1>3. Taken \in SUBSET (0..(n - 1))
  BY <1>1 DEF Taken
<1>4. IsFiniteSet(Taken)
  BY <1>2, <1>3, FS_Subset
<1> QED
  BY <1>3, <1>4, FS_CardinalityType

\* The first free slot is no further than there are taken ones.
LEMMA FirstFreeBound ==
  ASSUME TypeOK, NEW i \in Nat, i \in DOMAIN fds,
         \A j \in 0..(i - 1) : fds[j] \in Fds
  PROVE  i <= Cardinality(Taken)
<1>1. 0..(i - 1) \in SUBSET Taken
  BY Shape DEF Taken
<1>2. Cardinality(0..(i - 1)) <= Cardinality(Taken)
  BY <1>1, TakenFinite, FS_Subset
<1>3. Cardinality(0..(i - 1)) = i
  BY FS_Interval
<1> QED
  BY <1>2, <1>3

\* The empty table satisfies the invariant.
LEMMA InitTable == Init => TableInv
<1> SUFFICES ASSUME Init PROVE TableInv
  OBVIOUS
<1>1. Taken = {}
  BY Marked DEF Init, Taken
<1>2. TypeOK
  BY CapAssumption DEF Init, TypeOK
<1>3. RoomInv
  <2>1. nFds = Cardinality(Taken) /\ nFds = 0
    BY <1>1, FS_EmptySet DEF Init
  <2>2. Half >= 0
    BY CapAssumption DEF Init, Half
  <2>3. \A i \in DOMAIN fds : fds[i] # Junk
    BY Marked DEF Init
  <2>4. \A h \in Handles : hpc[h] # "claim"
    BY DEF Init
  <2> QED
    BY <1>1, <2>1, <2>2, <2>3, <2>4, CapAssumption DEF RoomInv, Half, Init
<1>4. LockInv /\ FdsInv
  BY DEF Init, LockInv, FdsInv, Holding, Growing, Unextended
<1>5. ShapeInv
  BY DEF Init, ShapeInv, Growing, Unextended
<1>6. SlotInv /\ RequestInv
  BY <1>1 DEF Init, SlotInv, RequestInv
<1> QED
  BY <1>2, <1>3, <1>4, <1>5, <1>6 DEF TableInv

-----------------------------------------------------------------------------
(* Steps that leave the table alone.                                        *)

\* The parts about the table depend only on it and its handles.
LEMMA SameTable ==
  ASSUME TableInv, UNCHANGED <<tableVars, handleVars>>
  PROVE  (ShapeInv /\ SlotInv /\ RoomInv)' /\ Taken' = Taken
BY DEF TableInv, ShapeInv, SlotInv, RoomInv, Taken, Half, tableVars, handleVars

\* Opening and closing other descriptors touches neither table nor handles.
LEMMA DescriptorSteps ==
  ASSUME TableInv, Stat \/ Borrow \/ GiveBack
  PROVE  TableInv'
<1>1. UNCHANGED <<tableVars, mutex, handleVars, threadVars>>
  BY DEF Stat, Borrow, GiveBack
<1>2. (ShapeInv /\ SlotInv /\ RoomInv)' /\ Taken' = Taken
  BY <1>1, SameTable
<1>3. open' \subseteq Fds /\ lent' \subseteq open'
  BY DEF TableInv, TypeOK, Stat, Borrow, GiveBack
<1>4. TypeOK'
  BY <1>1, <1>3 DEF TableInv, TypeOK, tableVars, handleVars, threadVars
<1>5. LockInv'
  BY <1>1 DEF TableInv, LockInv, handleVars, threadVars
<1>6. RequestInv'
  BY <1>1, <1>2
  DEF TableInv, RequestInv, tableVars, handleVars, threadVars
<1>7. \A h \in Handles : hpc[h] # "closed" => fh[h] \in open' \ lent'
  BY DEF TableInv, FdsInv, Stat, Borrow, GiveBack, Lowest, Unused
<1>8. FdsInv'
  BY <1>1, <1>7 DEF TableInv, FdsInv, handleVars
<1> QED
  BY <1>2, <1>4, <1>5, <1>6, <1>8 DEF TableInv

\* A lookup, and the use of what it found, keep the invariant.
LEMMA RequestStep ==
  ASSUME TableInv, NEW t \in Threads, RequestSteps(t)
  PROVE  TableInv'
<1>1. UNCHANGED <<tableVars, handleVars, open, lent>>
  BY DEF RequestSteps, LookupSteps, Begin, Load, Missed, Read, Point, Use, Used,
     Finish
<1>2. (ShapeInv /\ SlotInv /\ RoomInv)' /\ Taken' = Taken
  BY <1>1, SameTable
<1>3. FdsInv'
  BY <1>1 DEF TableInv, FdsInv, handleVars
<1>4. /\ mutex \in BOOLEAN
      /\ pc \in [Threads -> {"idle", "scan", "read", "match", "found", "use"}]
      /\ req \in [Threads -> Handles \cup {None}]
      /\ slot \in [Threads -> Nat \cup {None}]
      /\ ptr \in [Threads -> Nat] /\ seen \in [Threads -> Nat]
      /\ strayed \subseteq Threads
      /\ at["files"] \in Nat /\ at["fds"] \in Nat
      /\ pc[t] # "idle" => slot[t] \in Nat
  BY DEF TableInv, TypeOK, RequestInv, Arrays
<1>5. /\ mutex' \in BOOLEAN
      /\ pc' \in [Threads -> {"idle", "scan", "read", "match", "found", "use"}]
      /\ req' \in [Threads -> Handles \cup {None}]
      /\ slot' \in [Threads -> Nat \cup {None}]
      /\ ptr' \in [Threads -> Nat] /\ seen' \in [Threads -> Nat]
      /\ strayed' \subseteq Threads
  <2>1. CASE Begin(t)
    BY <1>4, <2>1 DEF Begin
  <2>2. CASE Load(t) \/ Point(t)
    BY <1>4, <2>2 DEF Load, Point
  <2>3. CASE Missed(t) \/ Finish(t)
    BY <1>4, <2>3 DEF Missed, Finish, Return
  <2>4. CASE Read(t)
    BY <1>4, <2>4 DEF Read
  <2>5. CASE Use(t) \/ Used(t)
    BY <1>4, <2>5 DEF Use, Used
  <2> QED
    BY <2>1, <2>2, <2>3, <2>4, <2>5 DEF RequestSteps, LookupSteps
<1>6. TypeOK'
  BY <1>1, <1>5 DEF TableInv, TypeOK, tableVars, handleVars
<1>7. LockInv'
  <2>1. CASE Begin(t) \/ LookupSteps(t) \/ Finish(t)
    <3>1. /\ UNCHANGED <<mutex, hpc>> /\ pc'[t] # "use"
          /\ \A u \in Threads \ {t} : pc'[u] = pc[u]
      BY <1>1, <1>4, <2>1
      DEF Begin, LookupSteps, Load, Missed, Read, Point, Finish, Return,
         handleVars
    <3> QED
      BY <3>1 DEF TableInv, LockInv
  <2>2. CASE Use(t)
    BY <1>1, <2>2 DEF TableInv, TypeOK, LockInv, Use, handleVars
  <2>3. CASE Used(t)
    BY <1>1, <2>3 DEF TableInv, TypeOK, LockInv, Used, handleVars
  <2> QED
    BY <2>1, <2>2, <2>3 DEF RequestSteps
<1>8. RequestInv'
  <2>1. CASE Begin(t)
    <3>1. PICK h \in Handles :
            hpc[h] = "open" /\ req' = [req EXCEPT ![t] = h]
      BY <2>1 DEF Begin
    <3>2. PICK i \in Taken : fds[i] = fh[h]
      BY <3>1 DEF TableInv, SlotInv
    <3>3. i >= 0
      BY <3>2, TakenFinite DEF TableInv
    <3>4. /\ pc'[t] = "scan" /\ req'[t] = h /\ slot'[t] = 0
          /\ UNCHANGED strayed
          /\ \A u \in Threads \ {t} :
               pc'[u] = pc[u] /\ req'[u] = req[u] /\ slot'[u] = slot[u]
      BY <2>1, <3>1 DEF TableInv, TypeOK, Begin
    <3> QED
      BY <1>1, <1>2, <3>1, <3>2, <3>3, <3>4
      DEF TableInv, RequestInv, tableVars, handleVars
  <2>2. CASE Read(t)
    <3>1. /\ \A u \in Threads \ {t} :
               /\ pc'[u] = pc[u] /\ req'[u] = req[u] /\ slot'[u] = slot[u]
               /\ u \in strayed' <=> u \in strayed
          /\ req'[t] = req[t] /\ pc[t] = "read" /\ slot[t] \in Nat
          /\ t \notin strayed' => t \notin strayed /\ Sound(t)
          /\ \/ /\ Sound(t) => fds[slot[t]] = fh[req[t]]
                /\ pc'[t] = "match" /\ slot'[t] = slot[t]
             \/ /\ Sound(t) => fds[slot[t]] # fh[req[t]]
                /\ pc'[t] = "scan" /\ slot'[t] = slot[t] + 1
      BY <1>4, <2>2 DEF Read
    <3>2. req[t] \in Handles /\ hpc[req[t]] = "open"
      BY <3>1 DEF TableInv, RequestInv
    <3>3. ASSUME t \notin strayed'
          PROVE  /\ pc'[t] = "match" =>
                      slot[t] \in Taken /\ fds[slot[t]] = fh[req[t]]
                 /\ pc'[t] = "scan" => \E i \in Taken :
                      i >= slot[t] + 1 /\ fds[i] = fh[req[t]]
      <4>1. PICK i \in Taken : i >= slot[t] /\ fds[i] = fh[req[t]]
        BY <3>1, <3>3 DEF TableInv, RequestInv
      <4>2. slot[t] \in DOMAIN fds /\ i \in Nat
        BY <3>1, <3>3, TakenFinite DEF Sound, TableInv
      <4>3. fds[slot[t]] # fh[req[t]] => i >= slot[t] + 1
        BY <3>1, <4>1, <4>2
      <4>4. fds[slot[t]] = fh[req[t]] => slot[t] \in Taken
        BY <4>1, <4>2 DEF Taken
      <4> QED
        BY <3>1, <3>3, <4>1, <4>3, <4>4
    <3>4. slot'[t] \in Nat /\ pc'[t] \in {"match", "scan"}
      BY <3>1
    <3>5. fds' = fds /\ fh' = fh /\ hpc' = hpc
      BY <1>1 DEF tableVars, handleVars
    <3>6. ASSUME NEW u \in Threads
          PROVE  RequestInv!(u)'
      <4>1. CASE u = t
        BY <1>2, <3>1, <3>2, <3>3, <3>4, <3>5, <4>1
      <4>2. CASE u # t
        BY <1>2, <3>1, <3>5, <4>2 DEF TableInv, RequestInv
      <4> QED
        BY <4>1, <4>2
    <3> QED
      BY <3>6 DEF RequestInv
  <2>3. CASE Load(t) \/ Point(t)
    BY <1>1, <1>2, <2>3
    DEF TableInv, TypeOK, RequestInv, Load, Point, tableVars, handleVars
  <2>4. CASE Missed(t) \/ Finish(t)
    <3>1. /\ pc'[t] = "idle" /\ req'[t] = None
          /\ \A u \in Threads \ {t} :
               /\ pc'[u] = pc[u] /\ req'[u] = req[u] /\ slot'[u] = slot[u]
               /\ u \in strayed' <=> u \in strayed
      BY <1>4, <2>4 DEF Missed, Finish, Return
    <3> QED
      BY <1>1, <1>2, <3>1 DEF TableInv, RequestInv, tableVars, handleVars
  <2>5. CASE Use(t) \/ Used(t)
    BY <1>1, <1>2, <2>5
    DEF TableInv, TypeOK, RequestInv, Use, Used, tableVars, handleVars
  <2> QED
    BY <2>1, <2>2, <2>3, <2>4, <2>5 DEF RequestSteps, LookupSteps
<1> QED
  BY <1>2, <1>3, <1>6, <1>7, <1>8 DEF TableInv

-----------------------------------------------------------------------------
(* bb_open and bb_release.                                                  *)

\* The descriptor that open(2) returns is in no slot.
LEMMA OpenFileStep ==
  ASSUME TableInv, NEW h \in Handles, OpenFile(h)
  PROVE  TableInv'
<1>1. PICK fd \in Fds : /\ fd \notin open
                        /\ fh' = [fh EXCEPT ![h] = fd]
                        /\ open' = open \cup {fd}
  BY DEF OpenFile, Lowest, Unused
<1>2. /\ hpc[h] = "closed" /\ hpc' = [hpc EXCEPT ![h] = "register"]
      /\ UNCHANGED <<tableVars, mutex, cursor, lent, threadVars>>
  BY DEF OpenFile, Goto
<1>3. TypeOK'
  BY <1>1, <1>2 DEF TableInv, TypeOK, tableVars, threadVars
<1>4. /\ hpc'[h] = "register" /\ fh'[h] = fd
      /\ \A g \in Handles \ {h} : hpc'[g] = hpc[g] /\ fh'[g] = fh[g]
  BY <1>1, <1>2 DEF TableInv, TypeOK
<1>5. LockInv'
  BY <1>2, <1>4 DEF TableInv, LockInv, Holding, Growing, Unextended, threadVars
<1>6. FdsInv'
  <2>1. lent \subseteq open
    BY DEF TableInv, TypeOK
  <2> QED
    BY <1>1, <1>2, <1>4, <2>1 DEF TableInv, FdsInv
<1>7. ShapeInv'
  BY <1>2, <1>4 DEF TableInv, ShapeInv, Growing, Unextended, tableVars
<1>8. Taken' = Taken /\ Half' = Half
  BY <1>2, <1>4 DEF Taken, Half, Growing, Unextended, tableVars
<1>9. SlotInv'
  BY <1>2, <1>4, <1>8 DEF TableInv, SlotInv, tableVars
<1>10. RoomInv'
  BY <1>2, <1>4, <1>8 DEF TableInv, RoomInv, tableVars
<1>11. RequestInv'
  BY <1>2, <1>4, <1>8 DEF TableInv, RequestInv, tableVars, threadVars
<1> QED
  BY <1>3, <1>5, <1>6, <1>7, <1>9, <1>10, <1>11 DEF TableInv

\* Taking the lock keeps the invariant: the size is doubled before the arrays are.
LEMMA LockStep ==
  ASSUME TableInv, NEW h \in Handles, Lock(h)
  PROVE  TableInv'
<1>1. /\ hpc[h] = "register" /\ ~mutex /\ mutex' = TRUE
      /\ UNCHANGED <<fds, files, nFds, moved, at, fh, cursor, open, lent,
                     threadVars>>
  BY DEF Lock
<1>2. /\ cap \in Nat /\ cap > 0 /\ nFds \in Nat
      /\ DOMAIN fds = 0..(cap - 1) /\ DOMAIN files = 0..(cap - 1)
      /\ fds \in [0..(cap - 1) -> Fds \cup {Free, Junk}]
      /\ files \in [0..(cap - 1) -> Handles \cup {None}]
  <2>1. \A g \in Handles : hpc[g] \notin Unextended
    BY <1>1 DEF TableInv, LockInv, Holding, Unextended, Growing
  <2>2. cap \in Nat /\ cap > 0 /\ nFds \in Nat
    BY DEF TableInv, TypeOK
  <2> QED
    BY <2>1, <2>2, WholeTable DEF TableInv
<1>3. \A g \in Handles : hpc[g] \notin Holding
  BY <1>1 DEF TableInv, LockInv
<1>4. Taken' = Taken /\ Half = cap \div 2 /\ nFds <= cap \div 2
  BY <1>1, <1>3 DEF TableInv, RoomInv, Taken, Half, Holding, Unextended, Growing
<1>5. \/ nFds >= cap \div 2 /\ cap' = 2 * cap /\ Goto(h, "files")
      \/ nFds < cap \div 2 /\ cap' = cap /\ Goto(h, "claim")
  BY <1>2 DEF Lock
<1>6. cap' \in Nat /\ cap' > 0 /\ (cap' = cap \/ cap' \div 2 = cap)
  BY <1>2, <1>5
<1>7. /\ hpc'[h] \in {"files", "claim"}
      /\ hpc'[h] = "files" => cap' = 2 * cap
      /\ hpc'[h] = "claim" => cap' = cap /\ nFds < cap \div 2
      /\ \A g \in Handles \ {h} : hpc'[g] = hpc[g]
      /\ hpc' \in [Handles -> {"closed", "register", "files", "setfiles", "fds",
                               "setfds", "clear", "claim", "open", "close"}]
  BY <1>5 DEF Goto, TableInv, TypeOK
<1>8. TypeOK'
  <2>1. /\ \E n \in {cap', cap' \div 2} :
             fds' \in [0..(n - 1) -> Fds \cup {Free, Junk}]
        /\ \E n \in {cap', cap' \div 2} :
             files' \in [0..(n - 1) -> Handles \cup {None}]
    BY <1>1, <1>2, <1>6
  <2>2. cursor' \in [Handles -> 0..cap' \cup {None}]
    <3>1. cursor \in [Handles -> 0..cap \cup {None}] /\ cap <= cap'
      BY <1>2, <1>5 DEF TableInv, TypeOK
    <3>2. 0..cap \subseteq 0..cap'
      BY <1>2, <1>6, <3>1
    <3> QED
      BY <1>1, <3>1, <3>2
  <2>3. mutex' \in BOOLEAN /\ cap' \in Nat \ {0}
    BY <1>1, <1>6
  <2> QED
    BY <1>1, <1>7, <2>1, <2>2, <2>3 DEF TableInv, TypeOK, threadVars
<1>9. LockInv'
  BY <1>1, <1>3, <1>7
  DEF TableInv, LockInv, Holding, Growing, Unextended, threadVars
<1>10. FdsInv'
  BY <1>1, <1>7 DEF TableInv, FdsInv
<1>11. ShapeInv'
  <2>1. CASE hpc'[h] = "files"
    <3>1. cap' \div 2 = cap
      BY <1>2, <1>7, <2>1
    <3> QED
      BY <1>1, <1>2, <1>3, <1>7, <2>1, <3>1
      DEF ShapeInv, Growing, Holding, Unextended
  <2>2. CASE hpc'[h] = "claim"
    BY <1>1, <1>2, <1>3, <1>7, <2>2 DEF ShapeInv, Growing, Holding, Unextended
  <2> QED
    BY <1>7, <2>1, <2>2
<1>12. Half' = cap \div 2
  <2>1. CASE hpc'[h] = "files"
    <3>1. cap' \div 2 = cap
      BY <1>2, <1>7, <2>1
    <3> QED
      BY <2>1, <3>1 DEF Half, Growing, Unextended
  <2>2. CASE hpc'[h] = "claim"
    BY <1>3, <1>7, <2>2 DEF Half, Growing, Holding, Unextended
  <2> QED
    BY <1>7, <2>1, <2>2
<1>13. SlotInv'
  BY <1>1, <1>4, <1>7 DEF TableInv, SlotInv
<1>14. RoomInv'
  <2>1. \A i \in DOMAIN fds : fds[i] # Junk
    BY <1>3 DEF TableInv, RoomInv, Holding, Growing, Unextended
  <2>2. \A g \in Handles : hpc'[g] = "claim" => nFds' < cap' \div 2
    BY <1>1, <1>3, <1>7 DEF Holding, Growing, Unextended
  <2> QED
    BY <1>1, <1>4, <1>12, <2>1, <2>2 DEF TableInv, RoomInv
<1>15. RequestInv'
  BY <1>1, <1>4, <1>7 DEF TableInv, RequestInv, threadVars
<1> QED
  BY <1>8, <1>9, <1>10, <1>11, <1>13, <1>14, <1>15 DEF TableInv

\* What the first half of the table holds while fds has not got its new size.
LEMMA OldTable ==
  ASSUME TableInv, NEW h \in Handles, hpc[h] \in Growing
  PROVE  /\ cap \div 2 \in Nat /\ cap \div 2 > 0 /\ cap = 2 * (cap \div 2)
         /\ \A g \in Handles \ {h} : hpc[g] \notin Holding
         /\ hpc[h] = "files" =>
              files \in [0..(cap \div 2 - 1) -> Handles \cup {None}]
         /\ hpc[h] # "files" =>
              files \in [0..(cap - 1) -> Handles \cup {None}]
         /\ hpc[h] \in Unextended =>
              fds \in [0..(cap \div 2 - 1) -> Fds \cup {Free, Junk}]
         /\ hpc[h] \notin Unextended =>
              fds \in [0..(cap - 1) -> Fds \cup {Free, Junk}]
<1>1. cap \div 2 \in Nat /\ cap \div 2 > 0 /\ cap = 2 * (cap \div 2)
  BY Shape DEF TableInv, ShapeInv
<1>2. \A g \in Handles \ {h} : hpc[g] \notin Holding
  BY DEF TableInv, LockInv, Holding, Growing, Unextended
<1>3. /\ hpc[h] = "files" => DOMAIN files = 0..(cap \div 2 - 1)
      /\ hpc[h] # "files" => DOMAIN files = 0..(cap - 1)
      /\ hpc[h] \in Unextended => DOMAIN fds = 0..(cap \div 2 - 1)
      /\ hpc[h] \notin Unextended => DOMAIN fds = 0..(cap - 1)
  BY <1>2 DEF TableInv, ShapeInv, Holding, Growing, Unextended
<1> QED
  BY <1>1, <1>2, <1>3, Shape DEF TableInv

\* files grows to the size.
LEMMA GrowFilesStep ==
  ASSUME TableInv, NEW h \in Handles, GrowFiles(h)
  PROVE  TableInv' /\ \A i \in Taken : Kept(i)
<1> DEFINE old == cap \div 2
<1>1. /\ hpc[h] = "files" /\ hpc' = [hpc EXCEPT ![h] = "setfiles"]
      /\ UNCHANGED <<cap, fds, nFds, at, mutex, fh, cursor, open, lent,
                     threadVars>>
  BY DEF GrowFiles, Goto
<1>2. /\ old \in Nat /\ old > 0 /\ cap = 2 * old
      /\ \A g \in Handles \ {h} : hpc[g] \notin Holding
      /\ files \in [0..(old - 1) -> Handles \cup {None}]
      /\ fds \in [0..(old - 1) -> Fds \cup {Free, Junk}]
  BY <1>1, OldTable DEF Growing, Unextended
<1>3. files' = [i \in 0..(cap - 1) |-> IF i \in 0..(old - 1) THEN files[i]
                                      ELSE None]
  BY <1>2 DEF GrowFiles
<1>4. /\ files' \in [0..(cap - 1) -> Handles \cup {None}]
      /\ \A i \in 0..(old - 1) : files'[i] = files[i]
  BY <1>2, <1>3
<1>5. /\ hpc'[h] = "setfiles"
      /\ \A g \in Handles \ {h} : hpc'[g] = hpc[g] /\ hpc[g] \notin Holding
  BY <1>1, <1>2 DEF TableInv, TypeOK
<1>6. TypeOK'
  <2>1. moved' \in [Arrays -> Nat]
    BY DEF TableInv, TypeOK, GrowFiles, Realloc, Arrays
  <2>2. hpc' \in [Handles -> {"closed", "register", "files", "setfiles", "fds",
                               "setfds", "clear", "claim", "open", "close"}]
    BY <1>1 DEF TableInv, TypeOK
  <2> QED
    BY <1>1, <1>4, <2>1, <2>2 DEF TableInv, TypeOK, threadVars
<1>7. LockInv' /\ FdsInv'
  BY <1>1, <1>5
  DEF TableInv, LockInv, FdsInv, Holding, Growing, Unextended, threadVars
<1>8. ShapeInv'
  BY <1>1, <1>2, <1>4, <1>5 DEF TableInv, ShapeInv, Holding, Growing, Unextended
<1>9. /\ Taken' = Taken /\ Half' = Half
      /\ \A i \in Taken : i \in 0..(old - 1)
  BY <1>1, <1>2, <1>5 DEF Taken, Half, Growing, Unextended
<1>10. SlotInv'
  BY <1>1, <1>4, <1>5, <1>9 DEF TableInv, SlotInv
<1>11. RoomInv'
  <2>1. \A i \in DOMAIN fds : fds[i] # Junk
    BY <1>1, <1>2, <1>5 DEF TableInv, RoomInv, Holding, Unextended, Growing
  <2>2. \A g \in Handles : hpc'[g] # "claim"
    BY <1>5 DEF Holding, Growing, Unextended
  <2> QED
    BY <1>1, <1>9, <2>1, <2>2 DEF TableInv, RoomInv
<1>12. RequestInv'
  BY <1>1, <1>5, <1>9 DEF TableInv, RequestInv, threadVars
<1>13. \A i \in Taken : Kept(i)
  BY <1>1, <1>4, <1>9 DEF Kept
<1> QED
  BY <1>6, <1>7, <1>8, <1>10, <1>11, <1>12, <1>13 DEF TableInv

\* What it returned is assigned.
LEMMA SetFilesStep ==
  ASSUME TableInv, NEW h \in Handles, SetFiles(h)
  PROVE  TableInv'
<1>1. /\ hpc[h] = "setfiles" /\ hpc' = [hpc EXCEPT ![h] = "fds"]
      /\ at' = [at EXCEPT !["files"] = moved["files"]]
      /\ UNCHANGED <<cap, fds, files, nFds, moved, mutex, fh, cursor, open, lent,
                     threadVars>>
  BY DEF SetFiles, Goto
<1>2. /\ hpc'[h] = "fds"
      /\ \A g \in Handles \ {h} : hpc'[g] = hpc[g] /\ hpc[g] \notin Holding
  BY <1>1, OldTable DEF TableInv, TypeOK, Growing, Unextended
<1>3. TypeOK'
  <2>1. at' \in [Arrays -> Nat]
    BY <1>1 DEF TableInv, TypeOK, Arrays
  <2>2. hpc' \in [Handles -> {"closed", "register", "files", "setfiles", "fds",
                               "setfds", "clear", "claim", "open", "close"}]
    BY <1>1 DEF TableInv, TypeOK
  <2> QED
    BY <1>1, <2>1, <2>2 DEF TableInv, TypeOK, threadVars
<1>4. LockInv' /\ FdsInv'
  BY <1>1, <1>2
  DEF TableInv, LockInv, FdsInv, Holding, Growing, Unextended, threadVars
<1>5. ShapeInv'
  BY <1>1, <1>2 DEF TableInv, ShapeInv, Holding, Growing, Unextended
<1>6. Taken' = Taken /\ Half' = Half
  BY <1>1, <1>2 DEF Taken, Half, Growing, Unextended
<1>7. SlotInv'
  BY <1>1, <1>2, <1>6 DEF TableInv, SlotInv
<1>8. RoomInv'
  BY <1>1, <1>2, <1>6 DEF TableInv, RoomInv, Holding, Unextended, Growing
<1>9. RequestInv'
  BY <1>1, <1>2, <1>6 DEF TableInv, RequestInv, threadVars
<1> QED
  BY <1>3, <1>4, <1>5, <1>7, <1>8, <1>9 DEF TableInv

\* fds grows to the size; what is new is the second half.
LEMMA GrowFdsStep ==
  ASSUME TableInv, NEW h \in Handles, GrowFds(h)
  PROVE  TableInv' /\ \A i \in Taken : Kept(i)
<1> DEFINE old == cap \div 2
<1>1. /\ hpc[h] = "fds" /\ hpc' = [hpc EXCEPT ![h] = "setfds"]
      /\ UNCHANGED <<cap, files, nFds, at, mutex, fh, cursor, open, lent,
                     threadVars>>
  BY DEF GrowFds, Goto
<1>2. /\ old \in Nat /\ old > 0 /\ cap = 2 * old
      /\ \A g \in Handles \ {h} : hpc[g] \notin Holding
      /\ files \in [0..(cap - 1) -> Handles \cup {None}]
      /\ fds \in [0..(old - 1) -> Fds \cup {Free, Junk}]
  BY <1>1, OldTable DEF Growing, Unextended
<1>3. fds' = [i \in 0..(cap - 1) |-> IF i \in 0..(old - 1) THEN fds[i] ELSE Junk]
  BY <1>2 DEF GrowFds
<1>4. /\ fds' \in [0..(cap - 1) -> Fds \cup {Free, Junk}]
      /\ \A i \in 0..(old - 1) : i \in 0..(cap - 1) /\ fds'[i] = fds[i]
      /\ \A i \in 0..(cap - 1) : i \notin 0..(old - 1) => fds'[i] = Junk
  BY <1>2, <1>3
<1>5. /\ hpc'[h] = "setfds"
      /\ \A g \in Handles \ {h} : hpc'[g] = hpc[g] /\ hpc[g] \notin Holding
  BY <1>1, <1>2 DEF TableInv, TypeOK
<1>6. TypeOK'
  <2>1. moved' \in [Arrays -> Nat]
    BY DEF TableInv, TypeOK, GrowFds, Realloc, Arrays
  <2>2. hpc' \in [Handles -> {"closed", "register", "files", "setfiles", "fds",
                               "setfds", "clear", "claim", "open", "close"}]
    BY <1>1 DEF TableInv, TypeOK
  <2> QED
    BY <1>1, <1>2, <1>4, <2>1, <2>2 DEF TableInv, TypeOK, threadVars
<1>7. LockInv' /\ FdsInv'
  BY <1>1, <1>5
  DEF TableInv, LockInv, FdsInv, Holding, Growing, Unextended, threadVars
<1>8. ShapeInv'
  <2>1. DOMAIN fds' = 0..(cap - 1) /\ DOMAIN files = 0..(cap - 1)
    BY <1>2, <1>4
  <2> QED
    BY <1>1, <1>2, <1>5, <2>1 DEF ShapeInv, Holding, Growing, Unextended
<1>9. /\ Taken' = Taken /\ Half' = Half
      /\ \A i \in Taken : i \in 0..(old - 1) /\ fds'[i] = fds[i]
  <2>1. Taken' = Taken
    BY <1>2, <1>3, <1>4, Marked DEF Taken
  <2>2. Half' = Half
    BY <1>1, <1>5 DEF Half, Growing, Unextended
  <2> QED
    BY <1>2, <1>4, <2>1, <2>2 DEF Taken
<1>10. SlotInv'
  BY <1>1, <1>5, <1>9 DEF TableInv, SlotInv
<1>11. RoomInv'
  <2>1. \A i \in DOMAIN fds' : fds'[i] = Junk => old <= i
    <3>1. \A i \in 0..(old - 1) : fds[i] # Junk
      BY <1>1, <1>2 DEF TableInv, RoomInv, Holding, Unextended, Growing
    <3> QED
      BY <1>2, <1>3, <1>4, <3>1
  <2>2. \A g \in Handles : hpc'[g] # "claim"
    BY <1>5 DEF Holding, Growing, Unextended
  <2> QED
    BY <1>1, <1>5, <1>9, <2>1, <2>2 DEF TableInv, RoomInv
<1>12. RequestInv'
  BY <1>1, <1>5, <1>9 DEF TableInv, RequestInv, threadVars
<1>13. \A i \in Taken : Kept(i)
  BY <1>1, <1>9 DEF Kept
<1> QED
  BY <1>6, <1>7, <1>8, <1>10, <1>11, <1>12, <1>13 DEF TableInv

\* The loop that initialises the new slots starts behind the taken ones.
LEMMA SetFdsStep ==
  ASSUME TableInv, NEW h \in Handles, SetFds(h)
  PROVE  TableInv'
<1> DEFINE old == cap \div 2
<1>1. /\ hpc[h] = "setfds" /\ hpc' = [hpc EXCEPT ![h] = "clear"]
      /\ at' = [at EXCEPT !["fds"] = moved["fds"]]
      /\ cursor' = [cursor EXCEPT ![h] = old - 1]
      /\ UNCHANGED <<cap, fds, files, nFds, moved, mutex, fh, open, lent,
                     threadVars>>
  BY DEF SetFds, Goto
<1>2. /\ old \in Nat /\ old > 0 /\ cap = 2 * old
      /\ \A g \in Handles \ {h} : hpc[g] \notin Holding
      /\ files \in [0..(cap - 1) -> Handles \cup {None}]
      /\ fds \in [0..(cap - 1) -> Fds \cup {Free, Junk}]
  BY <1>1, OldTable DEF Growing, Unextended
<1>3. /\ hpc'[h] = "clear" /\ cursor'[h] = old - 1
      /\ \A g \in Handles \ {h} : hpc'[g] = hpc[g] /\ hpc[g] \notin Holding
  BY <1>1, <1>2 DEF TableInv, TypeOK
<1>4. TypeOK'
  <2>1. at' \in [Arrays -> Nat]
    BY <1>1 DEF TableInv, TypeOK, Arrays
  <2>2. hpc' \in [Handles -> {"closed", "register", "files", "setfiles", "fds",
                               "setfds", "clear", "claim", "open", "close"}]
    BY <1>1 DEF TableInv, TypeOK
  <2>3. cursor' \in [Handles -> 0..cap \cup {None}]
    <3>1. old - 1 \in 0..cap
      BY <1>2
    <3> QED
      BY <1>1, <3>1 DEF TableInv, TypeOK
  <2> QED
    BY <1>1, <2>1, <2>2, <2>3 DEF TableInv, TypeOK, threadVars
<1>5. LockInv' /\ FdsInv'
  BY <1>1, <1>3
  DEF TableInv, LockInv, FdsInv, Holding, Growing, Unextended, threadVars
<1>6. ShapeInv'
  <2>1. DOMAIN fds = 0..(cap - 1) /\ DOMAIN files = 0..(cap - 1)
    BY <1>2
  <2>2. old - 1 \in (cap \div 2 - 1)..cap
    BY <1>2
  <2> QED
    BY <1>1, <1>2, <1>3, <2>1, <2>2 DEF ShapeInv, Holding, Growing, Unextended
<1>7. Taken' = Taken /\ Half' = Half
  BY <1>1, <1>3 DEF Taken, Half, Growing, Unextended
<1>8. SlotInv'
  BY <1>1, <1>3, <1>7 DEF TableInv, SlotInv
<1>9. RoomInv'
  <2>1. \A i \in DOMAIN fds : fds[i] = Junk => old - 1 <= i
    BY <1>1, <1>2 DEF TableInv, RoomInv, Holding, Unextended, Growing
  <2>2. \A g \in Handles : hpc'[g] # "claim"
    BY <1>3 DEF Holding, Growing, Unextended
  <2> QED
    BY <1>1, <1>3, <1>7, <2>1, <2>2 DEF TableInv, RoomInv
<1>10. RequestInv'
  BY <1>1, <1>3, <1>7 DEF TableInv, RequestInv, threadVars
<1> QED
  BY <1>4, <1>5, <1>6, <1>8, <1>9, <1>10 DEF TableInv

\* When the loop ends every slot is initialised.
LEMMA ClearedStep ==
  ASSUME TableInv, NEW h \in Handles, Cleared(h)
  PROVE  TableInv'
<1>1. /\ hpc[h] = "clear" /\ hpc' = [hpc EXCEPT ![h] = "claim"]
      /\ cursor[h] = cap /\ cursor' = [cursor EXCEPT ![h] = None]
      /\ UNCHANGED <<tableVars, mutex, fh, open, lent, threadVars>>
  BY DEF Cleared, Goto
<1>2. /\ hpc'[h] = "claim"
      /\ \A g \in Handles \ {h} : hpc'[g] = hpc[g] /\ hpc[g] \notin Holding
  BY <1>1 DEF TableInv, TypeOK, LockInv, Holding, Growing, Unextended
<1>3. TypeOK'
  BY <1>1 DEF TableInv, TypeOK, tableVars, threadVars
<1>4. LockInv'
  BY <1>1, <1>2 DEF TableInv, LockInv, Holding, Growing, Unextended, threadVars
<1>5. FdsInv'
  BY <1>1, <1>2 DEF TableInv, FdsInv
<1>6. ShapeInv' /\ DOMAIN fds = 0..(cap - 1)
  BY <1>1, <1>2 DEF TableInv, ShapeInv, Growing, Holding, Unextended, tableVars
<1>7. /\ Taken' = Taken
      /\ Half = (cap \div 2) \div 2 /\ Half' = cap \div 2
  BY <1>1, <1>2 DEF Taken, Half, Growing, Holding, Unextended, tableVars
<1>8. cap \div 2 \in Nat /\ cap \div 2 > 0
  BY <1>1, Shape DEF TableInv, ShapeInv, Growing, Unextended
<1>9. Half < cap \div 2 /\ nFds \in Nat
  BY <1>7, <1>8 DEF TableInv, TypeOK
<1>10. SlotInv'
  BY <1>1, <1>2, <1>7 DEF TableInv, SlotInv, tableVars
<1>11. RoomInv'
  <2>1. ASSUME NEW i \in DOMAIN fds, fds[i] = Junk PROVE FALSE
    <3>1. \E g \in Handles :
            hpc[g] = "setfds" \/ (hpc[g] = "clear" /\ cursor[g] <= i)
      BY <2>1 DEF TableInv, RoomInv
    <3>2. cursor[h] <= i
      BY <1>1, <1>2, <3>1 DEF Holding, Growing
    <3> QED
      BY <1>1, <1>6, <3>2, Shape DEF TableInv
  <2>2. nFds < cap \div 2
    BY <1>7, <1>9 DEF TableInv, RoomInv
  <2>3. \A i \in Taken : i < cap \div 2
    <3>1. Taken \subseteq Nat /\ \A i \in Taken : i < Half
      BY TakenFinite DEF TableInv, RoomInv
    <3>2. Half \in Nat
      BY <1>7, <1>8
    <3> QED
      BY <1>8, <1>9, <3>1, <3>2
  <2>4. \A i \in DOMAIN fds : fds[i] # Junk
    BY <2>1
  <2> QED
    BY <1>1, <1>7, <1>9, <2>2, <2>3, <2>4 DEF TableInv, RoomInv, tableVars
<1>12. RequestInv'
  BY <1>1, <1>2, <1>7 DEF TableInv, RequestInv, tableVars, threadVars
<1> QED
  BY <1>3, <1>4, <1>5, <1>6, <1>10, <1>11, <1>12 DEF TableInv

\* The loop that initialises new slots is past the taken ones.
LEMMA ClearSlotStep ==
  ASSUME TableInv, NEW h \in Handles, ClearSlot(h)
  PROVE  TableInv' /\ \A i \in Taken : Kept(i)
<1> DEFINE c == cursor[h]
<1>1. /\ hpc[h] = "clear" /\ fds' = [fds EXCEPT ![c] = Free]
      /\ cursor' = [cursor EXCEPT ![h] = c + 1]
      /\ UNCHANGED <<cap, files, nFds, moved, at, mutex, hpc, fh, open, lent,
                     threadVars>>
  BY DEF ClearSlot
<1>2. /\ cap \in Nat /\ cap \div 2 > 0 /\ cap = 2 * (cap \div 2)
      /\ c \in Nat /\ c < cap /\ c >= cap \div 2 - 1
  <2>1. cap \in Nat /\ cap \div 2 > 0 /\ cap = 2 * (cap \div 2)
    BY <1>1, Shape DEF TableInv, ShapeInv, Growing, Unextended
  <2>2. c \in (cap \div 2 - 1)..cap /\ c < cap
    BY <1>1 DEF TableInv, ShapeInv, ClearSlot
  <2> QED
    BY <2>1, <2>2
<1>3. /\ \A g \in Handles : hpc[g] \in Holding => g = h
      /\ Half = (cap \div 2) \div 2
  BY <1>1 DEF TableInv, LockInv, Half, Growing, Holding, Unextended
<1>4. /\ DOMAIN fds = 0..(cap - 1) /\ DOMAIN files = 0..(cap - 1)
      /\ fds \in [0..(cap - 1) -> Fds \cup {Free, Junk}]
      /\ files \in [0..(cap - 1) -> Handles \cup {None}]
  <2>1. \A g \in Handles : hpc[g] \notin Unextended
    BY <1>1, <1>3 DEF Holding, Growing, Unextended
  <2> QED
    BY <2>1, WholeTable DEF TableInv
<1>5. c \notin Taken
  BY <1>2, <1>3 DEF TableInv, RoomInv
<1>6. /\ fds' \in [0..(cap - 1) -> Fds \cup {Free, Junk}]
      /\ fds'[c] = Free
      /\ \A i \in 0..(cap - 1) : i # c => fds'[i] = fds[i]
  BY <1>1, <1>2, <1>4
<1>7. Taken' = Taken
  BY <1>4, <1>5, <1>6, Marked DEF Taken
<1>8. \A i \in Taken : fds'[i] = fds[i]
  BY <1>4, <1>5, <1>6 DEF Taken
<1>9. cursor'[h] = c + 1 /\ cursor' \in [Handles -> 0..cap \cup {None}]
  BY <1>1, <1>2 DEF TableInv, TypeOK
<1>10. TypeOK'
  BY <1>1, <1>4, <1>6, <1>9 DEF TableInv, TypeOK, threadVars
<1>11. LockInv' /\ FdsInv'
  BY <1>1
  DEF TableInv, LockInv, FdsInv, Holding, Growing, Unextended, threadVars
<1>12. ShapeInv'
  <2>1. c + 1 \in (cap \div 2 - 1)..cap
    BY <1>2
  <2>2. \A g \in Handles : hpc[g] \in Growing => g = h
    BY <1>3 DEF Holding, Growing, Unextended
  <2> QED
    BY <1>1, <1>2, <1>4, <1>6, <1>9, <2>1, <2>2
    DEF ShapeInv, Growing, Unextended
<1>13. SlotInv'
  BY <1>1, <1>7, <1>8 DEF TableInv, SlotInv
<1>14. RoomInv'
  <2>1. \A i \in 0..(cap - 1) : fds'[i] = Junk => c + 1 <= i
    <3>1. ASSUME NEW i \in 0..(cap - 1), fds[i] = Junk PROVE c <= i
      <4>1. \E g \in Handles :
              hpc[g] = "setfds" \/ (hpc[g] = "clear" /\ cursor[g] <= i)
        BY <1>4, <3>1 DEF TableInv, RoomInv
      <4> QED
        BY <1>1, <1>3, <4>1 DEF Holding, Growing
    <3> QED
      BY <1>2, <1>6, <3>1, Marked
  <2>2. Half' = Half
    BY <1>1 DEF Half
  <2>3. hpc'[h] = "clear" /\ \A g \in Handles : hpc'[g] # "claim"
    BY <1>1, <1>3 DEF Holding, Growing, Unextended
  <2> QED
    BY <1>1, <1>6, <1>7, <1>9, <2>1, <2>2, <2>3 DEF TableInv, RoomInv
<1>15. RequestInv'
  BY <1>1, <1>7, <1>8 DEF TableInv, RequestInv, threadVars
<1>16. \A i \in Taken : Kept(i)
  BY <1>1, <1>7, <1>8 DEF Kept
<1> QED
  BY <1>10, <1>11, <1>12, <1>13, <1>14, <1>15, <1>16 DEF TableInv

\* What Claim does: the slot is free, and in the first half of the table.
LEMMA ClaimSlot ==
  ASSUME TableInv, NEW h \in Handles, NEW i \in DOMAIN fds,
         hpc[h] = "claim", FirstFree(i)
  PROVE  /\ i \in Nat /\ i < cap \div 2 /\ i \notin Taken
         /\ DOMAIN fds = 0..(cap - 1) /\ DOMAIN files = 0..(cap - 1)
         /\ fds \in [0..(cap - 1) -> Fds \cup {Free, Junk}]
         /\ files \in [0..(cap - 1) -> Handles \cup {None}]
         /\ \A k \in 0..(cap - 1) : fds[k] # Junk
<1>1. \A g \in Handles : hpc[g] \in Holding => g = h
  BY DEF TableInv, LockInv, Holding, Growing, Unextended
<1>2. \A g \in Handles : hpc[g] \notin Unextended
  BY <1>1 DEF Holding, Growing, Unextended
<1>3. /\ DOMAIN fds = 0..(cap - 1) /\ DOMAIN files = 0..(cap - 1)
      /\ fds \in [0..(cap - 1) -> Fds \cup {Free, Junk}]
      /\ files \in [0..(cap - 1) -> Handles \cup {None}]
  BY <1>2, WholeTable DEF TableInv
<1>4. \A k \in 0..(cap - 1) : fds[k] # Junk
  BY <1>1, <1>3 DEF TableInv, RoomInv, Holding, Unextended, Growing
<1>5. cap \in Nat /\ i \in Nat /\ i \in 0..(cap - 1)
  BY <1>3, Shape DEF TableInv
<1>6. \A j \in 0..(i - 1) : fds[j] \in Fds
  BY <1>3, <1>4, <1>5 DEF FirstFree
<1>7. i <= Cardinality(Taken)
  BY <1>5, <1>6, FirstFreeBound DEF TableInv
<1>8. Cardinality(Taken) < cap \div 2
  BY DEF TableInv, RoomInv
<1>9. i < cap \div 2
  BY <1>5, <1>7, <1>8, TakenFinite, Shape DEF TableInv
<1>10. i \notin Taken
  BY Marked DEF FirstFree, Taken
<1> QED
  BY <1>3, <1>4, <1>5, <1>9, <1>10

\* The claimed slot is counted and holds its own handle.
LEMMA ClaimStep ==
  ASSUME TableInv, NEW h \in Handles, Claim(h)
  PROVE  TableInv' /\ \A i \in Taken : Kept(i)
<1>1. PICK i \in DOMAIN fds :
        /\ FirstFree(i)
        /\ fds' = [fds EXCEPT ![i] = fh[h]]
        /\ files' = [files EXCEPT ![i] = h]
  BY DEF Claim
<1>2. /\ hpc[h] = "claim" /\ hpc' = [hpc EXCEPT ![h] = "open"]
      /\ nFds' = nFds + 1 /\ mutex' = FALSE
      /\ UNCHANGED <<cap, moved, at, fh, cursor, open, lent, threadVars>>
  BY DEF Claim, Goto
<1>3. /\ i \in Nat /\ i < cap \div 2 /\ i \notin Taken
      /\ DOMAIN fds = 0..(cap - 1) /\ DOMAIN files = 0..(cap - 1)
      /\ fds \in [0..(cap - 1) -> Fds \cup {Free, Junk}]
      /\ files \in [0..(cap - 1) -> Handles \cup {None}]
      /\ \A k \in 0..(cap - 1) : fds[k] # Junk
  BY <1>1, <1>2, ClaimSlot
<1>4. fh[h] \in Fds
  BY <1>2 DEF TableInv, FdsInv, TypeOK
<1>5. /\ fds' \in [0..(cap - 1) -> Fds \cup {Free, Junk}]
      /\ files' \in [0..(cap - 1) -> Handles \cup {None}]
      /\ fds'[i] = fh[h] /\ files'[i] = h
      /\ \A k \in 0..(cap - 1) : k # i => fds'[k] = fds[k] /\ files'[k] = files[k]
  BY <1>1, <1>3, <1>4
<1>6. Taken' = Taken \cup {i}
  BY <1>1, <1>3, <1>4, <1>5 DEF Taken
<1>7. /\ hpc'[h] = "open"
      /\ \A g \in Handles \ {h} : hpc'[g] = hpc[g] /\ hpc[g] \notin Holding
  <2>1. \A g \in Handles \ {h} : hpc[g] \notin Holding
    BY <1>2 DEF TableInv, LockInv, Holding, Growing, Unextended
  <2> QED
    BY <1>2, <2>1 DEF TableInv, TypeOK
<1>8. \A k \in Taken : k # i /\ fds'[k] = fds[k] /\ files'[k] = files[k]
  BY <1>3, <1>5 DEF Taken
<1>9. TypeOK'
  <2>1. /\ hpc' \in [Handles -> {"closed", "register", "files", "setfiles",
                                 "fds", "setfds", "clear", "claim", "open",
                                 "close"}]
        /\ nFds' \in Nat
    BY <1>2 DEF TableInv, TypeOK
  <2>2. mutex' \in BOOLEAN
    BY <1>2
  <2> QED
    BY <1>2, <1>5, <2>1, <2>2 DEF TableInv, TypeOK, threadVars
<1>10. LockInv'
  <2>1. \A t \in Threads : pc[t] # "use"
    BY <1>2 DEF TableInv, LockInv, Holding, Growing, Unextended
  <2>2. \A g \in Handles : hpc'[g] \notin Holding
    BY <1>7 DEF Holding, Growing, Unextended
  <2> QED
    BY <1>2, <2>1, <2>2 DEF LockInv, threadVars
<1>11. FdsInv'
  BY <1>2, <1>7 DEF TableInv, FdsInv
<1>12. ShapeInv'
  BY <1>2, <1>3, <1>5, <1>7 DEF ShapeInv, Growing, Holding, Unextended
<1>13. SlotInv'
  <2>1. \A g \in Handles : hpc[g] = "open" => fh[g] # fh[h] /\ g # h
    BY <1>2 DEF TableInv, FdsInv
  <2>2. \A k \in Taken : fds[k] # fh[h]
    BY <2>1 DEF TableInv, SlotInv
  <2>3. \A g \in Handles : hpc'[g] = "open" =>
          \E k \in Taken' : fds'[k] = fh'[g] /\ files'[k] = g
    BY <1>2, <1>5, <1>6, <1>7, <1>8 DEF TableInv, SlotInv
  <2>4. \A k \in Taken' : /\ files'[k] \in Handles /\ hpc'[files'[k]] = "open"
                          /\ fds'[k] = fh'[files'[k]]
    BY <1>2, <1>5, <1>6, <1>7, <1>8 DEF TableInv, SlotInv
  <2>5. \A j, k \in Taken' : fds'[j] = fds'[k] => j = k
    BY <1>5, <1>6, <1>8, <2>2 DEF TableInv, SlotInv
  <2> QED
    BY <2>3, <2>4, <2>5 DEF SlotInv
<1>14. RoomInv'
  <2>1. Cardinality(Taken') = Cardinality(Taken) + 1
    BY <1>3, <1>6, TakenFinite, FS_AddElement DEF TableInv
  <2>2. Half = cap \div 2 /\ Half' = cap \div 2
    BY <1>2, <1>7 DEF Half, Growing, Holding, Unextended
  <2>3. nFds \in Nat /\ cap \div 2 \in Nat /\ nFds < cap \div 2
    BY <1>2, Shape DEF TableInv, TypeOK, RoomInv
  <2>4. nFds' = Cardinality(Taken') /\ nFds' <= Half'
    BY <1>2, <2>1, <2>2, <2>3 DEF TableInv, RoomInv
  <2>5. \A k \in Taken' : k < Half'
    BY <1>3, <1>6, <2>2 DEF TableInv, RoomInv
  <2>6. \A k \in DOMAIN fds' : fds'[k] # Junk
    BY <1>3, <1>4, <1>5, Marked
  <2>7. \A g \in Handles : hpc'[g] # "claim"
    BY <1>7 DEF Holding, Growing, Unextended
  <2> QED
    BY <2>4, <2>5, <2>6, <2>7 DEF RoomInv
<1>15. RequestInv'
  <2>1. \A g \in Handles : hpc[g] = "open" => hpc'[g] = "open"
    BY <1>2, <1>7
  <2> QED
    BY <1>2, <1>6, <1>8, <2>1 DEF TableInv, RequestInv, threadVars
<1>16. \A k \in Taken : Kept(k)
  BY <1>6, <1>8 DEF Kept
<1> QED
  BY <1>9, <1>10, <1>11, <1>12, <1>13, <1>14, <1>15, <1>16 DEF TableInv

\* The slot of the handle is cleared and no longer counted.
LEMMA ReleaseSlotStep ==
  ASSUME TableInv, NEW h \in Handles, ReleaseSlot(h)
  PROVE  /\ TableInv'
         /\ hpc[h] = "open" /\ hpc'[h] = "close"
         /\ \A i \in Taken : fds[i] # fh[h] => Kept(i)
<1>1. PICK i \in DOMAIN fds :
        FirstHolding(i, fh[h]) /\ fds' = [fds EXCEPT ![i] = Free]
  BY DEF ReleaseSlot
<1>2. /\ hpc[h] = "open" /\ hpc' = [hpc EXCEPT ![h] = "close"]
      /\ ~mutex /\ nFds' = nFds - 1 /\ \A t \in Threads : req[t] # h
      /\ UNCHANGED <<cap, files, moved, at, mutex, fh, cursor, open, lent,
                     threadVars>>
  BY DEF ReleaseSlot, Goto, Quiet
<1>3. \A g \in Handles : hpc[g] \notin Holding
  BY <1>2 DEF TableInv, LockInv
<1>4. /\ cap \in Nat
      /\ DOMAIN fds = 0..(cap - 1) /\ DOMAIN files = 0..(cap - 1)
      /\ fds \in [0..(cap - 1) -> Fds \cup {Free, Junk}]
      /\ files \in [0..(cap - 1) -> Handles \cup {None}]
  <2>1. \A g \in Handles : hpc[g] \notin Unextended
    BY <1>3 DEF Holding, Unextended, Growing
  <2> QED
    BY <2>1, WholeTable, Shape DEF TableInv
<1>5. fds[i] = fh[h] /\ i \in Taken
  BY <1>1, <1>2 DEF FirstHolding, Taken, TableInv, FdsInv, TypeOK
<1>6. /\ fds' \in [0..(cap - 1) -> Fds \cup {Free, Junk}]
      /\ fds'[i] = Free
      /\ \A k \in 0..(cap - 1) : k # i => fds'[k] = fds[k]
  BY <1>1, <1>4
<1>7. Taken' = Taken \ {i}
  BY <1>4, <1>6, Marked DEF Taken
<1>8. \A k \in Taken : fds[k] # fh[h] => Kept(k)
  BY <1>2, <1>4, <1>5, <1>6, <1>7 DEF Taken, Kept
<1>9. /\ hpc'[h] = "close"
      /\ \A g \in Handles \ {h} : hpc'[g] = hpc[g]
      /\ hpc' \in [Handles -> {"closed", "register", "files", "setfiles", "fds",
                               "setfds", "clear", "claim", "open", "close"}]
  BY <1>2 DEF TableInv, TypeOK
<1>10. Cardinality(Taken') = Cardinality(Taken) - 1
  BY <1>5, <1>7, TakenFinite, FS_RemoveElement DEF TableInv
<1>11. Cardinality(Taken') \in Nat
  <2>1. IsFiniteSet(Taken')
    BY <1>7, TakenFinite, FS_RemoveElement DEF TableInv
  <2> QED
    BY <2>1, FS_CardinalityType
<1>12. nFds' = Cardinality(Taken') /\ nFds \in Nat /\ nFds' \in Nat
  BY <1>2, <1>10, <1>11 DEF TableInv, RoomInv, TypeOK
<1>13. TypeOK'
  BY <1>2, <1>4, <1>6, <1>9, <1>12 DEF TableInv, TypeOK, threadVars
<1>14. LockInv' /\ FdsInv'
  BY <1>2, <1>3, <1>9
  DEF TableInv, LockInv, FdsInv, Holding, Growing, Unextended, threadVars
<1>15. ShapeInv'
  BY <1>2, <1>3, <1>4, <1>6, <1>9 DEF ShapeInv, Growing, Holding, Unextended
<1>16. \A g \in Handles : hpc'[g] = "open" =>
         hpc[g] = "open" /\ g # h /\ fh[g] # fh[h]
  BY <1>2, <1>9 DEF TableInv, FdsInv
<1>17. SlotInv'
  <2>1. \A g \in Handles : hpc'[g] = "open" =>
          \E k \in Taken' : fds'[k] = fh'[g] /\ files'[k] = g
    BY <1>2, <1>8, <1>16 DEF TableInv, SlotInv, Kept
  <2>2. \A k \in Taken' : fds'[k] = fds[k] /\ k \in Taken /\ fds[k] # fh[h]
    BY <1>4, <1>5, <1>6, <1>7 DEF TableInv, SlotInv, Taken
  <2>3. \A k \in Taken' : /\ files'[k] \in Handles /\ hpc'[files'[k]] = "open"
                          /\ fds'[k] = fh'[files'[k]]
    BY <1>2, <1>9, <2>2 DEF TableInv, SlotInv
  <2> QED
    BY <2>1, <2>2, <2>3 DEF TableInv, SlotInv
<1>18. RoomInv'
  <2>1. Half' = cap \div 2 /\ Half = cap \div 2
    BY <1>2, <1>3, <1>9 DEF Half, Growing, Holding, Unextended
  <2>2. nFds' <= Half'
    BY <1>2, <1>4, <1>12, <2>1 DEF TableInv, RoomInv
  <2>3. \A k \in DOMAIN fds' : fds'[k] # Junk
    BY <1>3, <1>4, <1>6, Marked
    DEF TableInv, RoomInv, Holding, Growing, Unextended
  <2>4. \A g \in Handles : hpc'[g] # "claim"
    BY <1>3, <1>9 DEF Holding, Growing, Unextended
  <2> QED
    BY <1>7, <1>12, <2>1, <2>2, <2>3, <2>4 DEF TableInv, RoomInv
<1>19. RequestInv'
  <2>1. \A t \in Threads : pc[t] # "idle" =>
          req[t] \in Handles /\ hpc'[req[t]] = "open" /\ fh[req[t]] # fh[h]
    BY <1>2, <1>9 DEF TableInv, RequestInv, FdsInv
  <2> QED
    BY <1>2, <1>8, <2>1 DEF TableInv, RequestInv, Kept, threadVars
<1> QED
  BY <1>2, <1>8, <1>9, <1>13, <1>14, <1>15, <1>17, <1>18, <1>19 DEF TableInv

\* A descriptor is closed when no slot holds it.
LEMMA CloseStep ==
  ASSUME TableInv, NEW h \in Handles, Close(h)
  PROVE  TableInv'
<1>1. /\ hpc[h] = "close" /\ hpc' = [hpc EXCEPT ![h] = "closed"]
      /\ open' = open \ {fh[h]} /\ fh' = [fh EXCEPT ![h] = None]
      /\ UNCHANGED <<tableVars, mutex, cursor, lent, threadVars>>
  BY DEF Close, Goto
<1>2. /\ hpc'[h] = "closed"
      /\ \A g \in Handles \ {h} : hpc'[g] = hpc[g] /\ fh'[g] = fh[g]
  BY <1>1 DEF TableInv, TypeOK
<1>3. fh[h] \notin lent
  BY <1>1 DEF TableInv, FdsInv
<1>4. TypeOK'
  BY <1>1, <1>3 DEF TableInv, TypeOK, tableVars, threadVars
<1>5. LockInv'
  BY <1>1, <1>2 DEF TableInv, LockInv, Holding, Growing, Unextended, threadVars
<1>6. FdsInv'
  BY <1>1, <1>2 DEF TableInv, FdsInv
<1>7. ShapeInv'
  BY <1>1, <1>2 DEF TableInv, ShapeInv, Growing, Unextended, tableVars
<1>8. Taken' = Taken /\ Half' = Half
  BY <1>1, <1>2 DEF Taken, Half, Growing, Unextended, tableVars
<1>9. SlotInv'
  BY <1>1, <1>2, <1>8 DEF TableInv, SlotInv, tableVars
<1>10. RoomInv'
  BY <1>1, <1>2, <1>8 DEF TableInv, RoomInv, tableVars
<1>11. RequestInv'
  BY <1>1, <1>2, <1>8 DEF TableInv, RequestInv, tableVars, threadVars
<1> QED
  BY <1>4, <1>5, <1>6, <1>7, <1>9, <1>10, <1>11 DEF TableInv

-----------------------------------------------------------------------------
(* The theorems.                                                            *)

\* Every step keeps the invariant.
LEMMA TableStep == TableInv /\ [Next]_vars => TableInv'
<1> SUFFICES ASSUME TableInv, [Next]_vars PROVE TableInv'
  OBVIOUS
<1>1. CASE UNCHANGED vars
  <2>1. UNCHANGED <<tableVars, mutex, handleVars, open, lent, threadVars>>
    BY <1>1 DEF vars
  <2>2. (ShapeInv /\ SlotInv /\ RoomInv)' /\ Taken' = Taken
    BY <2>1, SameTable
  <2>3. TypeOK'
    BY <2>1 DEF TableInv, TypeOK, tableVars, handleVars, threadVars
  <2>4. LockInv' /\ FdsInv'
    BY <2>1 DEF TableInv, LockInv, FdsInv, handleVars, threadVars
  <2>5. RequestInv'
    BY <2>1, <2>2
    DEF TableInv, RequestInv, tableVars, handleVars, threadVars
  <2> QED
    BY <2>2, <2>3, <2>4, <2>5 DEF TableInv
<1>2. ASSUME NEW h \in Handles, OpenSteps(h) \/ ReleaseSteps(h)
      PROVE  TableInv'
  BY <1>2, OpenFileStep, LockStep, GrowFilesStep,
     SetFilesStep, GrowFdsStep, SetFdsStep, ClearSlotStep, ClearedStep,
     ClaimStep, ReleaseSlotStep, CloseStep
  DEF OpenSteps, ReleaseSteps
<1>3. ASSUME NEW t \in Threads, RequestSteps(t)
      PROVE  TableInv'
  BY <1>3, RequestStep
<1>4. CASE Stat \/ Borrow \/ GiveBack
  BY <1>4, DescriptorSteps
<1> QED
  BY <1>1, <1>2, <1>3, <1>4 DEF Next

\* The inductive invariant of the table of open files: who holds the lock, which
\* descriptors are whose, how far the table is initialised, which slots are taken.
THEOREM TableCorrect == Spec => []TableInv
BY InitTable, TableStep, PTL DEF Spec

\* Every reachable state of the table is well typed.
THEOREM TableTypeCorrect == Spec => []TypeOK
<1>1. TableInv => TypeOK
  BY DEF TableInv
<1> QED
  BY <1>1, TableCorrect, PTL

\* n_fds counts the taken slots, and no two of them hold one descriptor.
THEOREM TableExactHolds == Spec => []TableExact
<1>1. TableInv => TableExact
  BY DEF TableInv, TableExact, RoomInv, SlotInv
<1> QED
  BY <1>1, TableCorrect, PTL

\* No step takes a lookup astray before fds has moved: the slots below fds_cap that
\* fds does not have yet lie behind the slot of an open handle.
LEMMA StrayStep == TableInv /\ StrayInv /\ [Next]_vars => StrayInv'
<1> SUFFICES ASSUME TableInv, StrayInv, [Next]_vars PROVE StrayInv'
  OBVIOUS
<1>1. /\ at["fds"] \in Nat /\ moved["fds"] \in Nat
      /\ moved \in [Arrays -> Nat] /\ at \in [Arrays -> Nat]
      /\ ptr \in [Threads -> Nat]
  BY DEF TableInv, TypeOK, Arrays
<1>2. UNCHANGED <<moved, at, ptr, strayed>> => StrayInv'
  BY DEF StrayInv
<1>3. ASSUME NEW h \in Handles, OpenSteps(h) \/ ReleaseSteps(h)
      PROVE  StrayInv'
  <2>1. UNCHANGED <<ptr, strayed>>
    BY <1>3 DEF OpenSteps, ReleaseSteps, OpenFile, Lock, GrowFiles, SetFiles,
       GrowFds, SetFds, ClearSlot, Cleared, Claim, ReleaseSlot, Close, threadVars
  <2>2. CASE GrowFiles(h) \/ GrowFds(h)
    <3>1. /\ moved'["fds"] \in {moved["fds"], moved["fds"] + 1}
          /\ UNCHANGED at
      BY <1>1, <2>2 DEF GrowFiles, GrowFds, Realloc, Arrays
    <3> QED
      BY <1>1, <2>1, <3>1 DEF StrayInv
  <2>3. CASE SetFiles(h) \/ SetFds(h)
    <3>1. /\ UNCHANGED moved
          /\ at'["fds"] \in {at["fds"], moved["fds"]}
      BY <1>1, <2>3 DEF SetFiles, SetFds, Arrays
    <3> QED
      BY <1>1, <2>1, <3>1 DEF StrayInv
  <2>4. \/ OpenFile(h) \/ Lock(h) \/ ClearSlot(h) \/ Cleared(h) \/ Claim(h)
        \/ ReleaseSlot(h) \/ Close(h)
        => UNCHANGED <<moved, at>>
    BY DEF OpenFile, Lock, ClearSlot, Cleared, Claim, ReleaseSlot, Close,
       tableVars
  <2> QED
    BY <1>2, <1>3, <2>1, <2>2, <2>3, <2>4 DEF OpenSteps, ReleaseSteps
<1>4. ASSUME NEW t \in Threads, RequestSteps(t)
      PROVE  StrayInv'
  <2>1. UNCHANGED <<moved, at>>
    BY <1>4
    DEF RequestSteps, LookupSteps, Begin, Load, Missed, Read, Point, Use,
       Used, Finish, tableVars
  <2>2. \A u \in Threads : ptr'[u] <= moved["fds"]
    <3>1. \A u \in Threads : ptr'[u] \in {ptr[u], at["fds"], 0}
      BY <1>1, <1>4
      DEF RequestSteps, LookupSteps, Begin, Load, Missed, Read, Point,
         Use, Used, Finish
    <3> QED
      BY <1>1, <3>1 DEF StrayInv
  <2>3. moved["fds"] = 0 => strayed' = {}
    <3>1. CASE Read(t) /\ moved["fds"] = 0
      <4>1. ptr[t] = 0 /\ strayed = {}
        BY <1>1, <3>1 DEF StrayInv
      <4>2. PICK i \in Taken : i >= slot[t] /\ slot[t] \in Nat
        BY <3>1, <4>1 DEF TableInv, RequestInv, Read
      <4>3. \E n \in Nat : DOMAIN fds = 0..(n - 1)
        BY Shape DEF TableInv
      <4>4. slot[t] \in DOMAIN fds
        BY <4>2, <4>3 DEF Taken
      <4> QED
        BY <3>1, <4>1, <4>4 DEF Read, Sound
    <3>2. CASE ~Read(t)
      BY <1>4, <3>2
      DEF RequestSteps, LookupSteps, Begin, Load, Missed, Point, Use,
         Used, Finish, Return, StrayInv
    <3> QED
      BY <3>1, <3>2
  <2> QED
    BY <2>1, <2>2, <2>3 DEF StrayInv
<1>5. CASE Stat \/ Borrow \/ GiveBack \/ UNCHANGED vars
  BY <1>2, <1>5 DEF Stat, Borrow, GiveBack, vars, tableVars, threadVars
<1> QED
  BY <1>3, <1>4, <1>5 DEF Next

\* cfs_get_file, without the lock, does not miss an open handle as long as what it
\* reads is the table, whatever is opened, released and grown meanwhile; and it
\* can read anything else only once realloc has moved fds.
THEOREM LookupSucceedsHolds == Spec => []LookupSucceeds
<1>1. Init => StrayInv
  BY DEF Init, StrayInv, Arrays
<1>2. TableInv /\ StrayInv => LookupSucceeds
  BY DEF TableInv, LookupSucceeds, RequestInv, StrayInv, Taken
<1> QED
  BY <1>1, <1>2, StrayStep, TableCorrect, PTL DEF Spec

\* The slot it finds then is its own handle's until the request ends.
THEOREM RightFileHolds == Spec => []RightFile
<1>1. ASSUME TableInv, NEW t \in Threads \ strayed,
             pc[t] \in {"match", "found", "use"}
      PROVE  /\ slot[t] \in DOMAIN fds /\ fds[slot[t]] = fh[req[t]]
             /\ files[slot[t]] = req[t]
  <2>1. /\ req[t] \in Handles /\ hpc[req[t]] = "open"
        /\ slot[t] \in Taken /\ fds[slot[t]] = fh[req[t]]
    BY <1>1 DEF TableInv, RequestInv
  <2>2. PICK i \in Taken : fds[i] = fh[req[t]] /\ files[i] = req[t]
    BY <1>1, <2>1 DEF TableInv, SlotInv
  <2>3. i = slot[t]
    BY <1>1, <2>1, <2>2 DEF TableInv, SlotInv
  <2> QED
    BY <2>1, <2>2, <2>3 DEF Taken
<1>2. TableInv => RightFile
  BY <1>1 DEF RightFile
<1> QED
  BY <1>2, TableCorrect, PTL

\* A taken slot is changed by the release of its handle alone: the off-by-one
\* of the loop that initialises a grown table never reaches it.
THEOREM SlotsKeptHolds == Spec => SlotsKept
<1> DEFINE Clears(i) == \E h \in Handles :
             hpc[h] = "open" /\ hpc'[h] = "close" /\ fds[i] = fh[h]
<1>1. ASSUME TableInv, [Next]_vars, NEW i \in Taken
      PROVE  Kept(i) \/ Clears(i)
  <2>1. UNCHANGED <<fds, files>> => Kept(i)
    BY DEF Kept, Taken
  <2>2. ASSUME NEW h \in Handles, OpenSteps(h) \/ ReleaseSteps(h)
        PROVE  Kept(i) \/ Clears(i)
    <3>1. \/ OpenFile(h) \/ Lock(h) \/ SetFiles(h) \/ SetFds(h) \/ Cleared(h)
          \/ Close(h)
          => Kept(i)
      BY <2>1 DEF OpenFile, Lock, SetFiles, SetFds, Cleared, Close, tableVars
    <3>2. CASE GrowFiles(h) \/ GrowFds(h)
      BY <1>1, <3>2, GrowFilesStep, GrowFdsStep
    <3>3. CASE ClearSlot(h)
      BY <1>1, <3>3, ClearSlotStep
    <3>4. CASE Claim(h)
      BY <1>1, <3>4, ClaimStep
    <3>5. CASE ReleaseSlot(h)
      BY <1>1, <3>5, ReleaseSlotStep
    <3> QED
      BY <2>2, <3>1, <3>2, <3>3, <3>4, <3>5 DEF OpenSteps, ReleaseSteps
  <2>3. ASSUME NEW t \in Threads, RequestSteps(t)
        PROVE  Kept(i)
    BY <2>1, <2>3
    DEF RequestSteps, LookupSteps, Begin, Load, Missed, Read, Point, Use, Used,
        Finish, tableVars
  <2>4. CASE Stat \/ Borrow \/ GiveBack
    BY <2>1, <2>4 DEF Stat, Borrow, GiveBack, tableVars
  <2>5. CASE UNCHANGED vars
    BY <2>1, <2>5 DEF vars, tableVars
  <2> QED
    BY <1>1, <2>2, <2>3, <2>4, <2>5 DEF Next
<1>2. TableInv /\ [Next]_vars =>
        [\A i \in Taken :
           \/ i \in Taken' /\ fds'[i] = fds[i] /\ files'[i] = files[i]
           \/ \E h \in Handles :
                hpc[h] = "open" /\ hpc'[h] = "close" /\ fds[i] = fh[h]]_vars
  BY <1>1 DEF Kept
<1> QED
  BY <1>2, TableCorrect, PTL DEF Spec, SlotsKept

-----------------------------------------------------------------------------
(* Pointers into the arrays.                                                *)

\* No more files are ever open than half of the slots of the first table.
FewFiles == IsFiniteSet(Handles) /\ Cardinality(Handles) <= InitialCap \div 2

\* The table is the first one, where every pointer into it was taken.
StillFirst ==
  /\ cap = InitialCap /\ moved["files"] = 0 /\ at["files"] = 0
  /\ \A h \in Handles : hpc[h] \notin Growing
  /\ \A t \in Threads : seen[t] = 0

\* The slots that are taken are those of other files than the one being opened.
LEMMA RoomForOne ==
  ASSUME TableInv, FewFiles, NEW h \in Handles, hpc[h] # "open"
  PROVE  nFds < InitialCap \div 2
<1> DEFINE Others == Handles \ {h}
           owner == [i \in Taken |-> files[i]]
<1>1. owner \in Injection(Taken, Others)
  <2>1. \A i \in Taken : /\ files[i] \in Handles /\ hpc[files[i]] = "open"
                         /\ fds[i] = fh[files[i]]
    BY DEF TableInv, SlotInv
  <2>2. owner \in [Taken -> Others]
    BY <2>1
  <2>3. \A i, j \in Taken : files[i] = files[j] => i = j
    BY <2>1 DEF TableInv, SlotInv
  <2> QED
    BY <2>2, <2>3 DEF Injection, IsInjective
<1>2. IsFiniteSet(Others) /\ Cardinality(Others) = Cardinality(Handles) - 1
  BY FS_RemoveElement DEF FewFiles
<1>3. Cardinality(Taken) <= Cardinality(Others)
  BY <1>1, <1>2, FS_Injection
<1>4. Cardinality(Handles) \in Nat /\ Cardinality(Taken) \in Nat
  BY TakenFinite, FS_CardinalityType DEF FewFiles, TableInv
<1>5. nFds = Cardinality(Taken) /\ InitialCap \div 2 \in Int
  BY CapAssumption DEF TableInv, RoomInv
<1> HIDE DEF Others
<1> QED
  BY <1>2, <1>3, <1>4, <1>5 DEF FewFiles

\* No step makes the table grow.
LEMMA StillFirstStep ==
  ASSUME FewFiles, TableInv, StillFirst, [Next]_vars
  PROVE  StillFirst'
<1>1. ASSUME NEW h \in Handles, Lock(h) PROVE StillFirst'
  <2>1. nFds < cap \div 2
    BY <1>1, RoomForOne DEF Lock, StillFirst
  <2>2. cap \in Nat /\ nFds \in Nat
    BY DEF TableInv, TypeOK
  <2>3. UNCHANGED <<cap, moved, at, seen>> /\ hpc' = [hpc EXCEPT ![h] = "claim"]
    BY <1>1, <2>1, <2>2 DEF Lock, Goto, threadVars
  <2> QED
    BY <2>3 DEF StillFirst, TableInv, TypeOK, Growing, Unextended
<1>2. ASSUME NEW h \in Handles,
             OpenFile(h) \/ Claim(h) \/ ReleaseSlot(h) \/ Close(h)
      PROVE  StillFirst'
  BY <1>2 DEF OpenFile, Claim, ReleaseSlot, Close, Goto, StillFirst,
     TableInv, TypeOK, tableVars, threadVars, Growing, Unextended
<1>3. ASSUME NEW h \in Handles,
             \/ GrowFiles(h) \/ SetFiles(h) \/ GrowFds(h) \/ SetFds(h)
             \/ ClearSlot(h) \/ Cleared(h)
      PROVE  FALSE
  BY <1>3
  DEF GrowFiles, SetFiles, GrowFds, SetFds, ClearSlot, Cleared, StillFirst,
     Growing, Unextended
<1>4. ASSUME NEW t \in Threads, RequestSteps(t) PROVE StillFirst'
  <2>1. UNCHANGED <<tableVars, handleVars>>
    BY <1>4
    DEF RequestSteps, LookupSteps, Begin, Load, Missed, Read, Point, Use,
       Used, Finish
  <2>2. \A u \in Threads : seen'[u] = 0
    BY <1>4
    DEF RequestSteps, LookupSteps, Begin, Load, Missed, Read, Point, Use,
       Used, Finish, Return, StillFirst, TableInv, TypeOK
  <2> QED
    BY <2>1, <2>2 DEF StillFirst, tableVars, handleVars
<1>5. CASE Stat \/ Borrow \/ GiveBack \/ UNCHANGED vars
  BY <1>5 DEF Stat, Borrow, GiveBack, vars, StillFirst, tableVars, handleVars,
     threadVars
<1> QED
  BY <1>1, <1>2, <1>3, <1>4, <1>5 DEF Next, OpenSteps, ReleaseSteps

\* As long as no more files are open than half of FDS_STORE_INITIAL, the pointer
\* that bb_read or bb_write took without the lock is into the array of today: it is
\* the growth of the table alone that makes it stale.
THEOREM FewFilesStayFresh ==
  ASSUME FewFiles
  PROVE  Spec => []PointerFresh
<1>1. Init => StillFirst
  BY DEF Init, StillFirst, Growing, Unextended, Arrays
<1>2. TableInv /\ StillFirst /\ [Next]_vars => StillFirst'
  BY StillFirstStep
<1>3. StillFirst => PointerFresh
  BY DEF StillFirst, PointerFresh
<1> QED
  BY <1>1, <1>2, <1>3, TableCorrect, PTL DEF Spec

=============================================================================
