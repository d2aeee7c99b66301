------------------------------ MODULE FdTable ------------------------------
(***************************************************************************)
(* The table of open files of cfs.c: bb_open and bb_release fill and clear *)
(* its slots under cfs_state_t.lock, and every bb_read and bb_write looks  *)
(* its descriptor up WITHOUT the lock, slot by slot, and keeps a pointer   *)
(* into an array that a later open may move.  The memory that realloc      *)
(* leaves behind is freed: whoever reads there reads anything.             *)
(*                                                                         *)
(* A handle is an open file of the kernel: FUSE calls bb_open once for it, *)
(* then requests, and bb_release once when the last of them has returned.  *)
(* Descriptors are those of the process, given out lowest first as POSIX   *)
(* has it; getattr and mknod take some too.  The contents of the files are *)
(* left to module CfsFile.                                                 *)
(***************************************************************************)
EXTENDS Integers, FiniteSetsExt

CONSTANTS
  Handles,     \* open files of the kernel
  Threads,     \* FUSE worker threads that read and write
  InitialCap,  \* FDS_STORE_INITIAL, slots of the first table
  MaxFds,      \* the process's limit of descriptors
  Movable,     \* the arrays that realloc may move
  None         \* no handle, no descriptor, no slot

ASSUME CapAssumption == InitialCap \in Nat \ {0}
ASSUME FdsAssumption == MaxFds \in Nat
Fds == 0..(MaxFds - 1)
Arrays == {"files", "fds"}   \* of cfs_state_t
Free == -1   \* fds[i] of a slot that is not taken
Junk == -2   \* fds[i] of memory that realloc added, not yet initialised

ASSUME NoneAssumption == None \notin Handles
ASSUME MovableAssumption == Movable \subseteq Arrays

VARIABLES
  cap,     \* fds_cap
  fds,     \* fds[i], for the slots that are allocated
  files,   \* files[i]: the handle that files[i] describes, or None
  nFds,    \* n_fds
  moved,   \* moved[a]: how many times realloc has moved array a
  at,      \* at[a]: the place state->a points to, as moved[a] counts them
  mutex,   \* is cfs_state_t.lock held?
  hpc,     \* hpc[h]: where the open or the release of handle h is
  fh,      \* fh[h]: fi->fh, the descriptor of handle h, or None
  cursor,  \* cursor[h]: the slot its bb_open initialises next, or None
  open,    \* the descriptors that the process has open
  lent,    \* those of them which the call that opened them will close
  pc,      \* pc[t]: where thread t is
  req,     \* req[t]: the handle it reads or writes, or None
  slot,    \* slot[t]: the slot it looks at, or has a pointer to, or None
  ptr,     \* ptr[t]: the place of fds that it is to read, or 0
  seen,    \* seen[t]: the place of files that its pointer points into
  strayed  \* history: requests whose lookup has read what is not the table

tableVars == <<cap, fds, files, nFds, moved, at>>
handleVars == <<hpc, fh, cursor>>
threadVars == <<pc, req, slot, ptr, seen, strayed>>
vars == <<tableVars, mutex, handleVars, open, lent, threadVars>>

\* cfs_init.
Init ==
  /\ cap = InitialCap
  /\ fds = [i \in 0..(InitialCap - 1) |-> Free]
  /\ files = [i \in 0..(InitialCap - 1) |-> None]
  /\ nFds = 0
  /\ moved = [a \in Arrays |-> 0] /\ at = [a \in Arrays |-> 0]
  /\ mutex = FALSE
  /\ hpc = [h \in Handles |-> "closed"]
  /\ fh = [h \in Handles |-> None]
  /\ cursor = [h \in Handles |-> None]
  /\ open = {} /\ lent = {}
  /\ pc = [t \in Threads |-> "idle"]
  /\ req = [t \in Threads |-> None]
  /\ slot = [t \in Threads |-> None]
  /\ ptr = [t \in Threads |-> 0]
  /\ seen = [t \in Threads |-> 0]
  /\ strayed = {}

Unused == Fds \ open

\* open(2) returns the lowest descriptor that is not in use.
Lowest(fd) == fd \in Unused /\ \A other \in Unused : fd <= other

Goto(h, label) == hpc' = [hpc EXCEPT ![h] = label]

-----------------------------------------------------------------------------
(* bb_open.                                                                 *)

\* The file is opened.  (Where it is not, no handle comes to be.)
OpenFile(h) ==
  /\ hpc[h] = "closed"
  /\ \E fd \in Fds :
       /\ Lowest(fd)
       /\ fh' = [fh EXCEPT ![h] = fd]
       /\ open' = open \cup {fd}
  /\ Goto(h, "register")
  /\ UNCHANGED <<tableVars, mutex, cursor, lent, threadVars>>

\* cfs_register_file takes the lock; a table that is half full is to grow.
Lock(h) ==
  /\ hpc[h] = "register"
  /\ ~mutex
  /\ mutex' = TRUE
  /\ IF nFds >= cap \div 2
       THEN cap' = 2 * cap /\ Goto(h, "files")
       ELSE UNCHANGED cap /\ Goto(h, "claim")
  /\ UNCHANGED <<fds, files, nFds, moved, at, fh, cursor, open, lent,
                 threadVars>>

\* realloc leaves array a where it is, or moves it and frees the old one.
Realloc(a) ==
  \/ UNCHANGED moved
  \/ a \in Movable /\ moved' = [moved EXCEPT ![a] = @ + 1]

GrowFiles(h) ==
  /\ hpc[h] = "files"
  /\ files' = [i \in 0..(cap - 1) |->
                 IF i \in DOMAIN files THEN files[i] ELSE None]
  /\ Realloc("files")
  /\ Goto(h, "setfiles")
  /\ UNCHANGED <<cap, fds, nFds, at, mutex, fh, cursor, open, lent, threadVars>>

\* What realloc returned is assigned to state->files ...
SetFiles(h) ==
  /\ hpc[h] = "setfiles"
  /\ at' = [at EXCEPT !["files"] = moved["files"]]
  /\ Goto(h, "fds")
  /\ UNCHANGED <<cap, fds, files, nFds, moved, mutex, fh, cursor, open, lent,
                 threadVars>>

\* Mutant: the whole table is made anew.
GrowFdsAnew(h) ==
  /\ hpc[h] = "fds"
  /\ fds' = [i \in 0..(cap - 1) |-> Junk]
  /\ Realloc("fds")
  /\ Goto(h, "setfds")
  /\ UNCHANGED <<cap, files, nFds, at, mutex, fh, cursor, open, lent, threadVars>>

GrowFds(h) ==
  /\ hpc[h] = "fds"
  /\ fds' = [i \in 0..(cap - 1) |-> IF i \in DOMAIN fds THEN fds[i] ELSE Junk]
  /\ Realloc("fds")
  /\ Goto(h, "setfds")
  /\ UNCHANGED <<cap, files, nFds, at, mutex, fh, cursor, open, lent, threadVars>>

\* Mutant: the slots are initialised from one too low.
SetFdsTooLow(h) ==
  /\ hpc[h] = "setfds"
  /\ at' = [at EXCEPT !["fds"] = moved["fds"]]
  /\ cursor' = [cursor EXCEPT ![h] = cap \div 2 - 2]
  /\ Goto(h, "clear")
  /\ UNCHANGED <<cap, fds, files, nFds, moved, mutex, fh, open, lent, threadVars>>

\* ... and to state->fds.  The slots from the old upper bound on, the last old
\* one included, are to be initialised.
SetFds(h) ==
  /\ hpc[h] = "setfds"
  /\ at' = [at EXCEPT !["fds"] = moved["fds"]]
  /\ cursor' = [cursor EXCEPT ![h] = cap \div 2 - 1]
  /\ Goto(h, "clear")
  /\ UNCHANGED <<cap, fds, files, nFds, moved, mutex, fh, open, lent, threadVars>>

\* Mutant: one slot too many is initialised.
ClearSlotBeyond(h) ==
  /\ hpc[h] = "clear"
  /\ cursor[h] <= cap
  /\ fds' = [fds EXCEPT ![cursor[h]] = Free]
  /\ cursor' = [cursor EXCEPT ![h] = @ + 1]
  /\ UNCHANGED <<cap, files, nFds, moved, at, mutex, hpc, fh, open, lent,
                 threadVars>>

ClearSlot(h) ==
  /\ hpc[h] = "clear"
  /\ cursor[h] < cap
  /\ fds' = [fds EXCEPT ![cursor[h]] = Free]
  /\ cursor' = [cursor EXCEPT ![h] = @ + 1]
  /\ UNCHANGED <<cap, files, nFds, moved, at, mutex, hpc, fh, open, lent,
                 threadVars>>

Cleared(h) ==
  /\ hpc[h] = "clear"
  /\ cursor[h] = cap
  /\ cursor' = [cursor EXCEPT ![h] = None]
  /\ Goto(h, "claim")
  /\ UNCHANGED <<tableVars, mutex, fh, open, lent, threadVars>>

FirstFree(i) ==
  /\ i \in 0..(cap - 1)
  /\ fds[i] = Free
  /\ \A j \in 0..(i - 1) : fds[j] # Free

\* The first free slot is taken and the header read; whether that succeeds or
\* not, the slot stays taken and bb_open returns 0.
Claim(h) ==
  /\ hpc[h] = "claim"
  /\ \E i \in DOMAIN fds :
       /\ FirstFree(i)
       /\ fds' = [fds EXCEPT ![i] = fh[h]]
       /\ files' = [files EXCEPT ![i] = h]
  /\ nFds' = nFds + 1
  /\ mutex' = FALSE
  /\ Goto(h, "open")
  /\ UNCHANGED <<cap, moved, at, fh, cursor, open, lent, threadVars>>

-----------------------------------------------------------------------------
(* bb_release, once no request of the handle is under way.                  *)

Quiet(h) == \A t \in Threads : req[t] # h

FirstHolding(i, fd) ==
  /\ i \in 0..(cap - 1)
  /\ fds[i] = fd
  /\ \A j \in 0..(i - 1) : fds[j] # fd

\* Mutants: n_fds is not brought down; the slot is not cleared.
ReleaseUncounted(h) ==
  /\ hpc[h] = "open"
  /\ Quiet(h)
  /\ ~mutex
  /\ \E i \in DOMAIN fds :
       /\ FirstHolding(i, fh[h])
       /\ fds' = [fds EXCEPT ![i] = Free]
  /\ Goto(h, "close")
  /\ UNCHANGED <<cap, files, nFds, moved, at, mutex, fh, cursor, open, lent,
                 threadVars>>

ReleaseKeepsSlot(h) ==
  /\ hpc[h] = "open"
  /\ Quiet(h)
  /\ ~mutex
  /\ nFds' = nFds - 1
  /\ Goto(h, "close")
  /\ UNCHANGED <<cap, fds, files, moved, at, mutex, fh, cursor, open, lent,
                 threadVars>>

\* cfs_release_file clears the slot: its fds only.
ReleaseSlot(h) ==
  /\ hpc[h] = "open"
  /\ Quiet(h)
  /\ ~mutex
  /\ \E i \in DOMAIN fds :
       /\ FirstHolding(i, fh[h])
       /\ fds' = [fds EXCEPT ![i] = Free]
  /\ nFds' = nFds - 1
  /\ Goto(h, "close")
  /\ UNCHANGED <<cap, files, moved, at, mutex, fh, cursor, open, lent, threadVars>>

Close(h) ==
  /\ hpc[h] = "close"
  /\ open' = open \ {fh[h]}
  /\ fh' = [fh EXCEPT ![h] = None]
  /\ Goto(h, "closed")
  /\ UNCHANGED <<tableVars, mutex, cursor, lent, threadVars>>

-----------------------------------------------------------------------------
(* bb_read and bb_write: cfs_get_file, then any number of blocks.           *)

\* Without the lock.
Begin(t) ==
  /\ pc[t] = "idle"
  /\ \E h \in Handles :
       /\ hpc[h] = "open"
       /\ req' = [req EXCEPT ![t] = h]
  /\ pc' = [pc EXCEPT ![t] = "scan"]
  /\ slot' = [slot EXCEPT ![t] = 0]
  /\ UNCHANGED <<tableVars, mutex, handleVars, open, lent, ptr, seen, strayed>>

\* Below the size of the table state->fds is loaded ...
Load(t) ==
  /\ pc[t] = "scan"
  /\ slot[t] < cap
  /\ ptr' = [ptr EXCEPT ![t] = at["fds"]]
  /\ pc' = [pc EXCEPT ![t] = "read"]
  /\ UNCHANGED <<tableVars, mutex, handleVars, open, lent, req, slot, seen,
                 strayed>>

Return(t) ==
  /\ pc' = [pc EXCEPT ![t] = "idle"]
  /\ req' = [req EXCEPT ![t] = None]
  /\ slot' = [slot EXCEPT ![t] = None]
  /\ seen' = [seen EXCEPT ![t] = 0]
  /\ strayed' = strayed \ {t}

\* ... and beyond it NULL is returned: the request fails.
Missed(t) ==
  /\ pc[t] = "scan"
  /\ slot[t] >= cap
  /\ Return(t)
  /\ UNCHANGED <<tableVars, mutex, handleVars, open, lent, ptr>>

\* Is it the array of today that t reads, and a slot which that has?
Sound(t) == ptr[t] = moved["fds"] /\ slot[t] \in DOMAIN fds

\* Mutant: the search starts over when it comes to a slot that is free.
ReadAgain(t) ==
  /\ pc[t] = "read"
  /\ strayed' = IF Sound(t) THEN strayed ELSE strayed \cup {t}
  /\ \/ /\ Sound(t) => fds[slot[t]] = fh[req[t]]
        /\ pc' = [pc EXCEPT ![t] = "match"]
        /\ UNCHANGED slot
     \/ /\ Sound(t) => fds[slot[t]] # fh[req[t]]
        /\ pc' = [pc EXCEPT ![t] = "scan"]
        /\ slot' = [slot EXCEPT ![t] =
                      IF Sound(t) /\ fds[@] = Free THEN 0 ELSE @ + 1]
  /\ ptr' = [ptr EXCEPT ![t] = 0]
  /\ UNCHANGED <<tableVars, mutex, handleVars, open, lent, req, seen>>

\* fds[i] is read where it was loaded from: in freed memory, or beyond the array,
\* lies any descriptor.
Read(t) ==
  /\ pc[t] = "read"
  /\ strayed' = IF Sound(t) THEN strayed ELSE strayed \cup {t}
  /\ \/ /\ Sound(t) => fds[slot[t]] = fh[req[t]]
        /\ pc' = [pc EXCEPT ![t] = "match"]
        /\ UNCHANGED slot
     \/ /\ Sound(t) => fds[slot[t]] # fh[req[t]]
        /\ pc' = [pc EXCEPT ![t] = "scan"]
        /\ slot' = [slot EXCEPT ![t] = @ + 1]
  /\ ptr' = [ptr EXCEPT ![t] = 0]
  /\ UNCHANGED <<tableVars, mutex, handleVars, open, lent, req, seen>>

\* The address of files[i] is taken.
Point(t) ==
  /\ pc[t] = "match"
  /\ seen' = [seen EXCEPT ![t] = at["files"]]
  /\ pc' = [pc EXCEPT ![t] = "found"]
  /\ UNCHANGED <<tableVars, mutex, handleVars, open, lent, req, slot, ptr,
                 strayed>>

\* A block is read or registered through the pointer, under the lock ...
Use(t) ==
  /\ pc[t] = "found"
  /\ ~mutex
  /\ mutex' = TRUE
  /\ pc' = [pc EXCEPT ![t] = "use"]
  /\ UNCHANGED <<tableVars, handleVars, open, lent, req, slot, ptr, seen,
                 strayed>>

\* ... which is released between one block and the next.
Used(t) ==
  /\ pc[t] = "use"
  /\ mutex' = FALSE
  /\ pc' = [pc EXCEPT ![t] = "found"]
  /\ UNCHANGED <<tableVars, handleVars, open, lent, req, slot, ptr, seen,
                 strayed>>

Finish(t) ==
  /\ pc[t] = "found"
  /\ Return(t)
  /\ UNCHANGED <<tableVars, mutex, handleVars, open, lent, ptr>>

-----------------------------------------------------------------------------
(* Other calls that take descriptors.                                       *)

\* bb_getattr: cfs_file_stat opens the file, and nothing closes it.
Stat ==
  /\ \E fd \in Fds : Lowest(fd) /\ open' = open \cup {fd}
  /\ UNCHANGED <<tableVars, mutex, handleVars, lent, threadVars>>

\* bb_mknod opens a new file, or store_block or load_block a block file ...
Borrow ==
  /\ \E fd \in Fds :
       /\ Lowest(fd)
       /\ open' = open \cup {fd}
       /\ lent' = lent \cup {fd}
  /\ UNCHANGED <<tableVars, mutex, handleVars, threadVars>>

\* ... and closes it.
GiveBack ==
  /\ \E fd \in lent :
       /\ open' = open \ {fd}
       /\ lent' = lent \ {fd}
  /\ UNCHANGED <<tableVars, mutex, handleVars, threadVars>>

-----------------------------------------------------------------------------
OpenSteps(h) ==
  \/ OpenFile(h) \/ Lock(h) \/ GrowFiles(h) \/ SetFiles(h) \/ GrowFds(h)
  \/ SetFds(h) \/ ClearSlot(h) \/ Cleared(h) \/ Claim(h)

ReleaseSteps(h) == ReleaseSlot(h) \/ Close(h)

LookupSteps(t) == Load(t) \/ Missed(t) \/ Read(t) \/ Point(t)

RequestSteps(t) ==
  Begin(t) \/ LookupSteps(t) \/ Use(t) \/ Used(t) \/ Finish(t)

Next ==
  \/ \E h \in Handles : OpenSteps(h) \/ ReleaseSteps(h)
  \/ \E t \in Threads : RequestSteps(t)
  \/ Stat \/ Borrow \/ GiveBack

Spec == Init /\ [][Next]_vars

\* A thread that looks up is not blocked by anything, and the kernel runs it.
FairSpec == Spec /\ \A t \in Threads : WF_vars(LookupSteps(t))

-----------------------------------------------------------------------------
(* Properties.                                                              *)

TypeOK ==
  /\ cap \in Nat \ {0}
  /\ \E n \in {cap, cap \div 2} : fds \in [0..(n - 1) -> Fds \cup {Free, Junk}]
  /\ \E n \in {cap, cap \div 2} : files \in [0..(n - 1) -> Handles \cup {None}]
  /\ nFds \in Nat
  /\ moved \in [Arrays -> Nat] /\ at \in [Arrays -> Nat]
  /\ mutex \in BOOLEAN
  /\ hpc \in [Handles -> {"closed", "register", "files", "setfiles", "fds",
                          "setfds", "clear", "claim", "open", "close"}]
  /\ fh \in [Handles -> Fds \cup {None}]
  /\ cursor \in [Handles -> 0..cap \cup {None}]
  /\ open \subseteq Fds /\ lent \subseteq open
  /\ pc \in [Threads -> {"idle", "scan", "read", "match", "found", "use"}]
  /\ req \in [Threads -> Handles \cup {None}]
  /\ slot \in [Threads -> Nat \cup {None}]
  /\ ptr \in [Threads -> Nat] /\ seen \in [Threads -> Nat]
  /\ strayed \subseteq Threads

Taken == {i \in DOMAIN fds : fds[i] \in Fds}

\* The slots that are taken hold different descriptors, and n_fds counts them:
\* cfs_register_file grows the table by n_fds, and cfs_get_file takes the first
\* slot of its descriptor.
TableExact ==
  /\ nFds = Cardinality(Taken)
  /\ \A i, j \in Taken : fds[i] = fds[j] => i = j

\* A lookup never runs past the slot it is for, whatever is opened, released and
\* grown under it, as long as it reads the table: cfs_get_file then returns no
\* NULL for an open handle.  It can read anything else only after realloc has
\* moved fds; the size that is doubled before the arrays are misleads no lookup.
LookupSucceeds ==
  /\ \A t \in Threads \ strayed : pc[t] \in {"scan", "read"} =>
       \E i \in DOMAIN fds : i >= slot[t] /\ fds[i] = fh[req[t]]
  /\ moved["fds"] = 0 => strayed = {}

\* The slot that such a lookup finds is the one of its own handle, and stays that
\* until the request returns, though descriptors and slots are used again and
\* again.  (Whether the pointer to it does is what PointerFresh asks.)
RightFile ==
  \A t \in Threads \ strayed : pc[t] \in {"match", "found", "use"} =>
    /\ slot[t] \in DOMAIN fds
    /\ fds[slot[t]] = fh[req[t]]
    /\ files[slot[t]] = req[t]

\* A slot that is taken changes only when its own handle is released: no open
\* takes it again, and growing the table, which initialises the last old slot
\* again, does not wipe it.
SlotsKept ==
  [][\A i \in Taken :
       \/ i \in Taken' /\ fds'[i] = fds[i] /\ files'[i] = files[i]
       \/ \E h \in Handles :
            hpc[h] = "open" /\ hpc'[h] = "close" /\ fds[i] = fh[h]]_vars

\* The critical section uses a pointer into the array of today.
PointerFresh == \A t \in Threads : pc[t] = "use" => seen[t] = moved["files"]

\* A lookup ends, though it takes no lock, the table may be opened into, grown
\* and released from all the time, and freed memory tell it anything.
LookupEnds ==
  \A t \in Threads : pc[t] = "scan" ~> pc[t] \in {"found", "idle"}

=============================================================================
