# A verification of fusefs-block

fusefs-block is a deduplicating file system for FUSE: `bbfs.c` (the tutorial
file system bbfs) passes most calls on to a directory, and sends the data of
regular files to `cfs.c`, which keeps for every file a list of blocks, and to
`storage.c`, which keeps every distinct block once, in a file of `.BLOCKS` named
after the block's SHA-1.

## 1. The system

| part | code | state | operations |
|---|---|---|---|
| file layer | `cfs.c` 239-365 | a CFS file on disk: magic, `size`, `total_blocks`, pairs (index, hash); a handle's `cfs_file_t`, its copy of `size` and `total_blocks` | `cfs_file_find_index`, `cfs_file_register_block`, `cfs_file_read_block` |
| table of open files | `cfs.c` 35-236, `cfs.h` | `fds`, `files`, `fds_cap`, `n_fds`, the mutex `lock` | `cfs_init`, `cfs_register_file`, `cfs_release_file`, `cfs_get_file`, `cfs_file_stat`, `cfs_create_file` |
| block store | `storage.c` | one file per block: an 8-byte reference counter, then the data | `store_block`, `load_block`, `block_get_size`; `block_inc_ref`, `block_dec_ref`, `block_get_refs`, `block_exists` have no callers |
| transfers | `bbfs.c` 344-462 | none between calls: offset, buffer index, block buffer | `bb_read`, `bb_write` |
| handlers of open files | `bbfs.c` 74-94, 301-326, 512-569, 879-928 | `fi->fh` | `bb_open`, `bb_release`, `bb_getattr`, `bb_ftruncate`, `bb_flush`, `bb_fsync`, `bb_fgetattr` |
| handlers of names | `bbfs.c` 133-276 | the directory beneath | `bb_mknod`, `bb_mkdir`, `bb_unlink`, `bb_rmdir`, `bb_symlink`, `bb_rename`, `bb_link`, `bb_chmod`, `bb_truncate` |
| handlers that only pass on | the rest of `bbfs.c` | the kernel's | `bb_readlink`, `bb_chown`, `bb_utime`, `bb_statfs`, `bb_access`, extended attributes, `bb_opendir`, `bb_readdir`, ... |
| start and end | `bbfs.c` 979-1037 | the table, empty | `main`, `bb_init`, `bb_destroy` |
| system calls with retry | `io.c` | none | `s_read`, `s_write`, `s_lseek`, `file_exists` |
| names | `util.c` | none | `hexify`, `combine`, `calculate_hash` |
| log | `log.c`, `fakelog.c` | the log file | `log_msg`, `log_syscall`, `log_error` |
| inspection tool | `cfscat.c` | none | prints the pairs of a file |

How they interact. FUSE calls the handlers of `bbfs.c` from several threads.
`bb_open` puts a descriptor into the table of open files; `bb_read` and
`bb_write` look it up, without the lock, and then call the file layer once or
twice for each block. The file layer takes `cfs_state_t.lock`, which is one for
all files, and calls the block store inside it. The store takes record locks
(`fcntl`) on the block files besides. Nothing is cached across calls except the
copy of `size` and `total_blocks` in each slot of the table. There are no
callbacks and no messages.

What is hard about it:

- *concurrency*: an error path that unlocks twice; a lookup that takes no lock
  against a table that grows; a pointer into an array that moves; a write to
  part of a block in two critical sections; a reference counter that is read
  and written in two system calls;
- *names*: files that are renamed, unlinked and cut while they are open, and
  slots and inodes that pass from one file to the next;
- *failure*: block files that are there and not complete, pairs that are cut in
  two, results that nobody looks at, a process that is killed between two
  writes;
- *stale state*: several handles on one file, each with its own header;
- *arithmetic*: offsets that advance by the wrong amount, a seek whose argument
  changes its type, a table that initialises one slot too many of the old ones;
- *ordering*: the block before the pair, the index before the hash, the slot
  before the descriptor.

`PROJECT.json` lists these at their lines as hazards, with the properties that
are about them.

What makes each part correct:

- file layer: requests exclude each other and are answered; a pair names a block
  file that is there and whole; pairs do not change; the header does not promise
  more pairs than there are; together, a map from indexes to blocks;
- table of open files: a handle that is open is found, and what is found is its
  own; slots and descriptors correspond, and `n_fds` counts them;
- block store: a counter loses no change, a block somebody refers to stays, a
  load gets a whole block or none;
- handlers of names: a file keeps its format and its blocks whatever happens to
  its names, a read finds nothing that was written to another file or at another
  index, and `bb_getattr` tells what was written;
- transfers: bytes go to the offset they are for, loops end, and a read returns
  what was there.

## 2. The modules

| module | models | extends |
|---|---|---|
| `WriteOnceFile` | what the file layer promises: a map in which the first block written at an index stays | |
| `CfsFile` | the file layer over the block store | |
| `MCCfsFile` | values for TLC | `CfsFile` |
| `CfsFileProofs` | theorems about `CfsFile` | `CfsFile`, `TLAPS` |
| `CfsFileRefinement` | theorems about `CfsFile` while nothing has failed, and that it implements `WriteOnceFile` | `CfsFileProofs` |
| `FdTable` | the table of open files | |
| `FdTableProofs` | theorems about `FdTable` | `FdTable`, `FiniteSetTheorems`, `TLAPS` |
| `BlockStore` | the block store with record locks, inodes and reference counters | |
| `MCBlockStore` | values for TLC | `BlockStore` |
| `BlockStoreProofs` | theorems about `BlockStore` | `BlockStore`, `FiniteSetTheorems`, `TLAPS` |
| `Namespace` | the handlers of names and of open files, and `cfscat`, over the bytes of CFS files | |
| `MCNamespace` | values for TLC | `Namespace` |
| `NamespaceProofs` | theorems about `Namespace` | `Namespace`, `FiniteSetTheorems`, `SequenceTheorems`, `WellFoundedInduction`, `TLAPS` |
| `Transfer` | the loops of `bb_read` and `bb_write` over what `WriteOnceFile` promises | |
| `TransferProofs` | theorems about `Transfer` | `Transfer`, `TLAPS` |

### CfsFile

`meta[f]` is the CFS file on disk, `blocks[b]` the length of the block file of
`b`, `cache[h]` the slot of a handle, `mutex` the lock, `pc[t]` the place of a
thread and `req[t]` its request. A hash is the block it is the hash of. A pair
that is not an index with a hash holds one of three marks: `"torn"` where the
file ends after the index, `"zero"` for the gap that a far seek leaves, `"bad"`
for bytes that are no block's hash.

| action | code |
|---|---|
| `Open`, `Release` | `cfs_register_file`, `cfs_release_file`, as far as the header's copy goes |
| `Call` | `bb_read` or `bb_write` calls the file layer |
| `Acquire` | `pthread_mutex_lock` |
| `StoreBlock`, `WriteRefs`, `WriteData`, `StoreFails` | `store_block` |
| `Unlock`, `UnlockAgain` | `cfs.c:292` and `cfs.c:294` |
| `Replace` | `cfs.c:302-308` and 319 |
| `AppendIndex`, `AppendHash`, `IndexFails`, `HashFails` | `cfs.c:311-315` |
| `WriteSize`, `WriteTotal` | `cfs.c:320-326` |
| `Found`, in `Replace`, `AppendIndex`, `ReadHole`, `Load` | `cfs_file_find_index`, one of whose reads may fail |
| `ReadHole`, `Load`, `LoadFails` | `cfs_file_read_block` with `load_block` |
| `Crash` | the process is killed and mounted again; what is written stays |

Four points need saying. (a) A second `pthread_mutex_unlock` is undefined, and a
default mutex of the C library is released whoever holds it: `UnlockAgain`
leaves the mutex as it is or free. What two threads in the critical section do
to one table and one descriptor is not defined either, and the model stops them
there (`Overlap`). (b) `io.h` declares the offset of `s_lseek` as `int` and
`io.c` defines it as `off_t`, so `s_lseek(fd, -HASH_LENGTH, SEEK_CUR)` lands 20
bytes back or, as x86-64 has it, 4 GB ahead: `Landings`. The first far rewrite of a file, of
its pair k, leaves a gap, and the file then ends 2^32 bytes after pair k (`base`); what
is appended follows there, and the same rewrite of pair k + d is over the hash of the
d-th pair behind the gap (`FarFiles`). (c) `cfs.c:355`
passes four arguments to `load_block`, which has five: the commit does not
compile as it stands, and the call is modelled as it is meant, the counter going
to a place of its own. (d) `s_read` returns -1 on an error, and `find_index` knows
only 0: it compares what `index_buff` held before and skips 20 bytes from where
it is. From then on it reads out of step, no hash looks like an index, and the
search ends at the end of the file with nothing found. When the first read
fails, `index_buff` is not initialised and may hold the very index, from the
search before: the first 20 bytes of the body, an index and a part of a hash, are
then taken for the hash (`Astray`).

### FdTable

Variables are named after the code: `cap`, `fds`, `files`, `nFds`. `hpc[h]` is
the place of the `bb_open` or `bb_release` of handle `h`, `pc[t]` that of a
request. `open` is the set of the process's descriptors, of which `open(2)` gives
out the lowest one that is free: numbers come back at once, and that is what
makes the order in `bb_release` matter. `cfs_register_file` is `Lock` (with the
doubling of `fds_cap`, which comes before the arrays grow), `GrowFiles`, `SetFiles`,
`GrowFds`, `SetFds` (a `realloc`, which frees what it moves, and the assignment of
its result are two steps), one `ClearSlot` for each round of its loop, `Cleared`,
`Claim`. A lookup is `Begin` and then, between any of these, for each slot `Load`
(of `state->fds`) and `Read` (of `fds[i]`, at the place that was loaded), until
`Point` takes the address of `files[i]` or `Missed` returns NULL. `moved[a]` counts
how often `realloc` moved array `a`, `at[a]` is the place that `state->a` holds, by
that count, and `seen[t]` the one that a pointer points into. A `Read` at a place that
is freed, or beyond the array, finds anything; `strayed` is a history variable, the
requests whose lookup did that. `Movable` says which of the two arrays `realloc`
may move.

### BlockStore

`named` is the directory `.BLOCKS`, `inodes` the files, whether they have a name
or not, `locks` the record locks with their owners. All locks begin at byte 0, so
that any two on one inode overlap. `Exists`, `Open` and `Lock` are the beginnings
of the calls; `WriteRefs` and `WriteData` are `store_block`, `Read` is
`load_block` and `block_get_size`, `ReadCount`, `IncRef` and `DecRef` are the
two calls on the counter, `GetRefs` is `block_get_refs`, which ends with the lock
taken. Every call may fail, and closes
its descriptor then, with one exception: where the unlocking at the end of
`block_dec_ref` fails, it returns with the descriptor open and the lock taken
(`storage.c:116-120`), which is `Leak`; the lock goes to the owner `Leaked`.
`held` is a history variable: the references that the callers have. It
says who may call what (`Legal`): `block_inc_ref` and `block_dec_ref` need a
reference. `owed` is another: what the calls that wrote a counter made of it.
A hash is a sequence of bytes here because a name is not all of it: `hexify` with
a buffer of two digits per byte stops before the last one. Hashes that agree in
all but the last byte, of which SHA-1 is not expected to give two, are not among
the values of the run. `Serial` says that `store_block`, `load_block` and
`block_get_size` are called under `cfs_state_t.lock`, as `cfs.c` does.

### Transfer

One open file, its content being what `WriteOnceFile` keeps. A byte is `Zero`,
`Garbage` (what the kernel's buffer holds) or what a write means for an offset.
`WriteRead` and `WriteRegister` are the two calls of the file layer in a round of
`bb_write`'s loop, `ReadChunk` is a round of `bb_read`'s; `Right`, `NewBlock`,
`CopyBlock`, `FillHole` have the code's index arithmetic.

### Namespace

Here a file is its bytes: magic, `size`, `total_blocks` and pairs, as `cfs.h` lays
them out, in `inode[i].bytes`. `dir` is one directory, `slots[s]` a slot of the
table of open files with its copy of `size` and `total_blocks`, which no release
clears. A step is one handler; the functions of `cfs.c` are operators from bytes
to bytes (`FindIndex`, `Registered`, `ReadBlock`, `SlotOf`) over what `s_read` and
`s_write` do at a position (`Get`, `Put`). An `off_t` has eight bytes, three of which
hold a number and the others its sign; a number that needs more does not arise
(`WritesAssumption`). Block `b` has `b` bytes, and its hash is
20 bytes no two of which are alike. A rewrite lands where `CfsFile` has it land
(`Landings`), with a `Wrap` of a few pairs and 4 bytes in the place of 2^32, which is
as much out of step with the pairs (4 bytes of 28). A cut may go through a hash: what is then
missing of it is what the stack holds, so `ReadBlock` is the set of what a read may
answer, an error or any block (`HashIsCut`). `log[i]` is a history variable, the blocks
registered in the file that has inode `i`. `moved` is another, the files in which a
rewrite put a hash elsewhere than it was, and `damaged` has these and the files that were cut
or not created whole.

| action | code |
|---|---|
| `Mknod` | `bb_mknod`, `cfs_create_file`, with a disk that becomes full within the header |
| `Mkdir`, `Symlink`, `LinkName`, `Unlink`, `Rmdir`, `Rename`, `Chmod` | the handler of that name |
| `Truncate`, `Ftruncate` | `bb_truncate`, `bb_ftruncate` |
| `Open`, `Release` | `bb_open` with `cfs_register_file`, `bb_release` with `cfs_release_file` |
| `Write` | one round of `bb_write` with `cfs_file_register_block` |
| `Remount` | the process ends or is killed, and `main` starts another |

A read and `bb_getattr` change nothing: they are the operators `ReadBlock` and
`Getattr`, and the properties apply them in every state. A file is open through
one handle at a time (`CfsFile` has several), and requests do not overlap.

How the modules fit together: `Transfer` takes the file layer as
`WriteOnceFile`, and the run `file_exclusive` shows that `CfsFile` implements
that; `CfsFile` takes slots as given, of which `FdTable` shows that a handle
finds its own and `Namespace` that it has the numbers of its own file; `CfsFile`
takes files as made and never removed, of which `Namespace` shows that names
make no difference; and `CfsFile` takes the store's calls as undisturbed, which under
the lock they are, and `BlockStore` shows what still holds beside callers that
take no lock.

## 3. The runs

Runs that pass:

| run | bounds | shows |
|---|---|---|
| `file_exclusive` | 2 threads, 2 files, 2 handles, 2 indexes, 2 blocks, 3 requests, no faults, one handle per file | `ImplementsWriteOnce`: the file layer is the map of `WriteOnceFile`; `HeaderExact`, `UniqueIndex`, `StoredMeansReadable`, `TypeOK` |
| `file_crash` | 2 threads, 2 handles on one file, 3 indexes, 2 blocks, both landings of the seek, 4 requests, one failing store or load, one crash | `NamedBlocksExist`, `HeaderNeverOvercounts`, `WholeBlocksStay`, `LockHasHolder` always; `NamedBlocksWhole`, `PairsKept` until something fails |
| `file_live` | 2 threads, one failing append, load or read of an index, one crash, 3 requests | `MutualExclusion` while stores do not fail; `LockReleased`, `Answered` |
| `fd_table` | 3 handles, 1 reader, 3 descriptors, a first table of 2 slots, `fds` stays or moves | `TableExact`, `LookupSucceeds`, `RightFile`, `SlotsKept`, `LookupEnds`, `TypeOK` |
| `block_store` | 3 threads, 2 blocks of 2 bytes, 5 calls, one fault, which may be that of an unlocking | `NoCountLost`, `HeldBlocksStay`, `LoadsWhole`, `LocksExact`, `CallsEnd`, `TypeOK` |
| `names` | 2 names, 2 inodes, 2 slots, 2 indexes, 2 blocks, 2 writes, both landings, one file cut (within a hash, too), stretched or not created whole | `FileFormat`, `NoWrongBlock`, `OpenFinds`, `SlotIsOwn`, `AttrExact`, `TypeOK` |
| `transfer` | 2 threads, 2 blocks of 2 bytes, 2 writes, any number of reads, one fault | `BytesInPlace`, `LoopExact`, `ReadSeesStart`, `ReadLeavesEnds`, `RequestEnds`, `TypeOK` |

Runs that find a violation, each of one property that the repository states:

| run | property | what happens |
|---|---|---|
| `bad_unlock` | `MutualExclusion` | after a failing store, the second unlock frees the lock that another thread has taken |
| `bad_replace` | `StoredMeansWritten` | a second write of an index is answered as stored, and the first block stays |
| `bad_pointer` | `PointerFresh` | a read has found its slot and taken the address of `files[i]`; an open grows the table and moves the array; the read goes on through the pointer |
| `bad_read` | `ReadFills` | a block is short and another one follows it: of the reply, before the end of the file, a part is what the buffer held |
| `bad_truncate` | `WrittenIsFound` | a file is truncated to 0, opened and written: the block is not found |

Why the bounds are enough. The lock, the table and the pairs treat all threads,
handles, files and blocks alike, and what goes wrong goes wrong between two of
them; a third handle is there in `fd_table` so that the table, which starts at 2
slots, has to grow twice while one handle stays, and 3 descriptors, which `bb_getattr` and
block files take besides, make numbers come back and run out. There only `fds`
may move, as that is the array a lookup reads; that `files` may is
what `bad_pointer` has, with 4 descriptors. Requests are bounded by 3 or 4: one to make a pair, one to meet it,
one or two to find what the second did; the search depends on the first match
only. `file_crash` needs the fourth, and a third index, for a far rewrite of one pair, an append
behind the gap, and a far rewrite over that: `PairsKept` without its condition that
a search comes to the pair is violated by it. Two bytes per block give a block a start, an end, and a part that is
missing. In `names`
two names and two inodes are enough to rename one file over another, to unlink
an open file and make another, and to use an inode again; the lengths of a cut are
45, which leaves an index and 14 bytes of its hash, and 51, which takes a pair away, keeps
one or adds 28 zeroes, and a header ends within or after its two numbers (a cut to
nothing is in `bad_truncate`); two writes make two pairs, meet one, or go to two
files, and a second write of an index is what lands far. `MaxDamaged` keeps one
file whole beside the one that is cut. In
`block_store` five calls are a store, an increment, two decrements
and a load, at once in three threads. `file_crash` uses the symmetry of threads,
of handles, and of blocks, which are there of one size; no property of that run tells them apart. Deadlock is not
checked in `file_crash` (a failed store stops overlapping threads), in
`fd_table` (with all descriptors lent or leaked there may be nothing left to do)
and in `block_store` (a lock that `block_get_refs` left, or a `block_dec_ref` that could
not unlock, may be waited for for ever); the violating runs `bad_unlock` and `bad_pointer` do the
same.

Fairness. `FairSpec` of `CfsFile` and of `BlockStore` has weak fairness of each
thread's own steps: a thread that can run does. A `pthread` mutex and a record
lock promise no order among those who wait, and strong fairness is not assumed:
the bound on the requests stands for a load that pauses. Failing calls are never
what fairness makes happen: in `BlockStore` they are outside of it, in `CfsFile`
the step that succeeds is enabled with them. In `FdTable` the steps of a lookup are
fair (`Load`, `Read`, `Point`, `Missed`), which nothing blocks. In `Transfer` the steps of a request are fair, and the
arrival of requests is not.

Divergences that are not runs, with the constants that show them:

- `total_blocks` in the header is not the number of pairs ("X total_blocks times",
  `cfs.c:9`): with `Shared = TRUE`, `HeaderExact` fails in `CfsFile`, as the older of
  two handles on one file writes its count over the newer one's (`cfs.c:322`).
- A block is not always saved "if it doesn't already exist" (`cfs.c:277`): with
  `MaxCrashes = 1`, `StoredMeansReadable` fails in `CfsFile`, as a block file that a
  crash left short is taken for the block by every later store (`storage.c:257`).
- `size` in the header is not the number of bytes in the blocks: `cfs.c:304`
  takes the length of the block file, the 8 bytes of the counter included, for
  the old block's, and 319 subtracts it. Every second write of an index makes the
  file 8 bytes shorter, besides what the blocks differ. `Replace` of `CfsFile` and `Registered` of
  `Namespace` have the arithmetic; `AttrExact` of `Namespace` does not hold without
  its condition that no index was written twice.
- A full disk at `cfs_create_file` leaves a file without a whole header, and
  `bb_mknod` returns 0 (`cfs.c:207-210`): with `Created = {7}`, `WrittenIsFound` fails
  in `Namespace` as it does after a cut.
- With `Landings = {"far"}`, as on x86-64, `StoredMeansReadable` fails in `CfsFile`: the
  gap reads as a pair of index 0, and what is appended behind it may be written
  over by the rewrite of an earlier pair. `PairsKept` is about the pairs that a search
  comes to, for that reason. In `Namespace` such a file is one of `moved`, and
  `FileFormat`, `OpenFinds`, `SlotIsOwn` and `AttrExact` are not about it: a second write of an
  index makes the file 4 GB long, an index that was not written reads as an error, and one
  behind the gap is appended again.
- The comment of `bbfs.c:439` ("We are in the middle of a block, try to read the old one
  first") means a block to have the bytes of several writes, and `bb_write` does put
  them together; but `cfs_file_register_block` then keeps the block that is there
  (`bad_replace`), so that the second write to a part of a block is lost.
- A `block_dec_ref` that cannot unlock returns without closing (`storage.c:116-120`): its
  lock stays, and `CallsEnd` is about the calls that do not meet it.
- With `MaxCrashes = 1`, complete pairs change (`PairsKept` without its
  condition): the pair that a crash has torn is written over at the next write of
  its index, and takes the end of the pair before with it.
- With `Spanning = TRUE`, `LoopExact` fails in `Transfer`: `bbfs.c:455` advances
  by the size of the block from its start (`simple.py` and `multi.py` write such
  requests, which reach `bb_write` in one piece only with `-o big_writes` or
  `direct_io`).
- With `Serial = FALSE`, as for two mounts of one root, `HeldBlocksStay` fails in
  `BlockStore`: two stores of a new block both write a counter of 1.
- `Stat` of `FdTable`: `cfs_file_stat` never closes its descriptor, against the
  "all file descriptors are closed" of `multi.py:48`.

## 4. What is proved

Every theorem is one for all values of the constants under the assumptions that
the modules name: any sets of threads, handles, files, indexes and blocks, any
bounds. Induction is over steps; each module has one lemma per action, or per
kind of action, and strengthens its invariant until the steps preserve it.

`CfsFile`, in `CfsFileProofs`:

- `TypeCorrect`: `TypeOK` is inductive. It has the one fact all the others need:
  the handle of a request under way is open.
- `MutualExclusionHolds`, from `"store" \notin Faults`, by `LockInv`: a thread in
  the critical section implies that the lock is held, two such threads are one,
  and none is on the error path. Without the assumption it is false
  (`bad_unlock`).
- `LockHasHolderHolds`, with any faults and crashes: while the lock is taken, the thread
  that took it is in one of the two critical sections. It is the safety half of
  `LockReleased`, and inductive beside `TypeOK`: the second unlock of the error
  path may free another thread's lock, and never takes one.
- `NamedBlocksExistHolds`, with any faults and crashes, by `NamedInv`: besides the
  names in pairs, the block of a thread past `StoreBlock` has a file. That is why
  the order of the block and the pair matters.
- `HeaderNeverOvercountsHolds`, from `"append" \notin Faults`, by `CountInv`: not
  only the header but every handle's copy counts no more pairs than there are,
  and one fewer between the index and the hash of a new pair.
- `WholeBlocksStayHolds`, by `PartialInv`: a thread that writes a block file finds
  it as short as it left it, so no block that is whole is being written.

`CfsFile`, in `CfsFileRefinement`. The first two are about states before which
nothing has failed and the process has not died (`Fresh`), and say so themselves;
faults and crashes may be among the constants, and handles may share files:

- `NamedBlocksWholeHolds`, by `WholeInv`: a block file that is short is being
  written, by the one thread in the critical section, and the threads past
  `store_block` and the pairs name whole ones. `LockInv` is part of it, and until
  something fails no thread is on the error path, so that no assumption about
  `Faults` is needed.
- `PairsKeptHolds`, by `TornInv`: an index at the end of a file without its hash is
  that of the thread which is about to write the hash. So `Replace`, which
  writes over the end of the pair before when the hash is not all there, meets
  complete pairs only; and where the rewrite lands far, it is behind the gap, and the
  pairs before it, and the gap, are what a search comes to. Pairs behind the gap
  are not kept, and the theorem does not say so.

The others assume `Calm`: one handle per file at a time, no failure, no crash, and
a seek that lands 20 bytes back. All of these are needed: the divergences at the
end of section 3 name the constant that breaks each. They follow from `CalmInv`, which
adds `PairsInv` to the invariants above: two open handles are those of two files,
the header and the copies count the complete pairs, an index has one pair, and the
block of a complete pair is whole.

- `HeaderExactHolds`, `UniqueIndexHolds`, `StoredMeansReadableHolds`.
- `ImplementsWriteOnceHolds`: `Spec` implies the specification of `WriteOnceFile`
  under the mapping by which a pair holds its block as soon as its hash is there.
  `Call` is `Begin`, `AppendHash` is `Write`, `WriteTotal` is `Finish`, `ReadHole`
  and `Load` are `Read`, and every other step is a stutter. That a read
  answers with what the map holds rests on `PairsInv` (the first pair the search
  meets is the only one, and complete) and on `WholeInv` (its block is all there).
- `StoredIsWritten`, from `NoOverwrite` too (no write under way finds another block at
  its index), by `WrittenInv`: what is answered as stored has its block at its
  index. It is what `bad_replace` finds violated, without the one cause.

`FdTable`, in `FdTableProofs`:

- `TableCorrect`: `TableInv` is inductive. Its parts say who holds the lock
  (`LockInv`), whose the descriptors are (`FdsInv`), how much of the table is there
  while it grows (`ShapeInv`), that taken slots and open handles correspond
  (`SlotInv`), that taken slots lie in the first half (`RoomInv`) and that a slot
  lies ahead of its lookup, unless that has strayed (`RequestInv`). `RoomInv` is the heart: the code
  initialises the last old slot again, and only because the table grows when half
  of it is taken, and the first free slot is the one to be taken, is nothing
  there.
- `TableTypeCorrect`, `TableExactHolds`, `LookupSucceedsHolds`, `RightFileHolds`,
  `SlotsKeptHolds` follow from it, for any first size, any limit of descriptors,
  any number of handles and threads, and whichever arrays may move. The second and the third are about
  lookups that have read nothing but the table: one that has loaded `state->fds`, and reads
  after `realloc` has freed that, may be told anything. `LookupSucceeds` says too
  when there are no others: before `fds` has moved (`StrayInv`; slots that `fds_cap`
  counts and the array does not have yet are never read, since the slot of an open handle
  lies before them). That the slot is right does not make the pointer to it
  right, which is the next theorem.
- `FewFilesStayFresh`, from `FewFiles` (the process can have no more files open at a time
  than half of `FDS_STORE_INITIAL`, which is 10), by `StillFirst`: the table never
  grows, so no pointer that a request took goes stale (`PointerFresh`). Nothing is assumed
  about where `realloc` puts the arrays.

`BlockStore`, in `BlockStoreProofs`:

- `NoneLost`, by `CountInv`, with any failures and without `Serial`. `LockInv` has
  the reason: a thread inside a call holds a lock on the inode that its descriptor
  is of, and two locks on one inode by two owners are both shared. So the
  counter that `block_inc_ref` has read is the one it writes over. The locks that
  `block_get_refs` and a failing `block_dec_ref` leave do no harm, since they take nothing
  away from others.
- `TypesOK`, from `CountInv` too: that no counter gets below 0 needs that no
  change is lost.
- `LocksAreExact`, with any failures and without `Serial`, by `OwnersInv`: the locks of
  the threads are those of the calls between their `fcntl` and their `close`, on the
  inodes they opened. A thread that holds one waits for nobody, so that only a lock
  without a call can be waited for for ever: one of `block_get_refs`, or that of a
  `block_dec_ref` which could not unlock, and the latter only after a failure. It is
  the safety half of `CallsEnd`.
- `LoadsAreWhole`, from `NamesDiffer` (no two hashes in use share a name, which
  `hexify` does not guarantee), by `LengthInv`: until a call has failed, an inode
  with a name is short only while the thread that made it is writing it. It
  does not need `Serial`: the write lock of `store_block` keeps a load away.
- `HeldStay`, from `NamesDiffer` and `Serial`, by `HeldInv`: the counter of a named
  block covers the references in `held` and those that a `block_dec_ref` under
  way is about to give up (`Owing`), a block somebody refers to has a name, who
  drops a reference had one, and a store that is about to write a first counter is
  alone. Without `Serial` it is false.

`Transfer`, in `TransferProofs`:

- `TypesOK`, by `TypeInv`: besides the types, a request that is under way is between
  its start and its end, and a write between its two calls holds a block no longer
  than `BLOCK_SIZE` (`Place`).
- `LoopsAreExact`, from `~Spanning`, by `StepInv`: offset and buffer index advance
  together, and after the first round of a read the offset is the start of a block
  or the end of the request.
- `BytesAreInPlace`, from `~Spanning`: a block's byte is zero or that of its own
  offset, and so is a buffer's, up to where the loop has come.
- `ReadsSeeStart`, by `SeenInv`: while no call has failed, a block that was there when
  the read began is there unchanged, and the part of the buffer that the loop
  has passed has its bytes.
- `ReadsLeaveEnds`, by `FilledInv`: while no call has failed, what a read has passed and
  left in the buffer as it was is past the end of a block that is there and is
  short. It needs that no block has garbage in it and that a block stays as long as
  it is.
- `OnlyShortLeaves`: in every state where only the last block of the file is short, a
  read that has ended has filled its reply up to where the file ended when it began
  (`ReadFills`).

`Namespace`, in `NamespaceProofs`, for any number of cuts, wherever rewrites land and
whatever the memory of a new table holds:

- `InvHolds`: `IInv` is inductive. Its parts are the shape of the state (`TypeInv`),
  that a free inode has no history (`FreeInv`), that a file which is not damaged is, byte for byte,
  what its history makes of it (`ExactInv`: the magic, `total_blocks`, one pair for
  each index with the hash of the first block, and, as long as no index was written
  twice, `size` as the bytes of the blocks), that a file is open in one slot (`OneSlot`)
  and that the slot has the numbers of the file's header (`HeaderInv`). `HeaderInv` is needed for `ExactInv`, as a write puts the slot's numbers
  into the file. `ExactInv` also bounds `size` by 13 for each write, which takes off
  at most a counter of 8 bytes and a block of 5, so that an `off_t` holds it.
- `TypesOK`, `SlotsAreOwn`, `FormatHolds`, `OpenFindsHolds`, `AttrsAreExact` follow from
  it, all of the files that are not damaged: neither cut nor stretched, created whole, and with
  no hash written again elsewhere than it was. Other files may be.
- `UncutWrittenIsFoundHolds`: what `WrittenIsFound` says, of a write to a file that was not damaged
  before it, and wherever that write puts its hash; and `WrittenIsFoundHolds`,
  from `MaxDamaged = 0` and `"far" \notin Landings`. The run `bad_truncate` shows that
  a cut breaks it.
- `NoBlockIsWrong`, of all files in which no hash was written elsewhere than it was (not in
  `moved`), cut at any of the lengths below, by `OwnInv`: at every place where the search
  may look, in step with the pairs or not, an index with the hash of a block behind it is
  one at which that block was written to this file. Where the hash is not all there,
  the read may answer with any block, and the theorem leaves that out (`HashIsCut`), as
  `NoWrongBlock` does. It assumes that the low byte of an index is in no
  hash, or else the start of a pair that is appended to a cut file could be what is
  missing of a hash. The hashes and indexes of the run are like that. With real
  hashes, of which one in thirteen has a zero byte somewhere, it is not certain, and
  what the theorem leaves open then takes as well that the other bytes agree. Of the files in
  `moved`, `NoWrongBlock` is model-checked only.

The assumptions are `LengthsAssumption` (no cut within a number of the header or within
an index), `CreatedAssumption` (a full disk ends a header between two of its fields),
`LandingsAssumption` and `WrapAssumption` (see section 2), `BytesAssumption` (indexes in three bytes,
blocks of 1 to 5 bytes), `LeftoversAssumption` and `InodesAssumption` (numbers) and
`WritesAssumption` (not so many writes that `size` could leave three bytes). The three
bytes are the model's: its `off_t` has these and the sign, and no more is needed
where no number gets out of them.

What the constants are assumed to be is in the modules: `BlockSize` and the other
sizes are positive, threads are not each other's marks, the bounds are naturals.
TLC evaluates these in every run.

Only model-checked:

- liveness (`LockReleased`, `Answered`, `LookupEnds`, `CallsEnd`, `RequestEnds`), since
  the prover does not reason about fairness and `ENABLED`;
- `NoWrongBlock` of files in which a rewrite landed far, and the pairs that `CfsFile` keeps or
  loses behind a gap;
- the violations of the five runs: what these check is false as the repository states
  it. Each is proved where its cause is left out: `MutualExclusionHolds` (no
  `store_block` fails), `StoredIsWritten` (no write finds another block),
  `FewFilesStayFresh` (the table does not grow), `OnlyShortLeaves` (no block but the
  last is short) and `WrittenIsFoundHolds` (nothing is cut, and rewrites land 20 back).

No module has a `RECURSIVE` operator. The one induction over data, that a set of
naturals has a smallest element (`MinNat`), is the library's, on a set.

## 5. What is not modelled

- Handlers that pass one system call on and whose state is the kernel's: owners,
  times, extended attributes, `bb_statfs`, `bb_access`, `bb_readlink`, and the
  directory streams. `bb_opendir` compares a path, which begins with `/`, with
  `.BLOCKS`, and so hides nothing; `bb_readdir` leaves the name `.BLOCKS` out of
  every directory.
- FIFOs and devices, directories with names in them, and permissions other than
  the owner's.
- `log.c` and `fakelog.c`, option parsing, the build. (`log_syscall` reads `errno`
  after it has written to the log.)
- A disk on which every read fails: `cfs_file_find_index` does not end then. One
  failing read is modelled, where the seek lands 20 bytes back.
- A cut within an index or a number of the header: the search would compare a part of
  one and what is left of another.
- Failing writes of the header in place; a write that fails writes nothing of a
  pair, and once the index cannot be written the hash cannot.
- A crash between the two writes of the header and the write that went over it
  (see `Smashed`), and the loss of what the kernel has not written yet: a crash is
  one of the process, not of the machine.
- Reads that do not start at a page, which need `direct_io`.
- A failing `realloc` and what it leaves.
- Two mounts of one root, except for `Serial = FALSE`.
- Overflow of `off_t`, and SHA-1 collisions.

## 6. Plan

Done: the model of every part above; theorems for every invariant, every action
property and the refinement that the passing runs check, `NoWrongBlock` with the exception
named above; and for each property
that a run finds violated, the theorem that names its cause. What remains: writes of
the header that fail, in `CfsFile`, and liveness once a prover reasons about it.

A module that puts the table, the transfers and the file layer together is not
planned: what one could find there, a descriptor of a released handle that comes
back while requests run, is in `FdTable` (`RightFile`), and each of the others is
checked over what the one beneath promises.
