------------------------------ MODULE Namespace ------------------------------
(***************************************************************************)
(* The handlers of bbfs.c that act on names, over CFS files byte by byte:  *)
(* files are made, linked, renamed, unlinked, cut and opened again, and    *)
(* the slots of the table of open files pass from one to the next with     *)
(* what the last one left in them.                                         *)
(*                                                                         *)
(* A step is one handler.  The kernel has a directory locked while names   *)
(* change in it, and cfs_state_t.lock is held while a block is registered; *)
(* module CfsFile has the steps of that, and files which several handles   *)
(* have open.  The directory .BLOCKS holds what was stored in it.          *)
(***************************************************************************)
EXTENDS Integers, SequencesExt, FiniteSetsExt

CONSTANTS
  Names,       \* names in the root directory
  Inodes,      \* inodes of the directory beneath
  Slots,       \* slots of the table of open files, 1..n
  Indexes,     \* block indexes
  Blocks,      \* blocks; block b has b bytes
  Lengths,     \* lengths that truncate asks for
  Created,     \* how much of the header is there when a file is created
  Leftovers,   \* what malloc'd memory holds before it is written
  Landings,    \* where s_lseek(fd, -HASH_LENGTH, SEEK_CUR) may land
  Wrap,        \* 2^32, by which it lands too far
  MaxWrites,   \* bound on the blocks registered in a behaviour
  MaxDamaged,  \* bound on the files that may be cut, or not created whole
  None         \* no inode

Limit == 256 * 256 * 256  \* what three bytes hold

ASSUME BytesAssumption ==
  Indexes \subseteq 0..(Limit - 1) /\ Blocks \subseteq 1..5
ASSUME InodesAssumption == Inodes \subseteq Nat /\ None \notin Inodes
ASSUME LeftoversAssumption == Leftovers \subseteq Int
\* No number of a header gets out of three bytes and a sign: a write takes off 13
\* at most, and adds 6.
ASSUME WritesAssumption == MaxWrites \in Nat /\ 13 * MaxWrites < Limit
\* No cut within a word of the header or an index: the search would compare what
\* is left of the index and what the stack holds.
ASSUME LengthsAssumption ==
  \A n \in Lengths :
    n \in {0, 7, 15} \/ (n \in Nat /\ n >= 23 /\ (n - 23) % 28 \notin 1..7)
\* See CfsFile for the two landings.  A smaller Wrap stands for 2^32 as long as it
\* leaves the pairs out of step by as much and is more than the files have.
ASSUME LandingsAssumption == Landings \subseteq {"back", "far"} /\ Landings # {}
ASSUME WrapAssumption == Wrap \in Nat /\ Wrap % 28 = 4 /\ Wrap > 28
ASSUME CreatedAssumption == Created \subseteq {0, 7, 15, 23}

VARIABLES
  dir,      \* dir[n]: the inode of name n, or None
  inode,    \* inode[i]: its kind, may it be read and written?, its content
  slots,    \* slots[s]: the inode that is open, or None, and size, total_blocks
  log,      \* log[i]: the blocks registered in file i, a history
  moved,    \* the files in which a rewrite put a hash elsewhere, a history
  damaged,  \* these, and those that were cut or not created whole, a history
  writes    \* how many blocks were registered

vars == <<dir, inode, slots, log, moved, damaged, writes>>

-----------------------------------------------------------------------------
(* Bytes.                                                                   *)

SizeStart == 7      \* sizeof(MAGIC), with the final zero
TotalStart == 15
\* Mutant: the magic without its zero.
PackedStart == 22
BlockStart == 23
HashLength == 20
PairLength == 28
RefSize == 8
Far == Limit        \* an off_t that is no index, no count

Magic == <<67, 70, 83, 48, 46, 49, 0>>
HashOf(b) == [k \in 1..HashLength |-> 40 * b + k]

\* Mutant: the sign is not spread over the bytes.
SignedWord(v) == [k \in 1..8 |-> IF k = 1 THEN v ELSE 0]

\* An off_t, the low byte first: three bytes, and the sign in the others.
Word(v) ==
  LET sign == IF v < 0 THEN 255 ELSE 0
  IN  <<v % 256, (v \div 256) % 256, (v \div (256 * 256)) % 256,
        sign, sign, sign, sign, sign>>

Value(word) ==
  LET low == word[1] + 256 * word[2] + (256 * 256) * word[3]
  IN  CASE \A k \in 4..8 : word[k] = 0 -> low
        [] \A k \in 4..8 : word[k] = 255 -> low - Limit
        [] OTHER -> Far

\* read(2) at a position: fewer bytes at the end of the file.
Get(bytes, pos, n) == SubSeq(bytes, pos + 1, Min({pos + n, Len(bytes)}))

\* A word that is not all there leaves the variable as it was.  (A cut does not
\* leave half a word of the header.)
GetWord(bytes, pos, before) ==
  LET word == Get(bytes, pos, 8)
  IN  IF Len(word) = 8 THEN Value(word) ELSE before

\* write(2) at a position.
Put(bytes, pos, data) ==
  [k \in 1..Max({Len(bytes), pos + Len(data)}) |->
     IF k \in (pos + 1)..(pos + Len(data)) THEN data[k - pos]
     ELSE IF k <= Len(bytes) THEN bytes[k] ELSE 0]

Resize(bytes, n) ==
  [k \in 1..n |-> IF k <= Len(bytes) THEN bytes[k] ELSE 0]

-----------------------------------------------------------------------------
(* cfs.c on the bytes of a file.                                            *)

NewFile == Magic \o Word(0) \o Word(0)

PairAt(k) == BlockStart + PairLength * k

\* Mutant: the search stops at the first pair that is not before the index.
FindNext(bytes, total, x) ==
  LET hits == {k \in 0..(Len(bytes) \div PairLength) :
                 GetWord(bytes, PairAt(k), -1) >= x}
  IN  IF total = 0 \/ hits = {} THEN -1 ELSE PairAt(Min(hits))

\* cfs_file_find_index: where the pair is, or -1.
FindIndex(bytes, total, x) ==
  LET hits == {k \in 0..(Len(bytes) \div PairLength) :
                 GetWord(bytes, PairAt(k), Far) = x}
  IN  IF total = 0 \/ hits = {} THEN -1 ELSE PairAt(Min(hits))

BlockGetSize(hash) ==
  IF \E b \in Blocks : hash = HashOf(b)
    THEN RefSize + CHOOSE b \in Blocks : hash = HashOf(b)
    ELSE -1

\* Mutants: the count is not written; the two in the wrong order.
PutSizeOnly(bytes, size, total) == Put(bytes, SizeStart, Word(size))
PutSwapped(bytes, size, total) == Put(bytes, SizeStart, Word(total) \o Word(size))

\* The header of a handle is written over that of the file.
PutHeader(bytes, size, total) ==
  Put(bytes, SizeStart, Word(size) \o Word(total))

\* cfs_file_register_block: the file and the slot that it leaves, and whether the
\* hash of a pair is written again elsewhere than it was read.
Registered(bytes, slot, x, b, landing) ==
  LET pos == FindIndex(bytes, slot.total, x)
      old == Get(bytes, pos + 8, HashLength)
      hash == old \o SubSeq(HashOf(b), Len(old) + 1, HashLength)
      size == slot.size + b - IF pos = -1 THEN 0 ELSE BlockGetSize(hash)
      total == slot.total + IF pos = -1 THEN 1 ELSE 0
      at == pos + 8 + Len(old) - HashLength + IF landing = "far" THEN Wrap ELSE 0
      body == IF pos = -1 THEN bytes \o Word(x) \o HashOf(b)
              ELSE Put(bytes, at, hash)
  IN  [bytes |-> PutHeader(body, size, total),
       slot |-> [slot EXCEPT !.size = size, !.total = total],
       moved |-> pos # -1 /\ at # pos + 8]

Hole == 0
Error == -1

\* The hash that the search for an index ends at.
HashAt(bytes, total, x) == Get(bytes, FindIndex(bytes, total, x) + 8, HashLength)

\* Is there a pair, with a hash that is not all there?
HashIsCut(bytes, total, x) ==
  FindIndex(bytes, total, x) # -1 /\ Len(HashAt(bytes, total, x)) # HashLength

\* cfs_file_read_block: what it may answer.  The blocks that pairs name can be
\* loaded.  The rest of a hash that is not all there is what the stack holds, be
\* it the hash of any block.
ReadBlock(bytes, total, x) ==
  IF FindIndex(bytes, total, x) = -1 THEN {Hole}
  ELSE IF HashIsCut(bytes, total, x) THEN {Error} \cup Blocks
  ELSE LET found == {b \in Blocks : HashOf(b) = HashAt(bytes, total, x)}
       IN  IF found = {} THEN {Error} ELSE found

\* cfscat: total_blocks pairs, from BLOCK_START on.
Printed(bytes) ==
  [k \in 1..GetWord(bytes, TotalStart, 0) |->
     [index |-> GetWord(bytes, PairAt(k - 1), Far),
      hash |-> Get(bytes, PairAt(k - 1) + 8, HashLength)]]

-----------------------------------------------------------------------------
(* Names.                                                                   *)

Kinds == {"file", "dir", "link"}
Entry(kind, bytes) == [kind |-> kind, open |-> TRUE, bytes |-> bytes]

IsOpen(i) == \E s \in Slots : slots[s].ino = i
IsFile(i) == i # None /\ inode[i].kind = "file"

\* The inodes with a name, and those that are open.
Used(names, table) ==
  Inodes \cap ({names[n] : n \in Names} \cup {table[s].ino : s \in Slots})

Free == Entry("file", <<>>)

\* An inode is free when its last name is gone and it is not open any more.
FreeUnused ==
  LET used == Used(dir', slots')
  IN  /\ inode' = [i \in Inodes |-> IF i \in used THEN inode[i] ELSE Free]
      /\ log' = [i \in Inodes |-> IF i \in used THEN log[i] ELSE <<>>]
      /\ moved' = moved \cap used
      /\ damaged' = damaged \cap used

\* main and cfs_init: the table is there, with nothing open in it.
EmptyTable(left) == [s \in Slots |-> [ino |-> None, size |-> left, total |-> left]]

Init ==
  /\ dir = [n \in Names |-> None]
  /\ inode = [i \in Inodes |-> Free]
  /\ \E left \in Leftovers : slots = EmptyTable(left)
  /\ log = [i \in Inodes |-> <<>>]
  /\ moved = {} /\ damaged = {} /\ writes = 0

\* The bound on the files that are cut or created short.
MayDamage == damaged' = damaged \/ Cardinality(damaged') <= MaxDamaged

\* A new inode gets a name.
Make(n, entry) ==
  /\ dir[n] = None /\ Inodes # Used(dir, slots)
  /\ \E i \in Inodes :
       /\ i = Min(Inodes \ Used(dir, slots))
       /\ dir' = [dir EXCEPT ![n] = i]
       /\ inode' = [inode EXCEPT ![i] = entry]
       /\ damaged' = damaged \cup
                      IF entry.kind = "file" /\ entry.bytes # NewFile THEN {i} ELSE {}
  /\ MayDamage
  /\ UNCHANGED <<slots, log, moved, writes>>

\* bb_mknod with cfs_create_file.  What its writes return is not looked at: on a
\* full disk a part of the header is there, and bb_mknod returns 0.
Mknod(n) ==
  \E k \in Created :
    Make(n, Entry("file", SubSeq(NewFile, 1, k)))

Mkdir(n) == Make(n, Entry("dir", <<>>))
Symlink(n) == Make(n, Entry("link", <<>>))

\* bb_link: a file has one more name.
LinkName(n, m) ==
  /\ dir[n] # None /\ dir[m] = None /\ inode[dir[n]].kind # "dir"
  /\ dir' = [dir EXCEPT ![m] = dir[n]]
  /\ UNCHANGED <<inode, slots, log, moved, damaged, writes>>

Unname(n, kinds) ==
  /\ dir[n] # None /\ inode[dir[n]].kind \in kinds
  /\ dir' = [dir EXCEPT ![n] = None]
  /\ UNCHANGED <<slots, writes>> /\ FreeUnused

\* bb_unlink, bb_rmdir: the name goes, and no block is given back.
Unlink(n) == Unname(n, {"file", "link"})
Rmdir(n) == Unname(n, {"dir"})

\* bb_rename, over a name that is there or not.
Rename(n, m) ==
  /\ n # m /\ dir[n] # None /\ dir[m] # dir[n]
  /\ dir[m] # None => (inode[dir[n]].kind = "dir" <=> inode[dir[m]].kind = "dir")
  /\ dir' = [dir EXCEPT ![m] = dir[n], ![n] = None]
  /\ UNCHANGED <<slots, writes>> /\ FreeUnused

\* bb_chmod: its owner is let in or kept out; main refuses to run as root.
Chmod(n) ==
  /\ IsFile(dir[n])
  /\ inode' = [inode EXCEPT ![dir[n]].open = ~@]
  /\ UNCHANGED <<dir, slots, log, moved, damaged, writes>>

\* The file on disk is cut, or gets a tail of zeroes, whatever its header says.
Cut(i, n) ==
  /\ n # Len(inode[i].bytes)
  /\ inode' = [inode EXCEPT ![i].bytes = Resize(@, n)]
  /\ damaged' = damaged \cup {i}
  /\ MayDamage
  /\ UNCHANGED <<dir, slots, log, moved, writes>>

Truncate(n) ==
  IsFile(dir[n]) /\ inode[dir[n]].open /\ \E length \in Lengths : Cut(dir[n], length)

Ftruncate(s) ==
  slots[s].ino # None /\ \E length \in Lengths : Cut(slots[s].ino, length)

\* bb_getattr of a file, with cfs_file_stat: of one that is no CFS file, or that
\* cannot be read, it tells what the stack held.
Getattr(n) ==
  LET bytes == inode[dir[n]].bytes
      readable == inode[dir[n]].open /\ Get(bytes, 0, SizeStart) = Magic
      Field(pos) == IF readable THEN GetWord(bytes, pos, Far) ELSE Far
  IN  [size |-> Field(SizeStart), blocks |-> Field(TotalStart)]

-----------------------------------------------------------------------------
(* Open files.                                                              *)

\* Mutant: only the size is read.
SlotKeepsTotal(i, slot) ==
  [slot EXCEPT !.ino = i, !.size = GetWord(inode[i].bytes, SizeStart, @)]

\* cfs_register_file: the slot's size and total_blocks are read, or stay as the
\* slot's last file left them when the file ends before.
SlotOf(i, slot) ==
  [ino |-> i,
   size |-> GetWord(inode[i].bytes, SizeStart, slot.size),
   total |-> GetWord(inode[i].bytes, TotalStart, slot.total)]

\* bb_open, in the first free slot.
Open(n) ==
  /\ IsFile(dir[n]) /\ inode[dir[n]].open /\ ~IsOpen(dir[n])
  /\ \E s \in Slots :
       /\ slots[s].ino = None /\ \A r \in Slots : r < s => slots[r].ino # None
       /\ slots' = [slots EXCEPT ![s] = SlotOf(dir[n], @)]
  /\ UNCHANGED <<dir, inode, log, moved, damaged, writes>>

\* bb_release: the numbers in the slot stay.
Release(s) ==
  /\ slots[s].ino # None
  /\ slots' = [slots EXCEPT ![s].ino = None]
  /\ UNCHANGED <<dir, writes>> /\ FreeUnused

\* bb_write of one block.
Write(s, x, b) ==
  /\ slots[s].ino # None /\ writes < MaxWrites
  /\ \E landing \in Landings :
       LET i == slots[s].ino
           after == Registered(inode[i].bytes, slots[s], x, b, landing)
           here == IF after.moved THEN {i} ELSE {}
       IN  /\ inode' = [inode EXCEPT ![i].bytes = after.bytes]
           /\ slots' = [slots EXCEPT ![s] = after.slot]
           /\ log' = [log EXCEPT ![i] = Append(@, [index |-> x, block |-> b])]
           /\ moved' = moved \cup here
           /\ damaged' = damaged \cup here
  /\ writes' = writes + 1
  /\ UNCHANGED dir

\* The process ends, or is killed, and main starts another.
Remount ==
  /\ \E left \in Leftovers : slots' = EmptyTable(left)
  /\ UNCHANGED <<dir, writes>> /\ FreeUnused

Next ==
  \/ \E n \in Names :
       \/ Mknod(n) \/ Mkdir(n) \/ Symlink(n) \/ Unlink(n) \/ Rmdir(n)
       \/ Chmod(n) \/ Truncate(n) \/ Open(n)
       \/ \E m \in Names : LinkName(n, m) \/ Rename(n, m)
  \/ \E s \in Slots :
       \/ Ftruncate(s) \/ Release(s)
       \/ \E x \in Indexes, b \in Blocks : Write(s, x, b)
  \/ Remount

Spec == Init /\ [][Next]_vars

-----------------------------------------------------------------------------
(* Properties.                                                              *)

\* The state has its shape, and a slot has a file open and nothing else.
TypeOK ==
  /\ dir \in [Names -> Inodes \cup {None}]
  /\ \A i \in Inodes :
       /\ inode[i].kind \in Kinds /\ inode[i].open \in BOOLEAN
       /\ \A k \in DOMAIN inode[i].bytes : inode[i].bytes[k] \in 0..255
  /\ \A s \in Slots : slots[s].ino = None \/ IsFile(slots[s].ino)
  /\ moved \subseteq damaged /\ damaged \subseteq Inodes /\ writes \in 0..MaxWrites

Files == {i \in Used(dir, slots) : IsFile(i)}
Whole == Files \ damaged

IndexesOf(i) == {log[i][k].index : k \in DOMAIN log[i]}
BlocksOf(i, x) ==
  {log[i][k].block : k \in {j \in DOMAIN log[i] : log[i][j].index = x}}
FirstBlock(i, x) ==
  log[i][Min({k \in DOMAIN log[i] : log[i][k].index = x})].block

\* A file that is not damaged is as the top of cfs.c has it: the magic, a size, a
\* count, and as many pairs, one for each index that was written, with the first
\* block written there; cfscat prints these.
FileFormat ==
  \A i \in Whole :
    LET bytes == inode[i].bytes IN
    /\ Get(bytes, 0, SizeStart) = Magic
    /\ Len(bytes) = PairAt(Cardinality(IndexesOf(i)))
    /\ Len(Printed(bytes)) = Cardinality(IndexesOf(i))
    /\ ToSet(Printed(bytes)) =
         {[index |-> x, hash |-> HashOf(FirstBlock(i, x))] : x \in IndexesOf(i)}

\* A read of a file answers with a hole, an error or a block of its own.
ReadsOwn(i) ==
  \A x \in Indexes, total \in {0, 1} :
    \/ HashIsCut(inode[i].bytes, total, x)
    \/ ReadBlock(inode[i].bytes, total, x) \subseteq {Hole, Error} \cup BlocksOf(i, x)

\* A read of any file, one that is cut within a pair or in which a rewrite landed
\* far too, and whatever the slot held before, answers with a hole, an error, or
\* a block that was written to this file at this index: never with a block of
\* another index, nor of a file that had the inode before.  Only where a cut left
\* an index without its whole hash can it be any block.
NoWrongBlock == \A i \in Files : ReadsOwn(i)

\* Whatever happened to its names, and whoever used the slot before: a file that
\* is not damaged, opened now, reads as the blocks first written to it.
OpenFinds ==
  \A i \in Whole, s \in Slots, x \in Indexes :
    ReadBlock(inode[i].bytes, SlotOf(i, slots[s]).total, x) =
      IF x \in IndexesOf(i) THEN {FirstBlock(i, x)} ELSE {Hole}

\* The slot of a file that is not damaged has the numbers of its own header,
\* though the slot's memory is passed on and not cleared.
SlotIsOwn ==
  \A s \in Slots :
    slots[s].ino \in Whole =>
      slots[s] = SlotOf(slots[s].ino, [slots[s] EXCEPT !.size = Far, !.total = Far])

Readable(n) == dir[n] \in Whole /\ inode[dir[n]].open

\* The bytes of the blocks of a file: b of them in block b.
BytesOf(i) == UNION {{x} \X (1..FirstBlock(i, x)) : x \in IndexesOf(i)}

\* bb_getattr tells as st_blocks how many indexes were written, and as st_size
\* the bytes of the blocks as long as no index was written twice.  (A second write
\* takes off the whole block file of the old block and adds the new one's bytes,
\* while the old one stays.)
AttrExact ==
  \A n \in Names :
    Readable(n) =>
      /\ Getattr(n).blocks = Cardinality(IndexesOf(dir[n]))
      /\ Len(log[dir[n]]) = Cardinality(IndexesOf(dir[n])) =>
           Getattr(n).size = Cardinality(BytesOf(dir[n]))

\* A block whose write has returned is found.  It does not hold of a file that
\* was cut before: the pair is appended where the header goes.
WrittenIsFound ==
  [][\A s \in Slots, x \in Indexes, b \in Blocks :
       Write(s, x, b) =>
         Hole \notin ReadBlock(inode'[slots[s].ino].bytes, slots'[s].total, x)]_vars
=============================================================================
