--------------------------- MODULE NamespaceProofs ---------------------------
(***************************************************************************)
(* Theorems about module Namespace, for every set of names, inodes and     *)
(* slots, every set of indexes that three bytes hold and every number of   *)
(* damaged files.  First what a file has that is not damaged, from IInv;   *)
(* then what a read finds in a file that was cut anywhere, from OwnInv.    *)
(***************************************************************************)
EXTENDS Namespace, FiniteSetTheorems, SequenceTheorems, WellFoundedInduction, TLAPS

-----------------------------------------------------------------------------
(* Numbers.                                                                 *)

\* A set of naturals has a smallest one.
LEMMA MinNat ==
  ASSUME NEW S, S \subseteq Nat, S # {}
  PROVE  Min(S) \in S /\ \A y \in S : Min(S) <= y
<1> DEFINE Less == {ss \in Nat \X Nat : ss[1] < ss[2]}
<1>1. IsWellFoundedOn(Less, Nat)
  BY NatLessThanWellFounded DEF OpToRel
<1> HIDE DEF Less
<1>2. PICK x \in S : \A y \in S : ~(<<y, x>> \in Less)
  BY <1>1, WFMin
<1>3. \A y \in S : ~(y < x)
  BY <1>2 DEF Less
<1>4. \A y \in S : x <= y
  BY <1>3
<1> QED
  BY <1>4 DEF Min

\* It is the only one.
LEMMA MinIs ==
  ASSUME NEW S, S \subseteq Int, NEW m \in S, \A y \in S : m <= y
  PROVE  Min(S) = m
<1>1. Min(S) \in S /\ \A y \in S : Min(S) <= y
  BY DEF Min
<1>2. Min(S) <= m /\ m <= Min(S)
  BY <1>1
<1>3. m \in Int /\ Min(S) \in Int
  BY <1>1
<1> QED
  BY <1>2, <1>3

\* The smaller and the larger of two numbers.
LEMMA OfTwo ==
  ASSUME NEW a \in Int, NEW b \in Int
  PROVE  /\ Min({a, b}) = (IF a <= b THEN a ELSE b)
         /\ Max({a, b}) = (IF a >= b THEN a ELSE b)
<1>1. Min({a, b}) = (IF a <= b THEN a ELSE b)
  BY MinIs
<1>2. /\ Max({a, b}) \in {a, b} /\ \A y \in {a, b} : Max({a, b}) >= y
  <2>1. \E x \in {a, b} : \A y \in {a, b} : x >= y
    OBVIOUS
  <2> QED
    BY <2>1 DEF Max
<1> QED
  BY <1>1, <1>2

-----------------------------------------------------------------------------
(* Bytes.                                                                   *)

Byte == 0..255

\* The bytes that the sign of an off_t is made of.
LEMMA ByteIs == 0 \in Byte /\ 255 \in Byte /\ Byte \subseteq Int
  BY DEF Byte

\* What a read at a position gets.
LEMMA GetIs ==
  ASSUME NEW bytes \in Seq(Byte), NEW pos \in Nat, NEW n \in Nat
  PROVE  /\ Get(bytes, pos, n) \in Seq(Byte)
         /\ Len(Get(bytes, pos, n)) =
              IF pos + n <= Len(bytes) THEN n
              ELSE IF pos <= Len(bytes) THEN Len(bytes) - pos ELSE 0
         /\ \A k \in 1..Len(Get(bytes, pos, n)) :
              /\ k \in 1..n /\ pos + k \in 1..Len(bytes)
              /\ Get(bytes, pos, n)[k] = bytes[pos + k]
<1> DEFINE m == Min({pos + n, Len(bytes)})
<1>1. m = IF pos + n <= Len(bytes) THEN pos + n ELSE Len(bytes)
  BY OfTwo
<1>2. Get(bytes, pos, n) = SubSeq(bytes, pos + 1, m)
  BY DEF Get
<1> HIDE DEF m
<1>3. m \in Nat /\ m <= Len(bytes) /\ Len(bytes) \in Nat
  BY <1>1
<1>4. \A k \in (pos + 1)..m : bytes[k] \in Byte
  BY <1>3
<1> DEFINE s == SubSeq(bytes, pos + 1, m)
<1>5. /\ s \in Seq(Byte)
      /\ Len(s) = IF pos + 1 <= m THEN m - pos ELSE 0
      /\ \A k \in 1..(m - pos) : s[k] = bytes[pos + k]
  BY <1>3, <1>4
<1> HIDE DEF s
<1> QED
  BY <1>1, <1>2, <1>3, <1>5 DEF s

\* One byte of them.
LEMMA GetAt ==
  ASSUME NEW bytes \in Seq(Byte), NEW pos \in Nat, NEW n \in Nat,
         NEW k \in 1..Len(Get(bytes, pos, n))
  PROVE  Get(bytes, pos, n)[k] = bytes[pos + k]
  BY GetIs

\* What a write at a position leaves.
LEMMA PutIs ==
  ASSUME NEW bytes \in Seq(Byte), NEW pos \in Nat, NEW data \in Seq(Byte)
  PROVE  /\ Put(bytes, pos, data) \in Seq(Byte)
         /\ Len(Put(bytes, pos, data)) =
              IF Len(bytes) >= pos + Len(data) THEN Len(bytes) ELSE pos + Len(data)
         /\ \A k \in 1..Len(Put(bytes, pos, data)) :
              Put(bytes, pos, data)[k] =
                IF k \in (pos + 1)..(pos + Len(data)) THEN data[k - pos]
                ELSE IF k <= Len(bytes) THEN bytes[k] ELSE 0
<1> DEFINE end == pos + Len(data)
           m == Max({Len(bytes), end})
           put == [k \in 1..m |->
                     IF k \in (pos + 1)..(pos + Len(data)) THEN data[k - pos]
                     ELSE IF k <= Len(bytes) THEN bytes[k] ELSE 0]
<1>0. Len(bytes) \in Int /\ end \in Int /\ Len(bytes) >= 0 /\ end >= 0
  OBVIOUS
<1> HIDE DEF end
<1>1. m = IF Len(bytes) >= end THEN Len(bytes) ELSE end
  BY <1>0, OfTwo
<1> USE DEF end
<1>2. Put(bytes, pos, data) = put
  BY DEF Put
<1> HIDE DEF m
<1>3. m \in Nat
  BY <1>0, <1>1
<1>4. ASSUME NEW k \in 1..m PROVE put[k] \in Byte
  <2>1. CASE k \in (pos + 1)..(pos + Len(data))
    <3>1. k - pos \in 1..Len(data)
      BY <2>1
    <3>2. put[k] = data[k - pos]
      BY <2>1
    <3> QED
      BY <3>1, <3>2
  <2>2. CASE k \notin (pos + 1)..(pos + Len(data)) /\ k <= Len(bytes)
    <3>1. put[k] = bytes[k]
      BY <2>2
    <3> QED
      BY <1>3, <2>2, <3>1
  <2>3. CASE k \notin (pos + 1)..(pos + Len(data)) /\ ~(k <= Len(bytes))
    <3>1. put[k] = 0
      BY <2>3
    <3> QED
      BY <3>1, ByteIs
  <2> QED
    BY <2>1, <2>2, <2>3
<1>5. put \in [1..m -> Byte]
  BY <1>4
<1>6. put \in Seq(Byte) /\ Len(put) = m
  BY <1>3, <1>5
<1> QED
  BY <1>1, <1>2, <1>6

\* A file that is cut, or gets a tail of zeroes.
LEMMA ResizeIs ==
  ASSUME NEW bytes \in Seq(Byte), NEW n \in Nat
  PROVE  /\ Resize(bytes, n) \in Seq(Byte) /\ Len(Resize(bytes, n)) = n
         /\ \A k \in 1..n :
              Resize(bytes, n)[k] = IF k <= Len(bytes) THEN bytes[k] ELSE 0
<1> DEFINE out == [k \in 1..n |-> IF k <= Len(bytes) THEN bytes[k] ELSE 0]
<1>1. \A k \in 1..n : (IF k <= Len(bytes) THEN bytes[k] ELSE 0) \in Byte
  BY ByteIs
<1>2. out \in [1..n -> Byte]
  BY <1>1
<1>3. out \in Seq(Byte)
  BY <1>2
<1>4. DOMAIN out = 1..n /\ \A k \in 1..n : out[k] = IF k <= Len(bytes) THEN bytes[k] ELSE 0
  OBVIOUS
<1> HIDE DEF out
<1>5. Len(out) = n
  BY <1>3, <1>4
<1> QED
  BY <1>3, <1>4, <1>5 DEF out, Resize

\* A word has eight bytes.
LEMMA WordIs ==
  ASSUME NEW v \in Int
  PROVE  Word(v) \in Seq(Byte) /\ Len(Word(v)) = 8
<1>1. v % 256 \in Byte /\ (v \div 256) % 256 \in Byte /\ (v \div (256 * 256)) % 256 \in Byte
  BY DEF Byte
<1>2. (IF v < 0 THEN 255 ELSE 0) \in Byte
  BY ByteIs
<1> QED
  BY <1>1, <1>2 DEF Word

\* What an off_t in memory gets to is a number.
LEMMA LimitIs == Limit \in Nat
  BY DEF Limit

\* The indexes are within the limit.
LEMMA IndexIs ==
  ASSUME NEW x \in Indexes
  PROVE  x \in Int /\ 0 - Limit <= x /\ x < Limit
  BY BytesAssumption, LimitIs

\* A size that is off by a counter is within the limit when it is far from it.
LEMMA SizeWithin ==
  ASSUME NEW size \in Int, 0 - Limit <= size - 13, size + 5 < Limit,
         NEW b \in 1..5, NEW c \in 1..5
  PROVE  0 - Limit <= size + b - (8 + c) /\ size + b - (8 + c) < Limit
<1> HIDE DEF Limit
<1> QED
  BY LimitIs

\* Three bytes and a sign hold a number within the limit.
LEMMA ThreeBytes ==
  ASSUME NEW v \in Int, 0 - Limit <= v, v < Limit
  PROVE  (v % 256) + 256 * ((v \div 256) % 256)
           + (256 * 256) * ((v \div (256 * 256)) % 256)
           = IF v < 0 THEN v + Limit ELSE v
  BY DEF Limit

\* Three bytes and a sign hold every number within the limit.
LEMMA WordHolds ==
  ASSUME NEW v \in Int, 0 - Limit <= v, v < Limit
  PROVE  Value(Word(v)) = v
<1> DEFINE sign == IF v < 0 THEN 255 ELSE 0
           low == Word(v)[1] + 256 * Word(v)[2] + (256 * 256) * Word(v)[3]
<1>1. low = IF v < 0 THEN v + Limit ELSE v
  <2>1. /\ Word(v)[1] = v % 256 /\ Word(v)[2] = (v \div 256) % 256
        /\ Word(v)[3] = (v \div (256 * 256)) % 256
    BY DEF Word
  <2> QED
    BY <2>1, ThreeBytes
<1>2. \A k \in 4..8 : Word(v)[k] = sign
  BY DEF Word
<1>3. Value(Word(v)) =
        CASE \A k \in 4..8 : Word(v)[k] = 0 -> low
          [] \A k \in 4..8 : Word(v)[k] = 255 -> low - Limit
          [] OTHER -> Far
  BY DEF Value
<1> HIDE DEF low
<1>4. 4 \in 4..8
  OBVIOUS
<1>5. CASE v < 0
  <2>1. Word(v)[4] # 0 /\ \A k \in 4..8 : Word(v)[k] = 255
    BY <1>2, <1>4, <1>5
  <2>2. Value(Word(v)) = low - Limit
    BY <1>3, <1>4, <2>1
  <2> QED
    BY <1>1, <1>5, <2>2, LimitIs
<1>6. CASE ~(v < 0)
  <2>1. \A k \in 4..8 : Word(v)[k] = 0
    BY <1>2, <1>6
  <2>2. Value(Word(v)) = low
    BY <1>3, <1>4, <2>1
  <2> QED
    BY <1>1, <1>6, <2>2
<1> QED
  BY <1>5, <1>6

\* What eight bytes say is a number.
LEMMA ValueIs ==
  ASSUME NEW word \in Seq(Byte), Len(word) = 8
  PROVE  Value(word) \in Int
<1> DEFINE low == word[1] + 256 * word[2] + (256 * 256) * word[3]
<1>1. low \in Int
  <2>1. word[1] \in Byte /\ word[2] \in Byte /\ word[3] \in Byte
    OBVIOUS
  <2>2. word[1] \in Int /\ word[2] \in Int /\ word[3] \in Int
    BY <2>1, ByteIs
  <2> QED
    BY <2>2
<1>2. Value(word) = CASE \A k \in 4..8 : word[k] = 0 -> low
                      [] \A k \in 4..8 : word[k] = 255 -> low - Limit
                      [] OTHER -> Far
  BY DEF Value
<1> HIDE DEF low
<1>3. low - Limit \in Int /\ Far \in Int
  BY <1>1 DEF Far, Limit
<1>4. \/ Value(word) = low \/ Value(word) = low - Limit \/ Value(word) = Far
  <2>1. CASE \A k \in 4..8 : word[k] = 0
    <3>1. word[4] = 0
      BY <2>1
    <3>2. ~(\A k \in 4..8 : word[k] = 255)
      BY <3>1
    <3> QED
      BY <1>2, <2>1, <3>2
  <2>2. CASE ~(\A k \in 4..8 : word[k] = 0)
    BY <1>2, <2>2
  <2> QED
    BY <2>1, <2>2
<1> QED
  BY <1>1, <1>3, <1>4

\* A word of a file: what it was before, when the file ends before it.
LEMMA GetWordIs ==
  ASSUME NEW bytes \in Seq(Byte), NEW pos \in Nat, NEW before \in Int
  PROVE  /\ GetWord(bytes, pos, before) \in Int
         /\ pos + 8 <= Len(bytes) =>
              /\ Get(bytes, pos, 8) \in Seq(Byte) /\ Len(Get(bytes, pos, 8)) = 8
              /\ GetWord(bytes, pos, before) = Value(Get(bytes, pos, 8))
         /\ ~(pos + 8 <= Len(bytes)) => GetWord(bytes, pos, before) = before
<1> DEFINE word == Get(bytes, pos, 8)
<1>0. 8 \in Nat
  OBVIOUS
<1>1. /\ word \in Seq(Byte)
      /\ Len(word) = IF pos + 8 <= Len(bytes) THEN 8
                     ELSE IF pos <= Len(bytes) THEN Len(bytes) - pos ELSE 0
  BY <1>0, GetIs
<1>2. GetWord(bytes, pos, before) = IF Len(word) = 8 THEN Value(word) ELSE before
  BY DEF GetWord
<1> HIDE DEF word
<1>3. Len(word) = 8 <=> pos + 8 <= Len(bytes)
  BY <1>1
<1> QED
  BY <1>1, <1>2, <1>3, ValueIs DEF word

\* Hashes have 20 bytes, and those of two blocks differ.
LEMMA HashIs ==
  ASSUME NEW b \in Blocks
  PROVE  /\ HashOf(b) \in Seq(Byte) /\ Len(HashOf(b)) = HashLength
         /\ \A c \in Blocks : HashOf(b) = HashOf(c) => b = c
<1>1. \A x \in Blocks : x \in 1..5
  BY BytesAssumption
<1>2. \A k \in 1..20 : 40 * b + k \in Byte
  BY <1>1 DEF Byte
<1>3. HashOf(b) \in Seq(Byte) /\ Len(HashOf(b)) = 20
  <2>1. HashOf(b) = [k \in 1..20 |-> 40 * b + k]
    BY DEF HashOf, HashLength
  <2> QED
    BY <1>2, <2>1
<1>4. ASSUME NEW c \in Blocks, HashOf(b) = HashOf(c) PROVE b = c
  <2>1. HashOf(b)[1] = 40 * b + 1 /\ HashOf(c)[1] = 40 * c + 1
    BY DEF HashOf, HashLength
  <2> QED
    BY <1>1, <1>4, <2>1
<1> QED
  BY <1>3, <1>4 DEF HashLength

-----------------------------------------------------------------------------
(* Parts of a file.                                                         *)

\* Two files that agree on a part.
LEMMA SameGet ==
  ASSUME NEW b \in Seq(Byte), NEW c \in Seq(Byte), NEW pos \in Nat, NEW n \in Nat,
         pos + n <= Len(b), pos + n <= Len(c),
         \A k \in (pos + 1)..(pos + n) : b[k] = c[k]
  PROVE  Get(b, pos, n) = Get(c, pos, n)
<1> DEFINE s == Get(b, pos, n)
           t == Get(c, pos, n)
<1>1. s \in Seq(Byte) /\ Len(s) = n /\ \A k \in 1..n : s[k] = b[pos + k]
  BY GetIs
<1>2. t \in Seq(Byte) /\ Len(t) = n /\ \A k \in 1..n : t[k] = c[pos + k]
  BY GetIs
<1> HIDE DEF s, t
<1>3. ASSUME NEW k \in 1..n PROVE s[k] = t[k]
  <2>1. b[pos + k] = c[pos + k]
    OBVIOUS
  <2> QED
    BY <1>1, <1>2, <2>1
<1>4. s = t
  BY <1>1, <1>2, <1>3
<1> QED
  BY <1>4 DEF s, t

\* A part that is known.
LEMMA PlacedGet ==
  ASSUME NEW b \in Seq(Byte), NEW pos \in Nat, NEW data \in Seq(Byte),
         pos + Len(data) <= Len(b),
         \A k \in 1..Len(data) : b[pos + k] = data[k]
  PROVE  Get(b, pos, Len(data)) = data
<1> DEFINE n == Len(data)
<1>0. n \in Nat /\ pos + n <= Len(b)
  OBVIOUS
<1> HIDE DEF n
<1> DEFINE s == Get(b, pos, n)
<1>1. s \in Seq(Byte) /\ Len(s) = n /\ \A k \in 1..n : s[k] = b[pos + k]
  BY <1>0, GetIs
<1> HIDE DEF s
<1> USE DEF n
<1>2. \A k \in 1..n : s[k] = data[k]
  BY <1>1
<1>3. s = data
  BY <1>1, <1>2
<1> QED
  BY <1>3 DEF s

-----------------------------------------------------------------------------
(* Entries of the log.                                                      *)

EntryType == [index : Indexes, block : Blocks]

\* The indexes that a log has, and the first block at one of them.
IndexesIn(entries) == {entries[k].index : k \in DOMAIN entries}
FirstIn(entries, x) ==
  entries[Min({k \in DOMAIN entries : entries[k].index = x})].block

\* The bytes of the first blocks.
BytesIn(entries) ==
  UNION {{x} \X (1..FirstIn(entries, x)) : x \in IndexesIn(entries)}

\* The first entry of an index is there.
LEMMA FirstIs ==
  ASSUME NEW entries \in Seq(EntryType), NEW x \in IndexesIn(entries)
  PROVE  \E m \in 1..Len(entries) :
           /\ entries[m].index = x /\ \A k \in 1..(m - 1) : entries[k].index # x
           /\ FirstIn(entries, x) = entries[m].block
<1> DEFINE S == {k \in DOMAIN entries : entries[k].index = x}
           m == Min(S)
<1>1. S \subseteq Nat /\ S # {} /\ S \subseteq 1..Len(entries)
  BY DEF IndexesIn
<1>2. m \in S /\ \A y \in S : m <= y
  <2> HIDE DEF S
  <2> QED
    BY <1>1, MinNat
<1>3. FirstIn(entries, x) = entries[m].block
  BY DEF FirstIn
<1>4. m \in 1..Len(entries) /\ entries[m].index = x
  BY <1>1, <1>2
<1>5. \A k \in 1..(m - 1) : entries[k].index # x
  <2> SUFFICES ASSUME NEW k \in 1..(m - 1), entries[k].index = x PROVE FALSE
    OBVIOUS
  <2>1. k \in S /\ k < m /\ k \in Int
    BY <1>4
  <2> HIDE DEF S, m
  <2> QED
    BY <1>2, <1>4, <2>1
<1> HIDE DEF S, m
<1> QED
  BY <1>3, <1>4, <1>5 DEF S, m

\* What was written first is a block.
LEMMA FirstInBlocks ==
  ASSUME NEW entries \in Seq(EntryType), NEW x \in IndexesIn(entries)
  PROVE  FirstIn(entries, x) \in Blocks
<1>1. PICK m \in 1..Len(entries) :
        /\ entries[m].index = x /\ \A k \in 1..(m - 1) : entries[k].index # x
        /\ FirstIn(entries, x) = entries[m].block
  BY FirstIs
<1>2. entries[m] \in EntryType
  OBVIOUS
<1> QED
  BY <1>1, <1>2 DEF EntryType

\* A first entry of an index is the first one.
LEMMA FirstBy ==
  ASSUME NEW entries \in Seq(EntryType), NEW m \in 1..Len(entries),
         \A k \in 1..(m - 1) : entries[k].index # entries[m].index
  PROVE  FirstIn(entries, entries[m].index) = entries[m].block
<1> DEFINE x == entries[m].index
           S == {k \in DOMAIN entries : entries[k].index = x}
<1>1. S \subseteq Int /\ m \in S /\ m \in Int
  OBVIOUS
<1>2. \A y \in S : m <= y
  OBVIOUS
<1>3. Min(S) = m
  <2> HIDE DEF S
  <2> QED
    BY <1>1, <1>2, MinIs
<1> QED
  BY <1>3 DEF FirstIn

\* One more entry.
LEMMA AppendEntry ==
  ASSUME NEW entries \in Seq(EntryType), NEW x \in Indexes, NEW b \in Blocks
  PROVE  LET next == Append(entries, [index |-> x, block |-> b]) IN
         /\ next \in Seq(EntryType)
         /\ IndexesIn(next) = IndexesIn(entries) \cup {x}
         /\ \A y \in IndexesIn(entries) : FirstIn(next, y) = FirstIn(entries, y)
         /\ x \notin IndexesIn(entries) => FirstIn(next, x) = b
<1> DEFINE entry == [index |-> x, block |-> b]
           next == Append(entries, entry)
           n == Len(entries)
<1>1. entry \in EntryType /\ entry.index = x /\ entry.block = b
  BY DEF EntryType
<1> HIDE DEF entry
<1>2. /\ next \in Seq(EntryType) /\ Len(next) = n + 1 /\ n \in Nat
      /\ \A k \in 1..n : next[k] = entries[k]
      /\ next[n + 1] = entry
  BY <1>1, AppendProperties
<1>3. DOMAIN next = 1..(n + 1) /\ DOMAIN entries = 1..n
  BY <1>2
<1> HIDE DEF next, n
<1>4. IndexesIn(next) = IndexesIn(entries) \cup {x}
  <2>1. IndexesIn(next) \subseteq IndexesIn(entries) \cup {x}
    BY <1>1, <1>2, <1>3 DEF IndexesIn
  <2>2. IndexesIn(entries) \subseteq IndexesIn(next)
    BY <1>2, <1>3 DEF IndexesIn
  <2>3. x \in IndexesIn(next)
    BY <1>1, <1>2, <1>3 DEF IndexesIn
  <2> QED
    BY <2>1, <2>2, <2>3
<1>5. ASSUME NEW y \in IndexesIn(entries) PROVE FirstIn(next, y) = FirstIn(entries, y)
  <2>1. PICK m \in 1..Len(entries) :
          /\ entries[m].index = y /\ \A k \in 1..(m - 1) : entries[k].index # y
          /\ FirstIn(entries, y) = entries[m].block
    BY FirstIs
  <2>2. m \in 1..Len(next) /\ next[m] = entries[m]
    BY <1>2 DEF n
  <2>3. \A k \in 1..(m - 1) : next[k].index # next[m].index
    <3>1. \A k \in 1..(m - 1) : next[k] = entries[k]
      BY <1>2 DEF n
    <3> QED
      BY <2>1, <2>2, <3>1
  <2>4. FirstIn(next, next[m].index) = next[m].block
    BY <1>2, <2>2, <2>3, FirstBy
  <2> QED
    BY <2>1, <2>2, <2>4
<1>6. ASSUME x \notin IndexesIn(entries) PROVE FirstIn(next, x) = b
  <2>1. n + 1 \in 1..Len(next)
    BY <1>2
  <2>2. \A k \in 1..n : next[k].index # x
    BY <1>2, <1>3, <1>6 DEF IndexesIn
  <2>3. \A k \in 1..(n + 1 - 1) : next[k].index # next[n + 1].index
    BY <1>1, <1>2, <2>2
  <2>4. FirstIn(next, next[n + 1].index) = next[n + 1].block
    BY <1>2, <2>1, <2>3, FirstBy
  <2> QED
    BY <1>1, <1>2, <2>4
<1> QED
  BY <1>2, <1>4, <1>5, <1>6 DEF next, entry

-----------------------------------------------------------------------------
(* What the functions of cfs.c do to a file.                                *)

PairWord(bytes, k) == GetWord(bytes, PairAt(k), Far)
PairHash(bytes, k) == Get(bytes, PairAt(k) + 8, HashLength)

\* The body of a file: n pairs, one for each index of its log, with the hash
\* of the first block.
HasPairs(bytes, entries, n) ==
  /\ Len(bytes) = PairAt(n)
  /\ \A k \in 0..(n - 1) :
       /\ PairWord(bytes, k) \in IndexesIn(entries)
       /\ PairHash(bytes, k) = HashOf(FirstIn(entries, PairWord(bytes, k)))
  /\ \A x \in IndexesIn(entries) : \E k \in 0..(n - 1) : PairWord(bytes, k) = x
  /\ \A j, k \in 0..(n - 1) : PairWord(bytes, j) = PairWord(bytes, k) => j = k

\* With its header.
HasFormat(bytes, entries, n) ==
  /\ Get(bytes, 0, SizeStart) = Magic
  /\ GetWord(bytes, TotalStart, 0) = n
  /\ HasPairs(bytes, entries, n)

\* Where a pair begins.
LEMMA PairAtIs ==
  ASSUME NEW k \in Nat
  PROVE  PairAt(k) = 23 + 28 * k /\ PairAt(k) \in Nat
  BY DEF PairAt, BlockStart, PairLength

\* A search stays in the file, or finds nothing.
LEMMA FindType ==
  ASSUME NEW bytes \in Seq(Byte), NEW total \in Int, NEW x \in Int
  PROVE  \/ FindIndex(bytes, total, x) = -1
         \/ /\ FindIndex(bytes, total, x) \in Nat
            /\ FindIndex(bytes, total, x) >= 23
<1> DEFINE hits == {k \in 0..(Len(bytes) \div PairLength) :
                      GetWord(bytes, PairAt(k), Far) = x}
<1>1. FindIndex(bytes, total, x) =
        IF total = 0 \/ hits = {} THEN -1 ELSE PairAt(Min(hits))
  BY DEF FindIndex
<1>2. hits \subseteq Nat
  OBVIOUS
<1> HIDE DEF hits
<1>3. CASE total = 0 \/ hits = {}
  BY <1>1, <1>3
<1>4. CASE ~(total = 0 \/ hits = {})
  <2>1. Min(hits) \in Nat
    BY <1>2, <1>4, MinNat
  <2>2. PairAt(Min(hits)) = 23 + 28 * Min(hits)
    BY <2>1, PairAtIs
  <2> QED
    BY <1>1, <1>4, <2>1, <2>2
<1> QED
  BY <1>3, <1>4

\* In a file that has its format, a search finds the one pair of an index.
LEMMA FindIs ==
  ASSUME NEW bytes \in Seq(Byte), NEW entries \in Seq(EntryType), NEW n \in Nat,
         HasFormat(bytes, entries, n), NEW x \in Indexes
  PROVE  /\ x \notin IndexesIn(entries) => FindIndex(bytes, n, x) = -1
         /\ x \in IndexesIn(entries) =>
              \E k \in 0..(n - 1) :
                PairWord(bytes, k) = x /\ FindIndex(bytes, n, x) = PairAt(k)
<1> DEFINE hits == {k \in 0..(Len(bytes) \div PairLength) : PairWord(bytes, k) = x}
<1>1. FindIndex(bytes, n, x) =
        IF n = 0 \/ hits = {} THEN -1 ELSE PairAt(Min(hits))
  BY DEF FindIndex, PairWord
<1>2. Len(bytes) = 23 + 28 * n /\ Len(bytes) \div PairLength = n
  <2>1. Len(bytes) = 23 + 28 * n
    BY PairAtIs DEF HasFormat, HasPairs
  <2> QED
    BY <2>1 DEF PairLength
<1>3. x \in Int /\ Far \in Int /\ x # Far
  BY BytesAssumption, LimitIs DEF Far
<1>4. PairWord(bytes, n) # x
  <2>1. PairAt(n) \in Nat /\ ~(PairAt(n) + 8 <= Len(bytes))
    BY <1>2, PairAtIs
  <2>2. PairWord(bytes, n) = Far
    BY <1>3, <2>1, GetWordIs DEF PairWord
  <2> QED
    BY <1>3, <2>2
<1>5. hits = {k \in 0..(n - 1) : PairWord(bytes, k) = x}
  BY <1>2, <1>4
<1>6. CASE x \notin IndexesIn(entries)
  <2>1. hits = {}
    BY <1>5, <1>6 DEF HasFormat, HasPairs
  <2> QED
    BY <1>1, <1>6, <2>1
<1>7. CASE x \in IndexesIn(entries)
  <2>1. PICK k \in 0..(n - 1) : PairWord(bytes, k) = x
    BY <1>7 DEF HasFormat, HasPairs
  <2>2. hits = {k}
    BY <1>5, <2>1 DEF HasFormat, HasPairs
  <2>3. Min(hits) = k
    <3>1. {k} \subseteq Int /\ k \in {k} /\ \A y \in {k} : k <= y
      OBVIOUS
    <3> QED
      BY <2>2, <3>1, MinIs
  <2>4. n # 0 /\ hits # {}
    BY <2>2
  <2>5. FindIndex(bytes, n, x) = PairAt(k)
    BY <1>1, <2>3, <2>4
  <2> QED
    BY <1>7, <2>1, <2>5
<1> QED
  BY <1>6, <1>7

\* What is written over the header.
LEMMA HeaderIs ==
  ASSUME NEW bytes \in Seq(Byte), NEW size \in Int, NEW total \in Int
  PROVE  LET out == PutHeader(bytes, size, total) IN
         /\ out \in Seq(Byte)
         /\ Len(out) = IF Len(bytes) >= 23 THEN Len(bytes) ELSE 23
         /\ \A k \in 1..8 : out[7 + k] = Word(size)[k] /\ out[15 + k] = Word(total)[k]
         /\ \A k \in 1..Len(bytes) : k <= 7 \/ k >= 24 => out[k] = bytes[k]
<1> DEFINE w == Word(size)
           v == Word(total)
           data == w \o v
           out == Put(bytes, 7, data)
<1>1. w \in Seq(Byte) /\ Len(w) = 8 /\ v \in Seq(Byte) /\ Len(v) = 8
  BY WordIs
<1> HIDE DEF w, v
<1>2. /\ data \in Seq(Byte) /\ Len(data) = 16
      /\ \A k \in 1..16 : data[k] = IF k <= 8 THEN w[k] ELSE v[k - 8]
  <2>1. /\ data \in Seq(Byte) /\ Len(data) = Len(w) + Len(v)
        /\ \A k \in 1..(Len(w) + Len(v)) :
             data[k] = IF k <= Len(w) THEN w[k] ELSE v[k - Len(w)]
    BY <1>1, ConcatProperties
  <2> HIDE DEF data
  <2>2. Len(w) + Len(v) = 16
    BY <1>1
  <2> QED
    BY Zenon, <1>1, <2>1, <2>2
<1> HIDE DEF data
<1>3. /\ out \in Seq(Byte)
      /\ Len(out) = IF Len(bytes) >= 7 + 16 THEN Len(bytes) ELSE 7 + 16
      /\ \A k \in 1..Len(out) :
           out[k] = IF k \in (7 + 1)..(7 + 16) THEN data[k - 7]
                    ELSE IF k <= Len(bytes) THEN bytes[k] ELSE 0
  <2>1. 7 \in Nat
    OBVIOUS
  <2>2. /\ out \in Seq(Byte)
        /\ Len(out) = IF Len(bytes) >= 7 + Len(data) THEN Len(bytes) ELSE 7 + Len(data)
        /\ \A k \in 1..Len(out) :
             out[k] = IF k \in (7 + 1)..(7 + Len(data)) THEN data[k - 7]
                      ELSE IF k <= Len(bytes) THEN bytes[k] ELSE 0
    BY <1>2, <2>1, PutIs
  <2> HIDE DEF out
  <2>3. 7 + Len(data) = 7 + 16
    BY <1>2
  <2> QED
    BY Zenon, <2>2, <2>3
<1> HIDE DEF out
<1>4. Len(out) = (IF Len(bytes) >= 23 THEN Len(bytes) ELSE 23) /\ Len(bytes) \in Nat
  BY <1>3
<1>5. ASSUME NEW k \in 1..8 PROVE out[7 + k] = w[k] /\ out[15 + k] = v[k]
  <2>1. 7 + k \in 1..Len(out) /\ 15 + k \in 1..Len(out)
    BY <1>4
  <2>2. out[7 + k] = data[k]
    BY <1>3, <2>1
  <2>3. out[15 + k] = data[8 + k]
    BY <1>3, <2>1
  <2>4. data[k] = w[k] /\ data[8 + k] = v[k]
    BY <1>2
  <2> QED
    BY <2>2, <2>3, <2>4
<1>6. ASSUME NEW k \in 1..Len(bytes), k <= 7 \/ k >= 24 PROVE out[k] = bytes[k]
  BY <1>3, <1>4, <1>6
<1>7. PutHeader(bytes, size, total) = out
  BY Zenon DEF PutHeader, SizeStart, out, data, w, v
<1> QED
  BY <1>3, <1>4, <1>5, <1>6, <1>7 DEF w, v

\* What the header says then.
LEMMA HeaderSays ==
  ASSUME NEW bytes \in Seq(Byte), Len(bytes) >= 23, NEW size \in Int, NEW total \in Int
  PROVE  LET out == PutHeader(bytes, size, total) IN
         /\ Get(out, 0, SizeStart) = Get(bytes, 0, SizeStart)
         /\ 0 - Limit <= size /\ size < Limit => GetWord(out, SizeStart, 0) = size
         /\ 0 - Limit <= total /\ total < Limit => GetWord(out, TotalStart, 0) = total
<1> DEFINE out == PutHeader(bytes, size, total)
<1>1. /\ out \in Seq(Byte) /\ Len(out) = Len(bytes)
      /\ \A k \in 1..8 : out[7 + k] = Word(size)[k] /\ out[15 + k] = Word(total)[k]
      /\ \A k \in 1..Len(bytes) : k <= 7 \/ k >= 24 => out[k] = bytes[k]
  <2>1. /\ out \in Seq(Byte)
        /\ Len(out) = IF Len(bytes) >= 23 THEN Len(bytes) ELSE 23
        /\ \A k \in 1..8 : out[7 + k] = Word(size)[k] /\ out[15 + k] = Word(total)[k]
        /\ \A k \in 1..Len(bytes) : k <= 7 \/ k >= 24 => out[k] = bytes[k]
    BY HeaderIs
  <2> HIDE DEF out
  <2> QED
    BY Zenon, <2>1
<1> HIDE DEF out
<1>2. Get(out, 0, 7) = Get(bytes, 0, 7)
  <2>1. \A k \in (0 + 1)..(0 + 7) : out[k] = bytes[k]
    <3>1. \A k \in (0 + 1)..(0 + 7) : k \in 1..Len(bytes) /\ k <= 7
      OBVIOUS
    <3> QED
      BY <1>1, <3>1, Zenon
  <2>2. 0 \in Nat /\ 7 \in Nat /\ 0 + 7 <= Len(out) /\ 0 + 7 <= Len(bytes)
    BY <1>1
  <2> QED
    BY <1>1, <2>1, <2>2, SameGet
<1>3. /\ Word(size) \in Seq(Byte) /\ Len(Word(size)) = 8
      /\ Word(total) \in Seq(Byte) /\ Len(Word(total)) = 8
  BY WordIs
<1>4. Get(out, 7, 8) = Word(size)
  <2>1. 7 \in Nat /\ 7 + Len(Word(size)) <= Len(out)
    BY <1>1, <1>3
  <2>2. \A k \in 1..Len(Word(size)) : out[7 + k] = Word(size)[k]
    BY <1>1, <1>3
  <2>3. Get(out, 7, Len(Word(size))) = Word(size)
    BY <1>1, <1>3, <2>1, <2>2, PlacedGet
  <2> QED
    BY <1>3, <2>3
<1>5. Get(out, 15, 8) = Word(total)
  <2>1. 15 \in Nat /\ 15 + Len(Word(total)) <= Len(out)
    BY <1>1, <1>3
  <2>2. \A k \in 1..Len(Word(total)) : out[15 + k] = Word(total)[k]
    BY <1>1, <1>3
  <2>3. Get(out, 15, Len(Word(total))) = Word(total)
    BY <1>1, <1>3, <2>1, <2>2, PlacedGet
  <2> QED
    BY <1>3, <2>3
<1>6. 0 - Limit <= size /\ size < Limit => GetWord(out, 7, 0) = size
  BY <1>3, <1>4, WordHolds DEF GetWord
<1>7. 0 - Limit <= total /\ total < Limit => GetWord(out, 15, 0) = total
  BY <1>3, <1>5, WordHolds DEF GetWord
<1> QED
  BY <1>2, <1>6, <1>7 DEF SizeStart, TotalStart, out

\* A pair that is in two files.
LEMMA SamePart ==
  ASSUME NEW b \in Seq(Byte), NEW c \in Seq(Byte), NEW p \in Nat,
         p + 28 <= Len(b), p + 28 <= Len(c),
         \A j \in (p + 1)..(p + 28) : b[j] = c[j]
  PROVE  Get(b, p, 8) = Get(c, p, 8) /\ Get(b, p + 8, 20) = Get(c, p + 8, 20)
<1>1. Get(b, p, 8) = Get(c, p, 8)
  <2>1. \A j \in (p + 1)..(p + 8) : b[j] = c[j]
    OBVIOUS
  <2>2. p + 8 <= Len(b) /\ p + 8 <= Len(c) /\ 8 \in Nat
    OBVIOUS
  <2> QED
    BY <2>1, <2>2, SameGet
<1>2. Get(b, p + 8, 20) = Get(c, p + 8, 20)
  <2>1. \A j \in (p + 8 + 1)..(p + 8 + 20) : b[j] = c[j]
    OBVIOUS
  <2>2. /\ p + 8 + 20 <= Len(b) /\ p + 8 + 20 <= Len(c)
        /\ 20 \in Nat /\ p + 8 \in Nat
    OBVIOUS
  <2> QED
    BY <2>1, <2>2, SameGet
<1> QED
  BY <1>1, <1>2

\* Two files that agree on the bytes of a pair agree on the pair.
LEMMA SamePair ==
  ASSUME NEW b \in Seq(Byte), NEW c \in Seq(Byte), NEW k \in Nat,
         PairAt(k) + 28 <= Len(b), PairAt(k) + 28 <= Len(c),
         \A j \in (PairAt(k) + 1)..(PairAt(k) + 28) : b[j] = c[j]
  PROVE  PairWord(b, k) = PairWord(c, k) /\ PairHash(b, k) = PairHash(c, k)
<1>1. PairAt(k) \in Nat
  BY PairAtIs
<1>2. /\ Get(b, PairAt(k), 8) = Get(c, PairAt(k), 8)
      /\ Get(b, PairAt(k) + 8, 20) = Get(c, PairAt(k) + 8, 20)
  BY <1>1, SamePart
<1> QED
  BY <1>2 DEF PairWord, PairHash, GetWord, HashLength

\* Three parts in a row.
LEMMA JoinIs ==
  ASSUME NEW a \in Seq(Byte), NEW w \in Seq(Byte), NEW h \in Seq(Byte)
  PROVE  LET body == a \o w \o h IN
         /\ body \in Seq(Byte) /\ Len(body) = Len(a) + Len(w) + Len(h)
         /\ \A k \in 1..Len(a) : body[k] = a[k]
         /\ \A k \in 1..Len(w) : body[Len(a) + k] = w[k]
         /\ \A k \in 1..Len(h) : body[Len(a) + Len(w) + k] = h[k]
<1> DEFINE first == a \o w
           body == first \o h
           len == Len(a)
           m == Len(w)
           n == Len(h)
<1>1. len \in Nat /\ m \in Nat /\ n \in Nat
  OBVIOUS
<1>2. /\ first \in Seq(Byte) /\ Len(first) = len + m
      /\ \A k \in 1..(len + m) :
           first[k] = IF k <= len THEN a[k] ELSE w[k - len]
  BY ConcatProperties
<1> HIDE DEF first
<1>3. /\ body \in Seq(Byte) /\ Len(body) = Len(first) + n
      /\ \A k \in 1..(Len(first) + n) :
           body[k] = IF k <= Len(first) THEN first[k] ELSE h[k - Len(first)]
  <2>1. first \in Seq(Byte)
    BY <1>2
  <2> QED
    BY <2>1, ConcatProperties
<1> HIDE DEF body, len, m, n
<1>4. Len(body) = len + m + n /\ Len(first) = len + m
  BY <1>1, <1>2, <1>3
<1>5. ASSUME NEW k \in 1..len PROVE body[k] = a[k]
  <2> HIDE DEF first
  <2>3. /\ k <= len /\ k \in 1..(len + m)
        /\ k <= Len(first) /\ k \in 1..(Len(first) + n)
    BY <1>1, <1>4
  <2>1. body[k] = first[k]
    BY Zenon, <1>3, <2>3
  <2>2. first[k] = a[k]
    BY Zenon, <1>2, <2>3
  <2> QED
    BY <2>1, <2>2
<1>6. ASSUME NEW k \in 1..m PROVE body[len + k] = w[k]
  <2> DEFINE j == len + k
  <2>1. j \in 1..(len + m) /\ ~(j <= len) /\ j - len = k
    BY <1>1
  <2> HIDE DEF j
  <2>2. body[j] = first[j]
    BY <1>1, <1>3, <1>4, <2>1
  <2>3. first[j] = w[k]
    BY <1>2, <2>1
  <2> QED
    BY <2>2, <2>3 DEF j
<1>7. ASSUME NEW k \in 1..n PROVE body[len + m + k] = h[k]
  <2> DEFINE j == len + m + k
  <2>1. j \in 1..(len + m + n) /\ ~(j <= len + m) /\ j - (len + m) = k
    BY <1>1
  <2> HIDE DEF j
  <2>2. body[j] = h[k]
    BY <1>1, <1>3, <1>4, <2>1
  <2> QED
    BY <2>2 DEF j
<1> QED
  BY <1>3, <1>4, <1>5, <1>6, <1>7 DEF first, body, len, m, n

\* A pair that is added.
LEMMA AddedPair ==
  ASSUME NEW bytes \in Seq(Byte), NEW x \in Indexes, NEW b \in Blocks
  PROVE  LET body == bytes \o Word(x) \o HashOf(b)
             len == Len(bytes) IN
         /\ body \in Seq(Byte) /\ Len(body) = len + 28
         /\ \A k \in 1..len : body[k] = bytes[k]
         /\ \A k \in 1..8 : body[len + k] = Word(x)[k]
         /\ \A k \in 1..20 : body[len + 8 + k] = HashOf(b)[k]
<1>1. /\ Word(x) \in Seq(Byte) /\ Len(Word(x)) = 8
      /\ HashOf(b) \in Seq(Byte) /\ Len(HashOf(b)) = 20
  BY WordIs, HashIs, BytesAssumption, LimitIs DEF HashLength
<1> DEFINE body == bytes \o Word(x) \o HashOf(b)
<1>2. /\ body \in Seq(Byte)
      /\ Len(body) = Len(bytes) + Len(Word(x)) + Len(HashOf(b))
      /\ \A k \in 1..Len(bytes) : body[k] = bytes[k]
      /\ \A k \in 1..Len(Word(x)) : body[Len(bytes) + k] = Word(x)[k]
      /\ \A k \in 1..Len(HashOf(b)) :
           body[Len(bytes) + Len(Word(x)) + k] = HashOf(b)[k]
  <2>1. Word(x) \in Seq(Byte) /\ HashOf(b) \in Seq(Byte)
    BY <1>1
  <2> QED
    BY <2>1, JoinIs
<1> HIDE DEF body
<1>3. Len(body) = Len(bytes) + 28
  BY <1>1, <1>2
<1> QED
  BY <1>1, <1>2, <1>3 DEF body

\* The file that bb_mknod makes.
LEMMA NewFileIs ==
  /\ NewFile \in Seq(Byte) /\ Len(NewFile) = 23
  /\ HasFormat(NewFile, <<>>, 0)
  /\ GetWord(NewFile, SizeStart, 0) = 0
<1> DEFINE z == Word(0)
<1>1. z \in Seq(Byte) /\ Len(z) = 8 /\ Value(z) = 0
  <2>1. 0 \in Int /\ 0 - Limit <= 0 /\ 0 < Limit
    BY DEF Limit
  <2> QED
    BY <2>1, WordIs, WordHolds
<1> HIDE DEF z
<1>2. Magic \in Seq(Byte) /\ Len(Magic) = 7
  BY DEF Magic, Byte
<1> DEFINE file == Magic \o z \o z
<1>3. /\ file \in Seq(Byte)
      /\ Len(file) = Len(Magic) + Len(z) + Len(z)
      /\ \A k \in 1..Len(Magic) : file[k] = Magic[k]
      /\ \A k \in 1..Len(z) : file[Len(Magic) + k] = z[k]
      /\ \A k \in 1..Len(z) : file[Len(Magic) + Len(z) + k] = z[k]
  <2>1. Magic \in Seq(Byte) /\ z \in Seq(Byte)
    BY <1>1, <1>2
  <2> QED
    BY <2>1, JoinIs
<1> HIDE DEF file
<1>4. /\ Len(file) = 23
      /\ \A k \in 1..7 : file[k] = Magic[k]
      /\ \A k \in 1..8 : file[7 + k] = z[k] /\ file[15 + k] = z[k]
  BY <1>1, <1>2, <1>3
<1>5. Get(file, 0, 7) = Magic
  <2>1. ASSUME NEW k \in 1..Len(Magic) PROVE file[0 + k] = Magic[k]
    <3>1. 0 + k = k /\ k \in 1..7
      BY <1>2
    <3> QED
      BY <1>4, <3>1
  <2>2. 0 \in Nat /\ 0 + Len(Magic) <= Len(file)
    BY <1>2, <1>4
  <2>3. Get(file, 0, Len(Magic)) = Magic
    BY <1>2, <1>3, <2>1, <2>2, PlacedGet
  <2> QED
    BY <1>2, <2>3
<1>6. Get(file, 7, 8) = z /\ Get(file, 15, 8) = z
  <2>1. 7 \in Nat /\ 15 \in Nat /\ 7 + Len(z) <= Len(file) /\ 15 + Len(z) <= Len(file)
    BY <1>1, <1>4
  <2>2. \A k \in 1..Len(z) : file[7 + k] = z[k] /\ file[15 + k] = z[k]
    BY <1>1, <1>4
  <2>3. Get(file, 7, Len(z)) = z
    BY <1>1, <1>3, <2>1, <2>2, PlacedGet
  <2>4. Get(file, 15, Len(z)) = z
    BY <1>1, <1>3, <2>1, <2>2, PlacedGet
  <2> QED
    BY <1>1, <2>3, <2>4
<1>7. GetWord(file, 7, 0) = 0 /\ GetWord(file, 15, 0) = 0
  BY <1>1, <1>6 DEF GetWord
<1>8. IndexesIn(<<>>) = {}
  BY DEF IndexesIn
<1>9. Len(file) = PairAt(0) /\ 0..(0 - 1) = {}
  BY <1>4, PairAtIs
<1>10. HasFormat(file, <<>>, 0)
  BY <1>5, <1>7, <1>8, <1>9 DEF HasFormat, HasPairs, SizeStart, TotalStart
<1> QED
  BY <1>3, <1>4, <1>7, <1>10 DEF NewFile, file, z, SizeStart

SlotType == [ino : Inodes \cup {None}, size : Int, total : Int]

\* The numbers of a slot are set.
LEMMA SlotSet ==
  ASSUME NEW slot \in SlotType, NEW size, NEW total
  PROVE  [slot EXCEPT !.size = size, !.total = total]
           = [ino |-> slot.ino, size |-> size, total |-> total]
<1> DEFINE first == [slot EXCEPT !.size = size]
<1>1. first = [ino |-> slot.ino, size |-> size, total |-> slot.total]
  BY DEF SlotType
<1> HIDE DEF first
<1>2. [first EXCEPT !.total = total] = [ino |-> slot.ino, size |-> size, total |-> total]
  BY <1>1
<1> QED
  BY <1>2 DEF first

\* What block_get_size finds is a number.
LEMMA BlockSizeIs ==
  /\ \A hash : BlockGetSize(hash) \in Int
  /\ \A c \in Blocks : BlockGetSize(HashOf(c)) = 8 + c
<1>1. ASSUME NEW hash PROVE BlockGetSize(hash) \in Int
  <2>1. CASE \E b \in Blocks : hash = HashOf(b)
    <3> DEFINE c == CHOOSE b \in Blocks : hash = HashOf(b)
    <3>1. c \in Blocks
      BY <2>1
    <3>3. BlockGetSize(hash) = RefSize + c
      BY <2>1 DEF BlockGetSize
    <3> HIDE DEF c
    <3>2. c \in Int
      BY <3>1, BytesAssumption
    <3> QED
      BY <3>2, <3>3 DEF RefSize
  <2>2. CASE ~\E b \in Blocks : hash = HashOf(b)
    BY <2>2 DEF BlockGetSize
  <2> QED
    BY <2>1, <2>2
<1>2. ASSUME NEW c \in Blocks PROVE BlockGetSize(HashOf(c)) = 8 + c
  <2>1. (CHOOSE b \in Blocks : HashOf(c) = HashOf(b)) = c
    BY HashIs
  <2> QED
    BY <2>1 DEF BlockGetSize, RefSize
<1> QED
  BY <1>1, <1>2

\* A block is registered in any file, one that was cut too.
LEMMA RegisteredType ==
  ASSUME NEW bytes \in Seq(Byte), NEW slot \in SlotType, NEW x \in Indexes,
         NEW b \in Blocks, NEW landing
  PROVE  LET after == Registered(bytes, slot, x, b, landing) IN
         /\ after.bytes \in Seq(Byte)
         /\ after.slot \in SlotType /\ after.slot.ino = slot.ino
<1> DEFINE pos == FindIndex(bytes, slot.total, x)
           old == Get(bytes, pos + 8, HashLength)
           rest == SubSeq(HashOf(b), Len(old) + 1, HashLength)
           hash == old \o rest
           size == slot.size + b - IF pos = -1 THEN 0 ELSE BlockGetSize(hash)
           total == slot.total + IF pos = -1 THEN 1 ELSE 0
           at == pos + 8 + Len(old) - HashLength + IF landing = "far" THEN Wrap ELSE 0
           body == IF pos = -1 THEN bytes \o Word(x) \o HashOf(b)
                   ELSE Put(bytes, at, hash)
<1>1. slot.size \in Int /\ slot.total \in Int /\ x \in Int /\ b \in Int
  BY BytesAssumption, LimitIs DEF SlotType
<1>2. pos = -1 \/ (pos \in Nat /\ pos >= 23)
  BY <1>1, FindType
<1> HIDE DEF pos
<1>3. pos \in Int /\ pos + 8 \in Nat /\ HashLength \in Nat /\ HashLength = 20
  BY <1>2 DEF HashLength
<1>4. old \in Seq(Byte) /\ Len(old) \in Nat
  <2>1. pos + 8 \in Nat /\ HashLength \in Nat
    BY <1>3
  <2>2. old \in Seq(Byte)
    BY <2>1, GetIs
  <2> HIDE DEF old
  <2> QED
    BY <2>2
<1>5. HashOf(b) \in Seq(Byte) /\ Len(HashOf(b)) = HashLength
  BY HashIs
<1> HIDE DEF old
<1>6. rest \in Seq(Byte)
  <2>1. ASSUME NEW k \in (Len(old) + 1)..HashLength PROVE HashOf(b)[k] \in Byte
    <3>1. k \in 1..HashLength
      BY <1>3, <1>4
    <3> QED
      BY <1>5, <3>1
  <2>2. Len(old) + 1 \in Int /\ HashLength \in Int
    BY <1>3, <1>4
  <2> QED
    BY <2>1, <2>2, SubSeqProperties
<1> HIDE DEF rest
<1>7. hash \in Seq(Byte)
  BY <1>4, <1>6
<1> HIDE DEF hash
<1>8. size \in Int
  BY <1>1, BlockSizeIs
<1>9. total \in Int
  BY <1>1
<1>10. body \in Seq(Byte)
  <2>1. CASE pos = -1
    BY <2>1, AddedPair
  <2>2. CASE pos # -1
    <3>1. at \in Nat
      BY <1>2, <1>3, <1>4, <2>2, WrapAssumption
    <3> HIDE DEF at
    <3>2. Put(bytes, at, hash) \in Seq(Byte)
      BY <1>7, <3>1, PutIs
    <3> QED
      BY <2>2, <3>2
  <2> QED
    BY <2>1, <2>2
<1> HIDE DEF size, total, body
<1>11. PutHeader(body, size, total) \in Seq(Byte)
  BY <1>8, <1>9, <1>10, HeaderIs
<1>12. Registered(bytes, slot, x, b, landing) =
         [bytes |-> PutHeader(body, size, total),
          slot |-> [slot EXCEPT !.size = size, !.total = total],
          moved |-> pos # -1 /\ at # pos + 8]
  BY DEF Registered, body, size, total, hash, rest, old, pos
<1> DEFINE next == [slot EXCEPT !.size = size, !.total = total]
<1>13. next \in SlotType /\ next.ino = slot.ino
  BY <1>8, <1>9 DEF SlotType
<1> HIDE DEF next
<1>14. /\ Registered(bytes, slot, x, b, landing).bytes = PutHeader(body, size, total)
       /\ Registered(bytes, slot, x, b, landing).slot = next
  BY <1>12 DEF next
<1> QED
  BY <1>11, <1>13, <1>14

\* The pairs stay when the header is written.
LEMMA HeaderPairs ==
  ASSUME NEW bytes \in Seq(Byte), NEW entries, NEW n \in Nat,
         HasPairs(bytes, entries, n), NEW size \in Int, NEW total \in Int
  PROVE  HasPairs(PutHeader(bytes, size, total), entries, n)
<1> DEFINE out == PutHeader(bytes, size, total)
<1>1. Len(bytes) = PairAt(n) /\ PairAt(n) = 23 + 28 * n
  BY PairAtIs DEF HasPairs
<1>2. /\ out \in Seq(Byte) /\ Len(out) = Len(bytes)
      /\ \A k \in 1..Len(bytes) : k <= 7 \/ k >= 24 => out[k] = bytes[k]
  <2>1. /\ out \in Seq(Byte) /\ Len(out) = IF Len(bytes) >= 23 THEN Len(bytes) ELSE 23
        /\ \A k \in 1..Len(bytes) : k <= 7 \/ k >= 24 => out[k] = bytes[k]
    BY HeaderIs
  <2> HIDE DEF out
  <2> QED
    BY <1>1, <2>1
<1> HIDE DEF out
<1>3. ASSUME NEW k \in 0..(n - 1)
      PROVE  PairWord(out, k) = PairWord(bytes, k) /\ PairHash(out, k) = PairHash(bytes, k)
  <2>1. k \in Nat /\ PairAt(k) = 23 + 28 * k
    BY PairAtIs
  <2>2. PairAt(k) + 28 <= Len(bytes) /\ PairAt(k) + 28 <= Len(out)
    BY <1>1, <1>2, <2>1
  <2>3. \A j \in (PairAt(k) + 1)..(PairAt(k) + 28) : out[j] = bytes[j]
    BY <1>2, <2>1, <2>2
  <2> QED
    BY <1>2, <2>1, <2>2, <2>3, SamePair
<1>4. HasPairs(out, entries, n)
  BY <1>1, <1>2, <1>3 DEF HasPairs
<1> QED
  BY <1>4 DEF out

\* Where the file had a whole number of pairs, it is the next one.
LEMMA AddedAt ==
  ASSUME NEW bytes \in Seq(Byte), NEW n \in Nat, Len(bytes) = PairAt(n),
         NEW x \in Indexes, NEW b \in Blocks
  PROVE  LET body == bytes \o Word(x) \o HashOf(b) IN
         PairWord(body, n) = x /\ PairHash(body, n) = HashOf(b)
<1> DEFINE body == bytes \o Word(x) \o HashOf(b)
           len == Len(bytes)
<1>1. len = PairAt(n) /\ len \in Nat
  OBVIOUS
<1>2. /\ body \in Seq(Byte) /\ Len(body) = len + 28
      /\ \A k \in 1..8 : body[len + k] = Word(x)[k]
      /\ \A k \in 1..20 : body[len + 8 + k] = HashOf(b)[k]
  BY AddedPair
<1> HIDE DEF body, len
<1>3. PairWord(body, n) = x
  <2>1. x \in Int /\ 0 - Limit <= x /\ x < Limit
    BY IndexIs
  <2>2. Word(x) \in Seq(Byte) /\ Len(Word(x)) = 8 /\ Value(Word(x)) = x
    BY <2>1, WordIs, WordHolds
  <2>3. len \in Nat /\ len + Len(Word(x)) <= Len(body)
    <3>1. len \in Nat /\ len + 8 <= len + 28
      BY <1>1
    <3>2. Len(Word(x)) = 8 /\ Len(body) = len + 28
      BY <1>2, <2>2
    <3> QED
      BY <3>1, <3>2
  <2>4. \A k \in 1..Len(Word(x)) : body[len + k] = Word(x)[k]
    BY <1>2, <2>2
  <2>5. Get(body, len, Len(Word(x))) = Word(x)
    BY <1>2, <2>2, <2>3, <2>4, PlacedGet
  <2> QED
    BY <1>1, <2>2, <2>5 DEF PairWord, GetWord
<1>4. PairHash(body, n) = HashOf(b)
  <2>1. HashOf(b) \in Seq(Byte) /\ Len(HashOf(b)) = 20
    BY HashIs DEF HashLength
  <2>2. len + 8 \in Nat /\ len + 8 + Len(HashOf(b)) <= Len(body)
    <3>1. len + 8 \in Nat /\ len + 8 + 20 <= len + 28
      BY <1>1
    <3> QED
      BY <1>2, <2>1, <3>1
  <2>3. \A k \in 1..Len(HashOf(b)) : body[len + 8 + k] = HashOf(b)[k]
    BY <1>2, <2>1
  <2>4. Get(body, len + 8, Len(HashOf(b))) = HashOf(b)
    BY <1>2, <2>1, <2>2, <2>3, PlacedGet
  <2> QED
    BY <1>1, <2>1, <2>4 DEF PairHash, HashLength
<1> QED
  BY <1>3, <1>4 DEF body

\* A pair is added for a new index.
LEMMA AddedPairs ==
  ASSUME NEW bytes \in Seq(Byte), NEW entries \in Seq(EntryType), NEW n \in Nat,
         HasPairs(bytes, entries, n),
         NEW x \in Indexes, x \notin IndexesIn(entries), NEW b \in Blocks
  PROVE  HasPairs(bytes \o Word(x) \o HashOf(b),
                  Append(entries, [index |-> x, block |-> b]), n + 1)
<1> DEFINE body == bytes \o Word(x) \o HashOf(b)
           next == Append(entries, [index |-> x, block |-> b])
           len == Len(bytes)
<1>1. /\ len = PairAt(n) /\ PairAt(n) = 23 + 28 * n /\ len \in Nat
      /\ PairAt(n + 1) = 23 + 28 * (n + 1)
  BY PairAtIs DEF HasPairs
<1>2. /\ body \in Seq(Byte) /\ Len(body) = len + 28
      /\ \A k \in 1..len : body[k] = bytes[k]
      /\ \A k \in 1..8 : body[len + k] = Word(x)[k]
      /\ \A k \in 1..20 : body[len + 8 + k] = HashOf(b)[k]
  BY AddedPair
<1> HIDE DEF body
<1>3. /\ IndexesIn(next) = IndexesIn(entries) \cup {x}
      /\ \A y \in IndexesIn(entries) : FirstIn(next, y) = FirstIn(entries, y)
      /\ FirstIn(next, x) = b
  BY AppendEntry
<1> HIDE DEF next
<1>4. ASSUME NEW k \in 0..(n - 1)
      PROVE  PairWord(body, k) = PairWord(bytes, k) /\ PairHash(body, k) = PairHash(bytes, k)
  <2>1. k \in Nat /\ PairAt(k) = 23 + 28 * k
    BY PairAtIs
  <2>2. PairAt(k) + 28 <= Len(bytes) /\ PairAt(k) + 28 <= Len(body)
    BY <1>1, <1>2, <2>1
  <2>3. \A j \in (PairAt(k) + 1)..(PairAt(k) + 28) : body[j] = bytes[j]
    <3>1. \A j \in (PairAt(k) + 1)..(PairAt(k) + 28) : j \in 1..len
      BY <1>1, <2>1, <2>2
    <3> QED
      BY <1>2, <3>1
  <2> QED
    BY <1>2, <2>1, <2>2, <2>3, SamePair
<1> HIDE DEF len
<1>5. PairWord(body, n) = x /\ PairHash(body, n) = HashOf(b)
  BY <1>1, AddedAt DEF len, body
<1>6. 0..(n + 1 - 1) = 0..(n - 1) \cup {n} /\ n \notin 0..(n - 1)
  OBVIOUS
<1>7. \A k \in 0..(n - 1) : PairWord(body, k) \in IndexesIn(entries) /\ PairWord(body, k) # x
  BY <1>4 DEF HasPairs
<1>8. \A k \in 0..(n + 1 - 1) :
        /\ PairWord(body, k) \in IndexesIn(next)
        /\ PairHash(body, k) = HashOf(FirstIn(next, PairWord(body, k)))
  <2>1. ASSUME NEW k \in 0..(n - 1)
        PROVE  PairHash(body, k) = HashOf(FirstIn(next, PairWord(body, k)))
    BY <1>3, <1>4, <1>7 DEF HasPairs
  <2> QED
    BY <1>3, <1>5, <1>6, <1>7, <2>1
<1>9. \A y \in IndexesIn(next) : \E k \in 0..(n + 1 - 1) : PairWord(body, k) = y
  <2>1. ASSUME NEW y \in IndexesIn(entries)
        PROVE  \E k \in 0..(n + 1 - 1) : PairWord(body, k) = y
    BY <1>4, <1>6 DEF HasPairs
  <2> QED
    BY <1>3, <1>5, <1>6, <2>1
<1>10. \A j, k \in 0..(n + 1 - 1) : PairWord(body, j) = PairWord(body, k) => j = k
  <2>1. \A j, k \in 0..(n - 1) : PairWord(body, j) = PairWord(body, k) => j = k
    BY <1>4 DEF HasPairs
  <2> QED
    BY <1>5, <1>6, <1>7, <2>1
<1>11. Len(body) = PairAt(n + 1)
  BY <1>1, <1>2
<1>12. HasPairs(body, next, n + 1)
  BY <1>8, <1>9, <1>10, <1>11 DEF HasPairs
<1> QED
  BY <1>12 DEF body, next

\* The pairs of an index that is there are left alone.
LEMMA KeptPairs ==
  ASSUME NEW bytes \in Seq(Byte), NEW entries \in Seq(EntryType), NEW n \in Nat,
         HasPairs(bytes, entries, n), NEW x \in IndexesIn(entries), x \in Indexes,
         NEW b \in Blocks
  PROVE  HasPairs(bytes, Append(entries, [index |-> x, block |-> b]), n)
<1> DEFINE next == Append(entries, [index |-> x, block |-> b])
<1>1. /\ IndexesIn(next) = IndexesIn(entries) \cup {x}
      /\ \A y \in IndexesIn(entries) : FirstIn(next, y) = FirstIn(entries, y)
  BY AppendEntry
<1> HIDE DEF next
<1>2. IndexesIn(next) = IndexesIn(entries)
  BY <1>1
<1>3. HasPairs(bytes, next, n)
  BY <1>1, <1>2 DEF HasPairs
<1> QED
  BY <1>3 DEF next

\* A part of a file that is written again as it was.
LEMMA RewriteIs ==
  ASSUME NEW bytes \in Seq(Byte), NEW pos \in Nat, NEW n \in Nat, pos + n <= Len(bytes)
  PROVE  Put(bytes, pos, Get(bytes, pos, n)) = bytes
<1> DEFINE data == Get(bytes, pos, n)
           out == Put(bytes, pos, data)
<1>1. data \in Seq(Byte) /\ Len(data) = n /\ \A k \in 1..n : data[k] = bytes[pos + k]
  BY GetIs
<1> HIDE DEF data
<1>2. /\ out \in Seq(Byte) /\ Len(out) = Len(bytes)
      /\ \A k \in 1..Len(out) :
           out[k] = IF k \in (pos + 1)..(pos + n) THEN data[k - pos]
                    ELSE IF k <= Len(bytes) THEN bytes[k] ELSE 0
  <2>1. /\ out \in Seq(Byte)
        /\ Len(out) = IF Len(bytes) >= pos + Len(data) THEN Len(bytes) ELSE pos + Len(data)
        /\ \A k \in 1..Len(out) :
             out[k] = IF k \in (pos + 1)..(pos + Len(data)) THEN data[k - pos]
                      ELSE IF k <= Len(bytes) THEN bytes[k] ELSE 0
    BY <1>1, PutIs
  <2> HIDE DEF out
  <2> QED
    BY <1>1, <2>1
<1> HIDE DEF out
<1>3. ASSUME NEW k \in 1..Len(bytes) PROVE out[k] = bytes[k]
  <2>1. CASE k \in (pos + 1)..(pos + n)
    <3> DEFINE j == k - pos
    <3>1. j \in 1..n /\ pos + j = k
      BY <2>1
    <3>2. out[k] = data[j]
      BY <1>2, <2>1
    <3> HIDE DEF j
    <3> QED
      BY <1>1, <3>1, <3>2
  <2>2. CASE k \notin (pos + 1)..(pos + n)
    BY <1>2, <2>2
  <2> QED
    BY <2>1, <2>2
<1>4. out = bytes
  BY <1>2, <1>3
<1> QED
  BY <1>4 DEF out, data

\* cfs_file_register_block where the search finds nothing.
LEMMA RegisteredAdd ==
  ASSUME NEW bytes, NEW slot \in SlotType, NEW x \in Indexes, NEW b \in Blocks,
         NEW landing, FindIndex(bytes, slot.total, x) = -1
  PROVE  LET after == Registered(bytes, slot, x, b, landing) IN
         /\ after.bytes =
              PutHeader(bytes \o Word(x) \o HashOf(b), slot.size + b, slot.total + 1)
         /\ after.slot.size = slot.size + b /\ after.slot.total = slot.total + 1
<1> DEFINE size == slot.size + b
           total == slot.total + 1
<1>1. size \in Int /\ total \in Int /\ size = slot.size + b - 0
  BY BytesAssumption DEF SlotType
<1>2. /\ Registered(bytes, slot, x, b, landing).bytes =
           PutHeader(bytes \o Word(x) \o HashOf(b), size, total)
      /\ Registered(bytes, slot, x, b, landing).slot = [slot EXCEPT !.size = size, !.total = total]
  <2> HIDE DEF size
  <2> QED
    BY <1>1 DEF Registered
<1> HIDE DEF size, total
<1>3. /\ Registered(bytes, slot, x, b, landing).slot.size = size
      /\ Registered(bytes, slot, x, b, landing).slot.total = total
  <2>1. Registered(bytes, slot, x, b, landing).slot = [ino |-> slot.ino, size |-> size, total |-> total]
    BY <1>2, SlotSet
  <2> QED
    BY <2>1
<1> QED
  BY <1>2, <1>3 DEF size, total

\* Where it finds a pair, and does not put its hash elsewhere: the pair is all
\* there, and the seek went back.
LEMMA RegisteredInPlace ==
  ASSUME NEW bytes \in Seq(Byte), NEW slot, NEW x, NEW b, NEW landing,
         NEW pos \in Nat, FindIndex(bytes, slot.total, x) = pos
  PROVE  LET old == Get(bytes, pos + 8, HashLength) IN
         /\ ~Registered(bytes, slot, x, b, landing).moved =>
              landing # "far" /\ Len(old) = HashLength /\ pos + 28 <= Len(bytes)
         /\ landing # "far" /\ pos + 28 <= Len(bytes) =>
              ~Registered(bytes, slot, x, b, landing).moved
<1> DEFINE m == Registered(bytes, slot, x, b, landing).moved
           found == FindIndex(bytes, slot.total, x)
           old == Get(bytes, pos + 8, HashLength)
           n == Len(old)
           shift == IF landing = "far" THEN Wrap ELSE 0
           elsewhere == pos # -1 /\ pos + 8 + n - HashLength + shift # pos + 8
<1>1. m = (found # -1 /\ found + 8 + Len(Get(bytes, found + 8, HashLength))
                          - HashLength + shift # found + 8)
  BY Zenon DEF Registered
<1>2. m = elsewhere
  BY <1>1, Zenon
<1>3. /\ HashLength = 20 /\ n \in Nat
      /\ n = IF pos + 8 + 20 <= Len(bytes) THEN 20
             ELSE IF pos + 8 <= Len(bytes) THEN Len(bytes) - (pos + 8) ELSE 0
  <2>1. HashLength = 20 /\ HashLength \in Nat /\ pos + 8 \in Nat
    BY DEF HashLength
  <2>2. /\ old \in Seq(Byte)
        /\ n = IF pos + 8 + HashLength <= Len(bytes) THEN HashLength
               ELSE IF pos + 8 <= Len(bytes) THEN Len(bytes) - (pos + 8) ELSE 0
    BY <2>1, GetIs
  <2> HIDE DEF old
  <2>3. n \in Nat
    BY <2>2
  <2> HIDE DEF n
  <2> QED
    BY <2>1, <2>2, <2>3, Zenon
<1>4. shift \in Nat /\ (IF landing = "far" THEN shift > 28 ELSE shift = 0)
  BY WrapAssumption
<1>5. Len(bytes) \in Nat
  OBVIOUS
<1> HIDE DEF m, n, shift, old
<1>6. elsewhere <=> n + shift # 20
  <2>1. n \in Int /\ shift \in Int /\ pos \in Int /\ pos # -1
    BY <1>3, <1>4
  <2>2. pos + 8 + n - 20 + shift # pos + 8 <=> n + shift # 20
    BY <2>1
  <2>3. elsewhere <=> pos + 8 + n - 20 + shift # pos + 8
    BY <1>3, <2>1, Zenon
  <2> QED
    BY <2>2, <2>3, Zenon
<1> HIDE DEF elsewhere
<1>7. ~elsewhere => landing # "far" /\ n = HashLength /\ pos + 28 <= Len(bytes)
  BY <1>3, <1>4, <1>5, <1>6
<1>8. landing # "far" /\ pos + 28 <= Len(bytes) => ~elsewhere
  BY <1>3, <1>4, <1>5, <1>6
<1> QED
  BY <1>2, <1>7, <1>8, Zenon DEF m, n, old

\* Then it stays, and the header changes.
LEMMA RegisteredAt ==
  ASSUME NEW bytes \in Seq(Byte), NEW slot \in SlotType, NEW x \in Indexes,
         NEW b \in Blocks, NEW landing,
         NEW pos \in Nat, FindIndex(bytes, slot.total, x) = pos,
         ~Registered(bytes, slot, x, b, landing).moved
  PROVE  LET after == Registered(bytes, slot, x, b, landing)
             size == slot.size + b - BlockGetSize(Get(bytes, pos + 8, HashLength)) IN
         /\ pos + 28 <= Len(bytes)
         /\ after.bytes = PutHeader(bytes, size, slot.total)
         /\ after.slot.size = size /\ after.slot.total = slot.total
<1> DEFINE found == FindIndex(bytes, slot.total, x)
           was == Get(bytes, found + 8, HashLength)
           full == was \o SubSeq(HashOf(b), Len(was) + 1, HashLength)
           sum == slot.size + b - IF found = -1 THEN 0 ELSE BlockGetSize(full)
           count == slot.total + IF found = -1 THEN 1 ELSE 0
           shift == IF landing = "far" THEN Wrap ELSE 0
           at == found + 8 + Len(was) - HashLength + shift
           file == IF found = -1 THEN bytes \o Word(x) \o HashOf(b)
                   ELSE Put(bytes, at, full)
<1>1. Registered(bytes, slot, x, b, landing) =
        [bytes |-> PutHeader(file, sum, count),
         slot |-> [slot EXCEPT !.size = sum, !.total = count],
         moved |-> found # -1 /\ at # found + 8]
  BY DEF Registered
<1> HIDE DEF found
<1>2. found = pos /\ found # -1
  BY DEF found
<1> DEFINE old == Get(bytes, pos + 8, HashLength)
           size == slot.size + b - BlockGetSize(old)
<1>3. pos + 8 \in Nat /\ HashLength \in Nat /\ HashLength = 20
  BY DEF HashLength
<1>4. /\ old \in Seq(Byte) /\ Len(old) = HashLength
      /\ pos + 8 + HashLength <= Len(bytes) /\ shift = 0
  <2>1. landing # "far" /\ Len(old) = HashLength /\ pos + 28 <= Len(bytes)
    BY RegisteredInPlace
  <2>2. old \in Seq(Byte)
    BY <1>3, GetIs
  <2> HIDE DEF old
  <2>3. pos + 8 + HashLength = pos + 28
    BY <1>3
  <2> QED
    BY <2>1, <2>2, <2>3
<1>5. was = old
  BY <1>2
<1> HIDE DEF was, old, shift
<1>6. full = old
  <2> DEFINE rest == SubSeq(HashOf(b), Len(old) + 1, HashLength)
  <2>1. Len(old) + 1 \in Int /\ HashLength \in Int /\ HashLength < Len(old) + 1
    BY <1>3, <1>4
  <2>2. rest = <<>>
    BY <2>1, SubSeqEmpty
  <2> HIDE DEF rest
  <2>3. old \o <<>> = old
    BY <1>4
  <2> QED
    BY <1>5, <2>2, <2>3 DEF rest
<1> HIDE DEF full
<1>7. file = bytes
  <2>1. Len(was) = HashLength
    BY <1>4, <1>5, Zenon
  <2>2. at = pos + 8
    <3> HIDE DEF file, sum, count, size
    <3>1. at = pos + 8 + HashLength - HashLength + 0
      BY <1>2, <1>4, <2>1, Zenon
    <3> HIDE DEF at
    <3> QED
      BY <1>3, <3>1
  <2> HIDE DEF at
  <2>3. file = Put(bytes, pos + 8, old)
    BY <1>2, <1>6, <2>2
  <2>4. Put(bytes, pos + 8, old) = bytes
    BY <1>3, <1>4, RewriteIs DEF old
  <2> QED
    BY <2>3, <2>4
<1>8. sum = size
  BY <1>2, <1>6
<1>9. count = slot.total /\ slot.total \in Int
  BY <1>2 DEF SlotType
<1>10. size \in Int
  <2>1. BlockGetSize(old) \in Int /\ slot.size \in Int /\ b \in Int
    BY BlockSizeIs, BytesAssumption DEF SlotType
  <2> QED
    BY <2>1
<1> HIDE DEF file, sum, count, size
<1>11. /\ Registered(bytes, slot, x, b, landing).bytes = PutHeader(bytes, size, slot.total)
       /\ Registered(bytes, slot, x, b, landing).slot =
            [slot EXCEPT !.size = size, !.total = slot.total]
  BY <1>1, <1>7, <1>8, <1>9
<1>12. /\ Registered(bytes, slot, x, b, landing).slot.size = size
       /\ Registered(bytes, slot, x, b, landing).slot.total = slot.total
  <2>1. [slot EXCEPT !.size = size, !.total = slot.total]
          = [ino |-> slot.ino, size |-> size, total |-> slot.total]
    BY SlotSet, Zenon
  <2>2. Registered(bytes, slot, x, b, landing).slot =
          [ino |-> slot.ino, size |-> size, total |-> slot.total]
    BY <1>11, <2>1, Zenon
  <2> QED
    BY <2>2
<1>13. pos + 28 <= Len(bytes)
  BY <1>3, <1>4
<1> QED
  BY <1>11, <1>12, <1>13 DEF size, old

\* A block is registered at a new index.
LEMMA RegisteredNew ==
  ASSUME NEW bytes \in Seq(Byte), NEW entries \in Seq(EntryType), NEW n \in Nat,
         HasFormat(bytes, entries, n), n + 1 < Limit,
         NEW slot \in SlotType, slot.total = n,
         0 - Limit <= slot.size, slot.size + 5 < Limit,
         NEW x \in Indexes, x \notin IndexesIn(entries), NEW b \in Blocks, NEW landing
  PROVE  LET after == Registered(bytes, slot, x, b, landing) IN
         /\ HasFormat(after.bytes, Append(entries, [index |-> x, block |-> b]), n + 1)
         /\ after.slot.size = slot.size + b /\ after.slot.total = n + 1
         /\ GetWord(after.bytes, SizeStart, 0) = slot.size + b
<1> DEFINE size == slot.size + b
           body == bytes \o Word(x) \o HashOf(b)
           next == Append(entries, [index |-> x, block |-> b])
           out == PutHeader(body, size, n + 1)
<1>1. size \in Int /\ n + 1 \in Int /\ 0 - Limit <= size /\ size < Limit /\ 0 - Limit <= n + 1
  <2>1. slot.size \in Int /\ b \in 1..5
    BY BytesAssumption DEF SlotType
  <2> QED
    BY <2>1, LimitIs
<1>2. FindIndex(bytes, slot.total, x) = -1
  BY FindIs
<1>3. /\ Registered(bytes, slot, x, b, landing).bytes = out
      /\ Registered(bytes, slot, x, b, landing).slot.size = size
      /\ Registered(bytes, slot, x, b, landing).slot.total = n + 1
  BY <1>2, RegisteredAdd
<1>4. body \in Seq(Byte) /\ Len(body) = Len(bytes) + 28 /\ \A k \in 1..Len(bytes) : body[k] = bytes[k]
  BY AddedPair
<1>5. HasPairs(body, next, n + 1)
  BY AddedPairs DEF HasFormat
<1> HIDE DEF size, body, next
<1>6. Len(bytes) \in Nat /\ Len(bytes) >= 23
  BY PairAtIs DEF HasFormat, HasPairs
<1>7. Len(body) >= 23
  BY <1>4, <1>6
<1>8. HasPairs(out, next, n + 1)
  <2>1. n + 1 \in Nat
    OBVIOUS
  <2> QED
    BY <1>1, <1>4, <1>5, <2>1, HeaderPairs
<1>9. /\ Get(out, 0, SizeStart) = Get(body, 0, SizeStart)
      /\ GetWord(out, SizeStart, 0) = size
      /\ GetWord(out, TotalStart, 0) = n + 1
  BY <1>1, <1>4, <1>7, HeaderSays
<1> HIDE DEF out
<1>10. Get(body, 0, SizeStart) = Get(bytes, 0, SizeStart)
  <2>1. \A k \in (0 + 1)..(0 + 7) : k \in 1..Len(bytes)
    BY <1>6
  <2>2. \A k \in (0 + 1)..(0 + 7) : body[k] = bytes[k]
    BY <1>4, <2>1, Zenon
  <2>3. 0 \in Nat /\ 7 \in Nat /\ 0 + 7 <= Len(body) /\ 0 + 7 <= Len(bytes)
    BY <1>6, <1>7, <1>4
  <2> QED
    BY <1>4, <2>2, <2>3, SameGet DEF SizeStart
<1>11. HasFormat(out, next, n + 1)
  BY <1>8, <1>9, <1>10 DEF HasFormat
<1> QED
  BY <1>3, <1>9, <1>11 DEF size, next

\* A block is registered at an index that has one, in place: the old block stays, and the
\* size is off by its reference count.
LEMMA RegisteredOld ==
  ASSUME NEW bytes \in Seq(Byte), NEW entries \in Seq(EntryType), NEW n \in Nat,
         HasFormat(bytes, entries, n), n < Limit,
         NEW slot \in SlotType, slot.total = n,
         0 - Limit <= slot.size - 13, slot.size + 5 < Limit,
         NEW x \in Indexes, x \in IndexesIn(entries), NEW b \in Blocks, NEW landing,
         ~Registered(bytes, slot, x, b, landing).moved
  PROVE  LET after == Registered(bytes, slot, x, b, landing)
             size == slot.size + b - (8 + FirstIn(entries, x)) IN
         /\ HasFormat(after.bytes, Append(entries, [index |-> x, block |-> b]), n)
         /\ after.slot.size = size /\ after.slot.total = n
         /\ GetWord(after.bytes, SizeStart, 0) = size
<1> DEFINE c == FirstIn(entries, x)
           size == slot.size + b - (8 + c)
           next == Append(entries, [index |-> x, block |-> b])
           out == PutHeader(bytes, size, n)
<1>1. c \in Blocks
  BY FirstInBlocks
<1>2. PICK k \in 0..(n - 1) :
        PairWord(bytes, k) = x /\ FindIndex(bytes, n, x) = PairAt(k)
  BY FindIs
<1>3. PairHash(bytes, k) = HashOf(c)
  BY <1>2 DEF HasFormat, HasPairs
<1> HIDE DEF c
<1>4. size \in Int /\ n \in Int /\ 0 - Limit <= size /\ size < Limit /\ 0 - Limit <= n
  <2>1. slot.size \in Int /\ b \in 1..5 /\ c \in 1..5
    <3>1. slot.size \in Int
      BY DEF SlotType
    <3>2. b \in 1..5 /\ c \in 1..5
      BY <1>1, BytesAssumption
    <3> QED
      BY <3>1, <3>2
  <2> QED
    <3>1. slot.size + b - (8 + c) \in Int
      BY <2>1
    <3>2. n \in Int /\ 0 - Limit <= n
      BY LimitIs
    <3>3. 0 - Limit <= slot.size + b - (8 + c) /\ slot.size + b - (8 + c) < Limit
      BY <2>1, SizeWithin
    <3> QED
      BY <3>1, <3>2, <3>3
<1> HIDE DEF size
<1>5. /\ PairAt(k) \in Nat /\ PairAt(k) + 28 <= Len(bytes) /\ Len(bytes) >= 23
      /\ FindIndex(bytes, slot.total, x) = PairAt(k)
  <2>1. k \in Nat /\ PairAt(k) = 23 + 28 * k /\ Len(bytes) = 23 + 28 * n
    BY PairAtIs DEF HasFormat, HasPairs
  <2> QED
    BY <1>2, <2>1
<1>6. slot.size + b - BlockGetSize(Get(bytes, PairAt(k) + 8, HashLength)) = size
  <2>1. Get(bytes, PairAt(k) + 8, HashLength) = HashOf(c)
    BY <1>3 DEF PairHash
  <2> QED
    BY <1>1, <2>1, BlockSizeIs DEF size
<1>7. /\ Registered(bytes, slot, x, b, landing).bytes = out
      /\ Registered(bytes, slot, x, b, landing).slot.size = size
      /\ Registered(bytes, slot, x, b, landing).slot.total = n
  <2> DEFINE after == Registered(bytes, slot, x, b, landing)
             pos == PairAt(k)
             sum == slot.size + b - BlockGetSize(Get(bytes, pos + 8, HashLength))
  <2>1. pos \in Nat /\ FindIndex(bytes, slot.total, x) = pos
    BY <1>5
  <2>2. sum = size
    BY <1>6
  <2> HIDE DEF pos
  <2>3. /\ after.bytes = PutHeader(bytes, sum, slot.total)
        /\ after.slot.size = sum /\ after.slot.total = slot.total
    BY <2>1, RegisteredAt
  <2> HIDE DEF after, sum
  <2>4. /\ after.bytes = PutHeader(bytes, size, n)
        /\ after.slot.size = size /\ after.slot.total = n
    BY <2>2, <2>3
  <2> QED
    BY <2>4 DEF after
<1>8. HasPairs(bytes, next, n)
  BY KeptPairs DEF HasFormat
<1> HIDE DEF next
<1>9. HasPairs(out, next, n)
  BY <1>4, <1>8, HeaderPairs
<1>10. /\ Get(out, 0, SizeStart) = Get(bytes, 0, SizeStart)
       /\ GetWord(out, SizeStart, 0) = size
       /\ GetWord(out, TotalStart, 0) = n
  BY <1>4, <1>5, HeaderSays
<1>11. HasFormat(out, next, n)
  BY <1>9, <1>10 DEF HasFormat
<1> QED
  BY <1>7, <1>10, <1>11 DEF size, next, c

-----------------------------------------------------------------------------
(* The inductive invariant.                                                 *)

InodeType == [kind : Kinds, open : BOOLEAN, bytes : Seq(Byte)]

\* The state has its shape, and what a slot has open is a file.
TypeInv ==
  /\ dir \in [Names -> Inodes \cup {None}]
  /\ inode \in [Inodes -> InodeType]
  /\ slots \in [Slots -> SlotType]
  /\ log \in [Inodes -> Seq(EntryType)]
  /\ moved \subseteq damaged /\ damaged \subseteq Inodes
  /\ writes \in 0..MaxWrites
  /\ \A s \in Slots : slots[s].ino = None \/ IsFile(slots[s].ino)

\* The history of a free inode is gone.
FreeInv == \A i \in Inodes \ Used(dir, slots) : log[i] = <<>>

\* As long as every entry is of an index of its own, the size is that of the blocks.
Sized(bytes, entries) ==
  /\ IsFiniteSet(BytesIn(entries))
  /\ Cardinality(IndexesIn(entries)) <= Len(entries)
  /\ Len(entries) = Cardinality(IndexesIn(entries)) =>
       GetWord(bytes, SizeStart, 0) = Cardinality(BytesIn(entries))

\* The header and the pairs of a file are those of its log, and w writes cannot
\* have taken the numbers of the header out of three bytes and a sign.
Exact(bytes, entries, w) ==
  /\ IsFiniteSet(IndexesIn(entries)) /\ Cardinality(IndexesIn(entries)) <= w
  /\ HasFormat(bytes, entries, Cardinality(IndexesIn(entries)))
  /\ Sized(bytes, entries)
  /\ 0 - 13 * w <= GetWord(bytes, SizeStart, 0)
  /\ GetWord(bytes, SizeStart, 0) <= 13 * w

\* A slot has the numbers of a header.
HasHeader(slot, bytes) ==
  /\ slot.size = GetWord(bytes, SizeStart, 0)
  /\ slot.total = GetWord(bytes, TotalStart, 0)

ExactInv == \A i \in Whole : Exact(inode[i].bytes, log[i], writes)
OneSlot ==
  \A s, r \in Slots : slots[s].ino # None /\ slots[s].ino = slots[r].ino => s = r
HeaderInv ==
  \A s \in Slots : slots[s].ino \in Whole => HasHeader(slots[s], inode[slots[s].ino].bytes)

IInv == TypeInv /\ FreeInv /\ ExactInv /\ OneSlot /\ HeaderInv

-----------------------------------------------------------------------------
(* The bytes of the blocks of a file.                                       *)

\* An index with a block of b bytes has b bytes more.
LEMMA AddedBytes ==
  ASSUME NEW entries \in Seq(EntryType), IsFiniteSet(BytesIn(entries)),
         NEW x \in Indexes, x \notin IndexesIn(entries), NEW b \in Blocks
  PROVE  LET next == Append(entries, [index |-> x, block |-> b]) IN
         /\ IsFiniteSet(BytesIn(next))
         /\ Cardinality(BytesIn(next)) = Cardinality(BytesIn(entries)) + b
<1> DEFINE next == Append(entries, [index |-> x, block |-> b])
           part == {x} \X (1..b)
<1>1. /\ IndexesIn(next) = IndexesIn(entries) \cup {x}
      /\ \A y \in IndexesIn(entries) : FirstIn(next, y) = FirstIn(entries, y)
      /\ FirstIn(next, x) = b
  BY AppendEntry
<1> HIDE DEF next
<1>2. BytesIn(next) = BytesIn(entries) \cup part
  <2>1. BytesIn(next) \subseteq BytesIn(entries) \cup part
    <3> SUFFICES ASSUME NEW y \in IndexesIn(next),
                        NEW e \in {y} \X (1..FirstIn(next, y))
                 PROVE  e \in BytesIn(entries) \cup part
      BY DEF BytesIn
    <3>1. CASE y = x
      BY <1>1, <3>1
    <3>2. CASE y \in IndexesIn(entries)
      BY <1>1, <3>2 DEF BytesIn
    <3> QED
      BY <1>1, <3>1, <3>2
  <2>2. part \subseteq BytesIn(next)
    BY <1>1 DEF BytesIn
  <2>3. BytesIn(entries) \subseteq BytesIn(next)
    <3> SUFFICES ASSUME NEW y \in IndexesIn(entries),
                        NEW e \in {y} \X (1..FirstIn(entries, y))
                 PROVE  e \in BytesIn(next)
      BY DEF BytesIn
    <3>1. y \in IndexesIn(next) /\ e \in {y} \X (1..FirstIn(next, y))
      BY <1>1
    <3> QED
      BY <3>1 DEF BytesIn
  <2> QED
    BY <2>1, <2>2, <2>3
<1>3. BytesIn(entries) \cap part = {}
  BY DEF BytesIn
<1>4. IsFiniteSet(part) /\ Cardinality(part) = b
  <2>1. b \in Int /\ 1 <= b
    BY BytesAssumption
  <2>2. IsFiniteSet(1..b) /\ Cardinality(1..b) = b
    BY <2>1, FS_Interval
  <2>3. IsFiniteSet({x}) /\ Cardinality({x}) = 1
    BY FS_Singleton
  <2>4. IsFiniteSet(part) /\ Cardinality(part) = Cardinality({x}) * Cardinality(1..b)
    BY <2>2, <2>3, FS_Product
  <2> QED
    BY <2>1, <2>2, <2>3, <2>4
<1> HIDE DEF part
<1>5. /\ IsFiniteSet(BytesIn(entries) \cup part)
      /\ Cardinality(BytesIn(entries) \cup part)
           = Cardinality(BytesIn(entries)) + Cardinality(part)
             - Cardinality(BytesIn(entries) \cap part)
  BY <1>4, FS_Union
<1>6. Cardinality(BytesIn(entries) \cap part) = 0
  BY <1>3, FS_EmptySet
<1>7. Cardinality(BytesIn(entries)) \in Nat /\ b \in Int
  BY FS_CardinalityType, BytesAssumption
<1>8. Cardinality(BytesIn(entries) \cup part) = Cardinality(BytesIn(entries)) + b
  BY <1>4, <1>5, <1>6, <1>7
<1>9. IsFiniteSet(BytesIn(next)) /\ Cardinality(BytesIn(next)) = Cardinality(BytesIn(entries)) + b
  BY <1>2, <1>5, <1>8, Zenon
<1> QED
  BY <1>9 DEF next

\* One that has a block already has no more.
LEMMA KeptBytes ==
  ASSUME NEW entries \in Seq(EntryType), NEW x \in IndexesIn(entries), x \in Indexes,
         NEW b \in Blocks
  PROVE  BytesIn(Append(entries, [index |-> x, block |-> b])) = BytesIn(entries)
<1> DEFINE next == Append(entries, [index |-> x, block |-> b])
<1>1. /\ IndexesIn(next) = IndexesIn(entries) \cup {x}
      /\ \A y \in IndexesIn(entries) : FirstIn(next, y) = FirstIn(entries, y)
  BY AppendEntry
<1> HIDE DEF next
<1>2. IndexesIn(next) = IndexesIn(entries)
  BY <1>1
<1>3. BytesIn(next) = BytesIn(entries)
  BY <1>1, <1>2 DEF BytesIn
<1> QED
  BY <1>3 DEF next

-----------------------------------------------------------------------------
(* The file of a slot in which a block is registered.                       *)

\* A file is exact after more writes to others.
LEMMA ExactGrows ==
  ASSUME NEW bytes \in Seq(Byte), NEW entries, NEW w \in Nat, Exact(bytes, entries, w)
  PROVE  Exact(bytes, entries, w + 1)
<1>1. Cardinality(IndexesIn(entries)) \in Nat
  BY FS_CardinalityType DEF Exact
<1>2. GetWord(bytes, SizeStart, 0) \in Int
  <2>1. SizeStart \in Nat /\ 0 \in Int
    BY DEF SizeStart
  <2> QED
    BY <2>1, GetWordIs
<1> QED
  BY <1>1, <1>2 DEF Exact

\* The file that bb_mknod makes is exact.
LEMMA ExactNew ==
  ASSUME NEW w \in Nat
  PROVE  Exact(NewFile, <<>>, w)
<1>1. IndexesIn(<<>>) = {}
  BY DEF IndexesIn
<1>2. IsFiniteSet(IndexesIn(<<>>)) /\ Cardinality(IndexesIn(<<>>)) = 0
  BY <1>1, FS_EmptySet
<1>3. Sized(NewFile, <<>>)
  <2>1. BytesIn(<<>>) = {}
    BY <1>1 DEF BytesIn
  <2>2. IsFiniteSet(BytesIn(<<>>)) /\ Cardinality(BytesIn(<<>>)) = 0
    BY <2>1, FS_EmptySet
  <2>3. Cardinality(IndexesIn(<<>>)) <= Len(<<>>)
    BY <1>2
  <2> QED
    BY <2>2, <2>3, NewFileIs, Zenon DEF Sized
<1> QED
  BY <1>2, <1>3, NewFileIs DEF Exact

\* A block is registered, and no hash is moved: the file stays exact, and the slot
\* has its header.
LEMMA ExactRegistered ==
  ASSUME NEW bytes \in Seq(Byte), NEW entries \in Seq(EntryType),
         NEW w \in Nat, 13 * (w + 1) < Limit, Exact(bytes, entries, w),
         NEW slot \in SlotType, HasHeader(slot, bytes),
         NEW x \in Indexes, NEW b \in Blocks, NEW landing,
         ~Registered(bytes, slot, x, b, landing).moved
  PROVE  LET after == Registered(bytes, slot, x, b, landing) IN
         /\ Exact(after.bytes, Append(entries, [index |-> x, block |-> b]), w + 1)
         /\ HasHeader(after.slot, after.bytes)
<1> DEFINE after == Registered(bytes, slot, x, b, landing)
           next == Append(entries, [index |-> x, block |-> b])
           n == Cardinality(IndexesIn(entries))
           m == Cardinality(IndexesIn(next))
<1>1. n \in Nat /\ n <= w /\ HasFormat(bytes, entries, n) /\ IsFiniteSet(IndexesIn(entries))
  BY FS_CardinalityType DEF Exact
<1>2. /\ slot.total = n /\ slot.size \in Int
      /\ 0 - 13 * w <= slot.size /\ slot.size <= 13 * w
  BY <1>1 DEF HasHeader, HasFormat, Exact, SlotType
<1>3. /\ next \in Seq(EntryType)
      /\ IndexesIn(next) = IndexesIn(entries) \cup {x}
  BY AppendEntry
<1>4. /\ IsFiniteSet(IndexesIn(next))
      /\ m = IF x \in IndexesIn(entries) THEN n ELSE n + 1
  <2> HIDE DEF next
  <2>1. /\ IsFiniteSet(IndexesIn(entries) \cup {x})
        /\ Cardinality(IndexesIn(entries) \cup {x}) =
             IF x \in IndexesIn(entries) THEN n ELSE n + 1
    BY <1>1, FS_AddElement
  <2> QED
    BY <1>3, <2>1, Zenon
<1>5. Len(next) = Len(entries) + 1 /\ Len(entries) \in Nat
  BY AppendProperties
<1>6. Sized(bytes, entries) /\ slot.size = GetWord(bytes, SizeStart, 0)
  BY DEF Exact, HasHeader
<1> HIDE DEF n, m
<1>7. b \in Int /\ 1 <= b /\ b <= 5 /\ Limit \in Nat
  BY BytesAssumption, LimitIs
<1>8. CASE x \notin IndexesIn(entries)
  <2>1. n + 1 < Limit /\ 0 - Limit <= slot.size /\ slot.size + 5 < Limit
    BY <1>1, <1>2, <1>7
  <2>2. /\ HasFormat(after.bytes, next, n + 1)
        /\ after.slot.size = slot.size + b /\ after.slot.total = n + 1
        /\ GetWord(after.bytes, SizeStart, 0) = slot.size + b
    BY <1>1, <1>2, <1>8, <2>1, RegisteredNew
  <2> HIDE DEF after, next
  <2>3. HasHeader(after.slot, after.bytes)
    BY <2>2 DEF HasHeader, HasFormat
  <2>4. m = n + 1 /\ n + 1 <= w + 1
    BY <1>1, <1>4, <1>8
  <2>5. 0 - 13 * (w + 1) <= slot.size + b /\ slot.size + b <= 13 * (w + 1)
    BY <1>2, <1>7
  <2>6. IsFiniteSet(BytesIn(next))
        /\ Cardinality(BytesIn(next)) = Cardinality(BytesIn(entries)) + b
    BY <1>8, <1>6, AddedBytes DEF Sized, next
  <2>7. Sized(after.bytes, next)
    BY <1>1, <1>5, <1>6, <2>2, <2>4, <2>6 DEF Sized, m, n
  <2>8. Exact(after.bytes, next, w + 1)
    BY <1>4, <2>2, <2>4, <2>5, <2>7 DEF Exact, m
  <2> QED
    BY <2>3, <2>8 DEF after, next
<1>9. CASE x \in IndexesIn(entries)
  <2> DEFINE c == FirstIn(entries, x)
             size == slot.size + b - (8 + c)
  <2>1. c \in Blocks
    BY <1>9, FirstInBlocks
  <2>2. n < Limit /\ 0 - Limit <= slot.size - 13 /\ slot.size + 5 < Limit
    BY <1>1, <1>2, <1>7
  <2>3. /\ HasFormat(after.bytes, next, n)
        /\ after.slot.size = size /\ after.slot.total = n
        /\ GetWord(after.bytes, SizeStart, 0) = size
    BY <1>1, <1>2, <1>9, <2>2, RegisteredOld
  <2> HIDE DEF after, next, c
  <2>4. c \in Int /\ 1 <= c /\ c <= 5
    BY <2>1, BytesAssumption
  <2>5. 0 - 13 * (w + 1) <= size /\ size <= 13 * (w + 1) /\ size \in Int
    BY <1>2, <1>7, <2>4
  <2> HIDE DEF size
  <2>6. HasHeader(after.slot, after.bytes)
    BY <2>3 DEF HasHeader, HasFormat
  <2>7. m = n /\ n <= w + 1
    BY <1>1, <1>4, <1>9
  <2>8. Sized(after.bytes, next)
    <3>1. BytesIn(next) = BytesIn(entries)
      BY <1>9, KeptBytes DEF next
    <3> QED
      BY <1>1, <1>5, <1>6, <2>7, <3>1 DEF Sized, m, n
  <2>9. Exact(after.bytes, next, w + 1)
    BY <1>4, <2>3, <2>5, <2>7, <2>8 DEF Exact, m
  <2> QED
    BY <2>6, <2>9 DEF after, next
<1> QED
  BY <1>8, <1>9

-----------------------------------------------------------------------------
(* The steps of the handlers.                                               *)

\* What an inode or a slot has open or named.
LEMMA UsedIs ==
  ASSUME TypeInv
  PROVE  /\ Used(dir, slots) \subseteq Inodes
         /\ \A n \in Names : dir[n] # None => dir[n] \in Used(dir, slots)
         /\ \A s \in Slots : slots[s].ino # None => slots[s].ino \in Used(dir, slots)
         /\ \A s \in Slots : slots[s].ino \in Inodes \cup {None}
<1>1. \A s \in Slots : slots[s].ino \in Inodes \cup {None}
  BY DEF TypeInv, SlotType
<1>2. \A n \in Names : dir[n] \in Inodes \cup {None}
  BY DEF TypeInv
<1> QED
  BY <1>1, <1>2 DEF Used

\* The fields of an inode.
LEMMA InodeIs ==
  ASSUME TypeInv, NEW i \in Inodes
  PROVE  /\ inode[i] \in InodeType /\ inode[i].kind \in Kinds
         /\ inode[i].bytes \in Seq(Byte) /\ log[i] \in Seq(EntryType)
  BY DEF TypeInv, InodeType

\* Inodes that nothing names any more are made free.
LEMMA FreeUnusedIs ==
  ASSUME TypeInv, dir' \in [Names -> Inodes \cup {None}], slots' \in [Slots -> SlotType],
         FreeUnused
  PROVE  /\ inode' \in [Inodes -> InodeType] /\ log' \in [Inodes -> Seq(EntryType)]
         /\ moved' \subseteq damaged' /\ damaged' \subseteq Inodes
         /\ \A i \in Used(dir', slots') : inode'[i] = inode[i] /\ log'[i] = log[i]
         /\ \A i \in Inodes \ Used(dir', slots') : log'[i] = <<>>
         /\ damaged' = damaged \cap Used(dir', slots')
<1> DEFINE used == Used(dir', slots')
<1>1. used \subseteq Inodes
  BY DEF Used
<1>2. Free \in InodeType
  BY DEF Free, Entry, InodeType, Kinds
<1>3. <<>> \in Seq(EntryType)
  OBVIOUS
<1>4. /\ inode' = [i \in Inodes |-> IF i \in used THEN inode[i] ELSE Free]
      /\ log' = [i \in Inodes |-> IF i \in used THEN log[i] ELSE <<>>]
      /\ moved' = moved \cap used /\ damaged' = damaged \cap used
  BY DEF FreeUnused
<1> HIDE DEF used
<1>5. inode' \in [Inodes -> InodeType]
  BY <1>2, <1>4 DEF TypeInv
<1>6. log' \in [Inodes -> Seq(EntryType)]
  BY <1>3, <1>4 DEF TypeInv
<1>7. moved' \subseteq damaged' /\ damaged' \subseteq Inodes
  BY <1>4 DEF TypeInv
<1>8. \A i \in used : inode'[i] = inode[i] /\ log'[i] = log[i]
  BY <1>1, <1>4
<1>9. \A i \in Inodes \ used : log'[i] = <<>>
  BY <1>4
<1> QED
  BY <1>4, <1>5, <1>6, <1>7, <1>8, <1>9 DEF used

\* A step that names and opens no inode anew, and frees what is not used any more.
LEMMA FreeingStep ==
  ASSUME IInv, dir' \in [Names -> Inodes \cup {None}], slots' \in [Slots -> SlotType],
         Used(dir', slots') \subseteq Used(dir, slots),
         \A s \in Slots : slots'[s].ino # None => slots'[s] = slots[s],
         FreeUnused, writes' = writes
  PROVE  IInv'
<1>1. TypeInv /\ FreeInv /\ ExactInv /\ OneSlot /\ HeaderInv
  BY DEF IInv
<1>2. /\ inode' \in [Inodes -> InodeType] /\ log' \in [Inodes -> Seq(EntryType)]
      /\ moved' \subseteq damaged' /\ damaged' \subseteq Inodes
      /\ \A i \in Used(dir', slots') : inode'[i] = inode[i] /\ log'[i] = log[i]
      /\ \A i \in Inodes \ Used(dir', slots') : log'[i] = <<>>
      /\ damaged' = damaged \cap Used(dir', slots')
  BY <1>1, FreeUnusedIs
<1>3. \A s \in Slots : slots'[s].ino # None => slots'[s].ino \in Used(dir', slots')
  <2>1. \A s \in Slots : slots'[s].ino \in Inodes \cup {None}
    BY DEF SlotType
  <2> QED
    BY <2>1 DEF Used
<1>4. TypeInv'
  <2>1. \A s \in Slots : slots'[s].ino = None \/ IsFile(slots[s].ino)'
    BY <1>1, <1>2, <1>3 DEF TypeInv, IsFile
  <2>2. writes' \in 0..MaxWrites
    BY <1>1 DEF TypeInv
  <2> QED
    BY <1>2, <2>1, <2>2 DEF TypeInv
<1>5. FreeInv'
  BY <1>2 DEF FreeInv
<1>6. \A i \in Whole' : i \in Used(dir', slots') /\ i \in Whole
  BY <1>2 DEF Whole, Files, IsFile
<1>7. ExactInv'
  BY <1>1, <1>2, <1>6 DEF ExactInv
<1>8. OneSlot'
  BY <1>1 DEF OneSlot
<1>9. HeaderInv'
  <2> SUFFICES ASSUME NEW s \in Slots, slots'[s].ino \in Whole'
               PROVE  HasHeader(slots'[s], inode'[slots'[s].ino].bytes)
    BY DEF HeaderInv
  <2>1. slots'[s].ino # None
    BY <1>6 DEF Whole, Files, IsFile
  <2> QED
    BY <1>1, <1>2, <1>6, <2>1 DEF HeaderInv
<1> QED
  BY <1>4, <1>5, <1>7, <1>8, <1>9 DEF IInv

\* bb_mknod, bb_mkdir, bb_symlink: a free inode gets a name.
LEMMA MakeStep ==
  ASSUME IInv, NEW n \in Names, NEW entry \in InodeType, Make(n, entry)
  PROVE  IInv'
<1>1. TypeInv /\ FreeInv /\ ExactInv /\ OneSlot /\ HeaderInv
  BY DEF IInv
<1> DEFINE used == Used(dir, slots)
           i == Min(Inodes \ used)
<1>2. /\ Inodes # used /\ used \subseteq Inodes
      /\ \A m \in Names : dir[m] # None => dir[m] \in used
      /\ \A s \in Slots : slots[s].ino # None => slots[s].ino \in used
      /\ \A s \in Slots : slots[s].ino \in Inodes \cup {None}
  BY <1>1, UsedIs DEF Make
<1>3. /\ dir' = [dir EXCEPT ![n] = i] /\ inode' = [inode EXCEPT ![i] = entry]
      /\ damaged' = damaged \cup
           IF entry.kind = "file" /\ entry.bytes # NewFile THEN {i} ELSE {}
      /\ slots' = slots /\ log' = log /\ moved' = moved /\ writes' = writes
  BY DEF Make
<1> HIDE DEF used
<1>4. i \in Inodes /\ i \notin used
  <2>1. Inodes \ used \subseteq Nat /\ Inodes \ used # {}
    BY <1>2, InodesAssumption
  <2>2. i \in Inodes \ used
    BY <2>1, MinNat
  <2> QED
    BY <2>2
<1>5. i # None
  BY <1>4, InodesAssumption
<1> HIDE DEF i
<1>6. /\ dir' \in [Names -> Inodes \cup {None}]
      /\ inode' \in [Inodes -> InodeType]
      /\ inode'[i] = entry /\ \A j \in Inodes : j # i => inode'[j] = inode[j]
  BY <1>1, <1>3, <1>4 DEF TypeInv
<1>7. Used(dir', slots') \subseteq used \cup {i} /\ used \cup {i} \subseteq Used(dir', slots')
  <2>1. \A m \in Names : dir'[m] = IF m = n THEN i ELSE dir[m]
    BY <1>1, <1>3 DEF TypeInv
  <2>2. dir[n] = None
    BY DEF Make
  <2>3. None \notin Inodes
    BY InodesAssumption
  <2> QED
    BY <1>3, <1>4, <2>1, <2>2, <2>3 DEF Used, used
<1>8. TypeInv'
  <2>1. moved' \subseteq damaged' /\ damaged' \subseteq Inodes
    BY <1>1, <1>3, <1>4 DEF TypeInv
  <2>2. \A s \in Slots : slots'[s].ino = None \/ IsFile(slots[s].ino)'
    BY <1>1, <1>2, <1>3, <1>4, <1>6 DEF TypeInv, IsFile
  <2> QED
    BY <1>1, <1>3, <1>6, <2>1, <2>2 DEF TypeInv
<1>9. FreeInv'
  BY <1>1, <1>3, <1>7 DEF FreeInv, used
<1>10. ASSUME NEW j \in Whole', j # i
       PROVE  j \in Whole /\ inode'[j] = inode[j]
  BY <1>2, <1>3, <1>6, <1>7, <1>10 DEF Whole, Files, IsFile, used
<1>11. ExactInv'
  <2> SUFFICES ASSUME NEW j \in Whole' PROVE Exact(inode'[j].bytes, log'[j], writes')
    BY DEF ExactInv
  <2>1. CASE j = i
    <3>1. inode'[i].bytes = NewFile
      BY <1>3, <1>6, <2>1 DEF Whole, Files, IsFile
    <3>2. log'[i] = <<>>
      BY <1>1, <1>3, <1>4 DEF FreeInv, used
    <3>3. writes' \in Nat
      BY <1>1, <1>3, WritesAssumption DEF TypeInv
    <3> QED
      BY <2>1, <3>1, <3>2, <3>3, ExactNew
  <2>2. CASE j # i
    BY <1>1, <1>3, <1>10, <2>2 DEF ExactInv
  <2> QED
    BY <2>1, <2>2
<1>12. OneSlot'
  BY <1>1, <1>3 DEF OneSlot
<1>13. HeaderInv'
  <2> SUFFICES ASSUME NEW s \in Slots, slots'[s].ino \in Whole'
               PROVE  HasHeader(slots'[s], inode'[slots'[s].ino].bytes)
    BY DEF HeaderInv
  <2>1. slots[s].ino # None
    BY <1>3 DEF Whole, Files, IsFile
  <2>2. slots[s].ino # i
    BY <1>2, <1>4, <2>1
  <2> QED
    BY <1>1, <1>3, <1>10, <2>2 DEF HeaderInv
<1> QED
  BY <1>8, <1>9, <1>11, <1>12, <1>13 DEF IInv

\* bb_link: a file has one more name.
LEMMA LinkNameStep ==
  ASSUME IInv, NEW n \in Names, NEW m \in Names, LinkName(n, m)
  PROVE  IInv'
<1>1. TypeInv /\ FreeInv /\ ExactInv /\ OneSlot /\ HeaderInv
  BY DEF IInv
<1>2. /\ dir[n] # None /\ dir[m] = None /\ dir' = [dir EXCEPT ![m] = dir[n]]
      /\ inode' = inode /\ slots' = slots /\ log' = log
      /\ moved' = moved /\ damaged' = damaged /\ writes' = writes
  BY DEF LinkName
<1>3. Used(dir', slots') = Used(dir, slots)
  <2>1. \A k \in Names : dir'[k] = IF k = m THEN dir[n] ELSE dir[k]
    BY <1>1, <1>2 DEF TypeInv
  <2>2. None \notin Inodes
    BY InodesAssumption
  <2>3. {dir'[k] : k \in Names} \subseteq {dir[k] : k \in Names}
    BY <2>1
  <2>4. Inodes \cap {dir[k] : k \in Names} \subseteq {dir'[k] : k \in Names}
    BY <1>2, <2>1, <2>2
  <2> QED
    BY <1>2, <2>3, <2>4 DEF Used
<1>4. TypeInv'
  BY <1>1, <1>2 DEF TypeInv, IsFile
<1>5. FreeInv'
  BY <1>1, <1>2, <1>3 DEF FreeInv
<1>6. Whole' = Whole
  BY <1>2, <1>3 DEF Whole, Files, IsFile
<1> QED
  BY <1>1, <1>2, <1>4, <1>5, <1>6 DEF IInv, ExactInv, OneSlot, HeaderInv

\* bb_chmod: what is read and written stays.
LEMMA ChmodStep ==
  ASSUME IInv, NEW n \in Names, Chmod(n)
  PROVE  IInv'
<1>1. TypeInv /\ FreeInv /\ ExactInv /\ OneSlot /\ HeaderInv
  BY DEF IInv
<1> DEFINE i == dir[n]
<1>2. /\ i # None /\ i \in Inodes
      /\ inode' = [inode EXCEPT ![i].open = ~@]
      /\ dir' = dir /\ slots' = slots /\ log' = log
      /\ moved' = moved /\ damaged' = damaged /\ writes' = writes
  BY <1>1 DEF Chmod, IsFile, TypeInv
<1> HIDE DEF i
<1>3. /\ inode' \in [Inodes -> InodeType]
      /\ \A j \in Inodes : inode'[j].kind = inode[j].kind /\ inode'[j].bytes = inode[j].bytes
  <2>1. inode' = [inode EXCEPT ![i] = [inode[i] EXCEPT !.open = ~inode[i].open]]
    BY <1>2
  <2>2. /\ [inode[i] EXCEPT !.open = ~inode[i].open] \in InodeType
        /\ [inode[i] EXCEPT !.open = ~inode[i].open].kind = inode[i].kind
        /\ [inode[i] EXCEPT !.open = ~inode[i].open].bytes = inode[i].bytes
    BY <1>1, <1>2, InodeIs DEF InodeType
  <2> QED
    BY <1>1, <1>2, <2>1, <2>2 DEF TypeInv
<1>4. \A j \in Inodes \cup {None} : IsFile(j)' <=> IsFile(j)
  BY <1>3 DEF IsFile
<1>5. \A s \in Slots : slots[s].ino \in Inodes \cup {None}
  BY <1>1, UsedIs
<1>6. TypeInv'
  BY <1>1, <1>2, <1>3, <1>4, <1>5 DEF TypeInv
<1>7. FreeInv'
  BY <1>1, <1>2 DEF FreeInv
<1>8. Whole' = Whole /\ Whole \subseteq Inodes
  BY <1>2, <1>4 DEF Whole, Files, Used
<1> QED
  BY <1>1, <1>2, <1>3, <1>6, <1>7, <1>8 DEF IInv, ExactInv, OneSlot, HeaderInv

\* bb_truncate, bb_ftruncate: the file is not whole any more.
LEMMA CutStep ==
  ASSUME IInv, NEW i \in Inodes, NEW n \in Lengths, Cut(i, n)
  PROVE  IInv'
<1>1. TypeInv /\ FreeInv /\ ExactInv /\ OneSlot /\ HeaderInv
  BY DEF IInv
<1>2. /\ inode' = [inode EXCEPT ![i].bytes = Resize(@, n)]
      /\ moved' = moved /\ damaged' = damaged \cup {i}
      /\ dir' = dir /\ slots' = slots /\ log' = log /\ writes' = writes
  BY DEF Cut
<1>3. n \in Nat
  BY LengthsAssumption
<1>4. /\ inode' \in [Inodes -> InodeType]
      /\ \A j \in Inodes : inode'[j].kind = inode[j].kind
      /\ \A j \in Inodes : j # i => inode'[j] = inode[j]
  <2> DEFINE cut == Resize(inode[i].bytes, n)
             next == [inode[i] EXCEPT !.bytes = cut]
  <2>1. cut \in Seq(Byte)
    BY <1>1, <1>3, InodeIs, ResizeIs
  <2>2. inode' = [inode EXCEPT ![i] = next]
    BY <1>2
  <2> HIDE DEF cut
  <2>3. next \in InodeType /\ next.kind = inode[i].kind
    BY <1>1, <2>1, InodeIs DEF InodeType
  <2> HIDE DEF next
  <2> QED
    BY <1>1, <2>2, <2>3 DEF TypeInv
<1>5. \A j \in Inodes \cup {None} : IsFile(j)' <=> IsFile(j)
  BY <1>4 DEF IsFile
<1>6. \A s \in Slots : slots[s].ino \in Inodes \cup {None}
  BY <1>1, UsedIs
<1>7. TypeInv'
  BY <1>1, <1>2, <1>4, <1>5, <1>6 DEF TypeInv
<1>8. FreeInv'
  BY <1>1, <1>2 DEF FreeInv
<1>9. \A j \in Whole' : j \in Whole /\ j # i /\ j \in Inodes
  BY <1>2, <1>5 DEF Whole, Files, Used
<1>10. ExactInv'
  BY <1>1, <1>2, <1>4, <1>9 DEF ExactInv
<1>11. OneSlot'
  BY <1>1, <1>2 DEF OneSlot
<1>12. HeaderInv'
  BY <1>1, <1>2, <1>4, <1>9 DEF HeaderInv
<1> QED
  BY <1>7, <1>8, <1>10, <1>11, <1>12 DEF IInv

\* The header of an exact file is all there: what a slot held before is gone.
LEMMA HeaderThere ==
  ASSUME NEW bytes \in Seq(Byte), NEW entries, NEW w, Exact(bytes, entries, w),
         NEW before \in Int
  PROVE  /\ GetWord(bytes, SizeStart, before) = GetWord(bytes, SizeStart, 0)
         /\ GetWord(bytes, TotalStart, before) = GetWord(bytes, TotalStart, 0)
<1>1. Len(bytes) >= 23 /\ Len(bytes) \in Nat
  <2> DEFINE n == Cardinality(IndexesIn(entries))
  <2>1. n \in Nat
    BY FS_CardinalityType DEF Exact
  <2>2. Len(bytes) = PairAt(n)
    BY DEF Exact, HasFormat, HasPairs
  <2> HIDE DEF n
  <2> QED
    BY <2>1, <2>2, PairAtIs
<1>2. SizeStart \in Nat /\ TotalStart \in Nat /\ 0 \in Int
  BY DEF SizeStart, TotalStart
<1>3. SizeStart + 8 <= Len(bytes) /\ TotalStart + 8 <= Len(bytes)
  BY <1>1 DEF SizeStart, TotalStart
<1>4. /\ GetWord(bytes, SizeStart, before) = Value(Get(bytes, SizeStart, 8))
      /\ GetWord(bytes, SizeStart, 0) = Value(Get(bytes, SizeStart, 8))
  BY <1>2, <1>3, GetWordIs
<1>5. /\ GetWord(bytes, TotalStart, before) = Value(Get(bytes, TotalStart, 8))
      /\ GetWord(bytes, TotalStart, 0) = Value(Get(bytes, TotalStart, 8))
  BY <1>2, <1>3, GetWordIs
<1> QED
  BY <1>4, <1>5

\* What cfs_register_file makes of a slot.
LEMMA SlotOfIs ==
  ASSUME TypeInv, NEW i \in Inodes, NEW slot \in SlotType
  PROVE  SlotOf(i, slot) \in SlotType /\ SlotOf(i, slot).ino = i
<1>1. inode[i].bytes \in Seq(Byte)
  BY InodeIs
<1>2. slot.size \in Int /\ slot.total \in Int /\ SizeStart \in Nat /\ TotalStart \in Nat
  BY DEF SlotType, SizeStart, TotalStart
<1>3. /\ GetWord(inode[i].bytes, SizeStart, slot.size) \in Int
      /\ GetWord(inode[i].bytes, TotalStart, slot.total) \in Int
  BY <1>1, <1>2, GetWordIs
<1> QED
  BY <1>3 DEF SlotOf, SlotType

\* bb_open: a free slot gets the header of a file that is not open.
LEMMA OpenStep ==
  ASSUME IInv, NEW n \in Names, Open(n)
  PROVE  IInv'
<1>1. TypeInv /\ FreeInv /\ ExactInv /\ OneSlot /\ HeaderInv
  BY DEF IInv
<1> DEFINE i == dir[n]
<1>2. i \in Inodes /\ IsFile(i) /\ i \in Used(dir, slots)
  BY <1>1, UsedIs DEF Open, IsFile, TypeInv
<1>3. \A r \in Slots : slots[r].ino # i
  BY DEF Open, IsOpen
<1>4. PICK s \in Slots :
        slots[s].ino = None /\ slots' = [slots EXCEPT ![s] = SlotOf(i, slots[s])]
  BY DEF Open
<1>5. /\ dir' = dir /\ inode' = inode /\ log' = log
      /\ moved' = moved /\ damaged' = damaged /\ writes' = writes
  BY DEF Open
<1> HIDE DEF i
<1>6. slots[s] \in SlotType
  BY <1>1 DEF TypeInv
<1>7. SlotOf(i, slots[s]) \in SlotType /\ SlotOf(i, slots[s]).ino = i
  BY <1>1, <1>2, <1>6, SlotOfIs
<1>8. /\ slots' \in [Slots -> SlotType] /\ slots'[s] = SlotOf(i, slots[s])
      /\ \A r \in Slots : r # s => slots'[r] = slots[r]
  BY <1>1, <1>4, <1>7 DEF TypeInv
<1>9. Used(dir', slots') = Used(dir, slots)
  <2>1. \A r \in Slots : slots'[r].ino = IF r = s THEN i ELSE slots[r].ino
    BY <1>7, <1>8
  <2>2. None \notin Inodes
    BY InodesAssumption
  <2>3. {slots'[r].ino : r \in Slots} \subseteq {slots[r].ino : r \in Slots} \cup {i}
    BY <2>1
  <2>4. {slots[r].ino : r \in Slots} \cap Inodes \subseteq {slots'[r].ino : r \in Slots}
    BY <1>4, <2>1, <2>2
  <2> QED
    BY <1>2, <1>5, <2>3, <2>4 DEF Used
<1>10. TypeInv'
  <2>1. \A r \in Slots : slots'[r].ino = None \/ IsFile(slots[r].ino)'
    BY <1>1, <1>2, <1>5, <1>7, <1>8 DEF TypeInv, IsFile
  <2> QED
    BY <1>1, <1>5, <1>8, <2>1 DEF TypeInv
<1>11. FreeInv'
  BY <1>1, <1>5, <1>9 DEF FreeInv
<1>12. Whole' = Whole
  BY <1>5, <1>9 DEF Whole, Files, IsFile
<1>13. ExactInv'
  BY <1>1, <1>5, <1>12 DEF ExactInv
<1>14. OneSlot'
  BY <1>1, <1>3, <1>7, <1>8 DEF OneSlot
<1>15. HeaderInv'
  <2> SUFFICES ASSUME NEW r \in Slots, slots'[r].ino \in Whole
               PROVE  HasHeader(slots'[r], inode[slots'[r].ino].bytes)
    BY <1>5, <1>12 DEF HeaderInv
  <2>1. CASE r = s
    <3>1. Exact(inode[i].bytes, log[i], writes)
      BY <1>1, <1>7, <1>8, <2>1 DEF ExactInv
    <3>2. inode[i].bytes \in Seq(Byte) /\ slots[s].size \in Int /\ slots[s].total \in Int
      BY <1>1, <1>2, <1>6, InodeIs DEF SlotType
    <3>3. /\ GetWord(inode[i].bytes, SizeStart, slots[s].size)
               = GetWord(inode[i].bytes, SizeStart, 0)
          /\ GetWord(inode[i].bytes, TotalStart, slots[s].total)
               = GetWord(inode[i].bytes, TotalStart, 0)
      BY <3>1, <3>2, HeaderThere
    <3>4. HasHeader(SlotOf(i, slots[s]), inode[i].bytes)
      BY <3>3 DEF HasHeader, SlotOf
    <3> QED
      BY <1>7, <1>8, <2>1, <3>4
  <2>2. CASE r # s
    BY <1>1, <1>8, <2>2 DEF HeaderInv
  <2> QED
    BY <2>1, <2>2
<1> QED
  BY <1>10, <1>11, <1>13, <1>14, <1>15 DEF IInv

\* bb_write: a block is registered through the slot of a file.
LEMMA WriteStep ==
  ASSUME IInv, NEW s \in Slots, NEW x \in Indexes, NEW b \in Blocks, Write(s, x, b)
  PROVE  IInv'
<1>1. TypeInv /\ FreeInv /\ ExactInv /\ OneSlot /\ HeaderInv
  BY DEF IInv
<1> DEFINE i == slots[s].ino
           next == Append(log[i], [index |-> x, block |-> b])
           Landed(landing) == Registered(inode[i].bytes, slots[s], x, b, landing)
           FileOf(after) == [inode[i] EXCEPT !.bytes = after.bytes]
           HereOf(after) == IF after.moved THEN {i} ELSE {}
<1>0. PICK landing \in Landings :
        /\ inode' = [inode EXCEPT ![i] = FileOf(Landed(landing))]
        /\ slots' = [slots EXCEPT ![s] = Landed(landing).slot]
        /\ log' = [log EXCEPT ![i] = next]
        /\ moved' = moved \cup HereOf(Landed(landing))
        /\ damaged' = damaged \cup HereOf(Landed(landing))
  BY DEF Write
<1> DEFINE after == Landed(landing)
           file == FileOf(after)
           here == HereOf(after)
<1>2. i # None /\ i \in Inodes /\ IsFile(i) /\ i \in Used(dir, slots)
  BY <1>1, UsedIs DEF Write, TypeInv
<1>3. slots[s] \in SlotType /\ inode[i] \in InodeType /\ inode[i].bytes \in Seq(Byte)
      /\ log[i] \in Seq(EntryType)
  BY <1>1, <1>2, InodeIs DEF TypeInv
<1>4. after.bytes \in Seq(Byte) /\ after.slot \in SlotType /\ after.slot.ino = i
  BY <1>3, RegisteredType
<1>5. next \in Seq(EntryType)
  BY <1>3, AppendEntry
<1>6. /\ inode' = [inode EXCEPT ![i] = file]
      /\ slots' = [slots EXCEPT ![s] = after.slot]
      /\ log' = [log EXCEPT ![i] = next]
      /\ moved' = moved \cup here /\ damaged' = damaged \cup here
      /\ writes' = writes + 1 /\ writes < MaxWrites /\ dir' = dir
  BY <1>0 DEF Write
<1>7. file \in InodeType /\ file.kind = inode[i].kind /\ file.bytes = after.bytes
  <2> HIDE DEF Landed
  <2> QED
    BY <1>3, <1>4 DEF InodeType
<1>23. here = IF after.moved THEN {i} ELSE {}
  OBVIOUS
<1> HIDE DEF i, after, next, file, here, Landed, FileOf, HereOf
<1>8. /\ inode' \in [Inodes -> InodeType] /\ inode'[i] = file
      /\ \A j \in Inodes : j # i => inode'[j] = inode[j]
  BY <1>1, <1>2, <1>6, <1>7 DEF TypeInv
<1>9. /\ slots' \in [Slots -> SlotType] /\ slots'[s] = after.slot
      /\ \A r \in Slots : r # s => slots'[r] = slots[r]
  BY <1>1, <1>4, <1>6 DEF TypeInv
<1>10. /\ log' \in [Inodes -> Seq(EntryType)] /\ log'[i] = next
       /\ \A j \in Inodes : j # i => log'[j] = log[j]
  BY <1>1, <1>2, <1>5, <1>6 DEF TypeInv
<1>11. \A r \in Slots : slots'[r].ino = slots[r].ino
  BY <1>4, <1>9 DEF i
<1>12. Used(dir', slots') = Used(dir, slots)
  <2>1. {slots'[r].ino : r \in Slots} = {slots[r].ino : r \in Slots}
    BY <1>11
  <2> QED
    BY <1>6, <2>1 DEF Used
<1>13. \A j \in Inodes \cup {None} : IsFile(j)' <=> IsFile(j)
  BY <1>7, <1>8 DEF IsFile
<1>14. \A r \in Slots : slots[r].ino \in Inodes \cup {None}
  BY <1>1, UsedIs
<1>15. writes \in Nat /\ writes' \in 0..MaxWrites
  BY <1>1, <1>6, WritesAssumption DEF TypeInv
<1>16. TypeInv'
  <2>1. \A r \in Slots : slots'[r].ino = None \/ IsFile(slots[r].ino)'
    BY <1>1, <1>11, <1>13, <1>14 DEF TypeInv
  <2>2. moved' \subseteq damaged' /\ damaged' \subseteq Inodes
    BY <1>1, <1>2, <1>6, <1>23 DEF TypeInv
  <2> QED
    BY <1>1, <1>6, <1>8, <1>9, <1>10, <1>15, <2>1, <2>2 DEF TypeInv
<1>17. FreeInv'
  BY <1>1, <1>2, <1>10, <1>12 DEF FreeInv
<1>18. /\ Whole' \subseteq Whole /\ Whole \subseteq Inodes
       /\ i \in Whole' => ~after.moved
  BY <1>6, <1>12, <1>13, <1>23 DEF Whole, Files, Used
<1>19. ASSUME i \in Whole'
       PROVE  Exact(after.bytes, next, writes') /\ HasHeader(after.slot, after.bytes)
  <2>1. Exact(inode[i].bytes, log[i], writes) /\ HasHeader(slots[s], inode[i].bytes)
    BY <1>1, <1>18, <1>19 DEF ExactInv, HeaderInv, i
  <2>2. 13 * (writes + 1) < Limit
    <3>1. writes + 1 <= MaxWrites
      BY <1>6, <1>15, WritesAssumption
    <3> QED
      BY <1>15, <3>1, WritesAssumption, LimitIs
  <2> QED
    BY <1>3, <1>6, <1>15, <1>18, <1>19, <2>1, <2>2, ExactRegistered
      DEF after, next, Landed
<1>20. ExactInv'
  <2> SUFFICES ASSUME NEW j \in Whole' PROVE Exact(inode'[j].bytes, log'[j], writes')
    BY <1>18 DEF ExactInv
  <2>1. CASE j = i
    BY <1>7, <1>8, <1>10, <1>19, <2>1
  <2>2. CASE j # i
    <3>1. j \in Inodes /\ Exact(inode[j].bytes, log[j], writes)
      BY <1>1, <1>18 DEF ExactInv
    <3>2. Exact(inode[j].bytes, log[j], writes + 1)
      BY <1>1, <1>15, <3>1, InodeIs, ExactGrows
    <3> QED
      BY <1>6, <1>8, <1>10, <2>2, <3>1, <3>2
  <2> QED
    BY <2>1, <2>2
<1>21. OneSlot'
  BY <1>1, <1>11 DEF OneSlot
<1>22. HeaderInv'
  <2> SUFFICES ASSUME NEW r \in Slots, slots[r].ino \in Whole'
               PROVE  HasHeader(slots'[r], inode'[slots[r].ino].bytes)
    BY <1>11 DEF HeaderInv
  <2>1. CASE r = s
    BY <1>7, <1>8, <1>9, <1>19, <2>1 DEF i
  <2>2. CASE r # s
    <3>1. slots[r].ino # i
      BY <1>1, <1>2, <2>2 DEF OneSlot, i
    <3> QED
      BY <1>1, <1>8, <1>9, <1>18, <2>2, <3>1 DEF HeaderInv
  <2> QED
    BY <2>1, <2>2
<1> QED
  BY <1>16, <1>17, <1>20, <1>21, <1>22 DEF IInv

\* bb_unlink, bb_rmdir: a name goes.
LEMMA UnnameStep ==
  ASSUME IInv, NEW n \in Names, NEW kinds, Unname(n, kinds)
  PROVE  IInv'
<1>1. TypeInv
  BY DEF IInv
<1>2. /\ dir' = [dir EXCEPT ![n] = None] /\ slots' = slots /\ writes' = writes
      /\ FreeUnused
  BY DEF Unname
<1>3. dir' \in [Names -> Inodes \cup {None}] /\ slots' \in [Slots -> SlotType]
  BY <1>1, <1>2 DEF TypeInv
<1>4. Used(dir', slots') \subseteq Used(dir, slots)
  <2>1. \A m \in Names : dir'[m] = dir[m] \/ dir'[m] = None
    BY <1>1, <1>2 DEF TypeInv
  <2> QED
    BY <1>2, <2>1, InodesAssumption DEF Used
<1> QED
  BY <1>2, <1>3, <1>4, FreeingStep

\* bb_rename: one name goes, and what the other had.
LEMMA RenameStep ==
  ASSUME IInv, NEW n \in Names, NEW m \in Names, Rename(n, m)
  PROVE  IInv'
<1>1. TypeInv
  BY DEF IInv
<1>2. /\ dir' = [dir EXCEPT ![m] = dir[n], ![n] = None]
      /\ slots' = slots /\ writes' = writes /\ FreeUnused
  BY DEF Rename
<1>3. /\ dir' \in [Names -> Inodes \cup {None}]
      /\ \A k \in Names : dir'[k] \in {dir[k], dir[n], None}
  <2> DEFINE first == [dir EXCEPT ![m] = dir[n]]
  <2>1. /\ first \in [Names -> Inodes \cup {None}]
        /\ \A k \in Names : first[k] \in {dir[k], dir[n]}
    BY <1>1 DEF TypeInv
  <2>2. dir' = [first EXCEPT ![n] = None]
    BY <1>2
  <2> HIDE DEF first
  <2> QED
    BY <2>1, <2>2
<1>4. slots' \in [Slots -> SlotType]
  BY <1>1, <1>2 DEF TypeInv
<1>5. Used(dir', slots') \subseteq Used(dir, slots)
  BY <1>2, <1>3, InodesAssumption DEF Used
<1> QED
  BY <1>2, <1>3, <1>4, <1>5, FreeingStep

\* bb_release: the slot is free, with its numbers.
LEMMA ReleaseStep ==
  ASSUME IInv, NEW s \in Slots, Release(s)
  PROVE  IInv'
<1>1. TypeInv
  BY DEF IInv
<1>2. /\ slots' = [slots EXCEPT ![s].ino = None] /\ dir' = dir /\ writes' = writes
      /\ FreeUnused
  BY DEF Release
<1>3. /\ slots' \in [Slots -> SlotType] /\ slots'[s].ino = None
      /\ \A r \in Slots : r # s => slots'[r] = slots[r]
  <2> DEFINE next == [slots[s] EXCEPT !.ino = None]
  <2>1. next \in SlotType /\ next.ino = None
    BY <1>1 DEF TypeInv, SlotType
  <2>2. slots' = [slots EXCEPT ![s] = next]
    BY <1>2
  <2> HIDE DEF next
  <2> QED
    BY <1>1, <2>1, <2>2 DEF TypeInv
<1>4. dir' \in [Names -> Inodes \cup {None}]
  BY <1>1, <1>2 DEF TypeInv
<1>5. Used(dir', slots') \subseteq Used(dir, slots)
  <2>1. \A r \in Slots : slots'[r].ino = slots[r].ino \/ slots'[r].ino = None
    BY <1>3
  <2> QED
    BY <1>2, <2>1, InodesAssumption DEF Used
<1>6. \A r \in Slots : slots'[r].ino # None => slots'[r] = slots[r]
  BY <1>3
<1> QED
  BY <1>2, <1>3, <1>4, <1>5, <1>6, FreeingStep

\* The table of a new process has nothing open.
LEMMA EmptyTableIs ==
  ASSUME NEW left \in Leftovers
  PROVE  /\ EmptyTable(left) \in [Slots -> SlotType]
         /\ \A s \in Slots : EmptyTable(left)[s].ino = None
<1>1. left \in Int
  BY LeftoversAssumption
<1> QED
  BY <1>1 DEF EmptyTable, SlotType

\* main, after the process has ended: the files stay.
LEMMA RemountStep ==
  ASSUME IInv, Remount
  PROVE  IInv'
<1>1. TypeInv
  BY DEF IInv
<1>2. PICK left \in Leftovers : slots' = EmptyTable(left)
  BY DEF Remount
<1>3. dir' = dir /\ writes' = writes /\ FreeUnused
  BY DEF Remount
<1>4. slots' \in [Slots -> SlotType] /\ \A s \in Slots : slots'[s].ino = None
  BY <1>2, EmptyTableIs
<1>5. dir' \in [Names -> Inodes \cup {None}]
  BY <1>1, <1>3 DEF TypeInv
<1>6. Used(dir', slots') \subseteq Used(dir, slots)
  BY <1>3, <1>4, InodesAssumption DEF Used
<1>7. \A s \in Slots : slots'[s].ino # None => slots'[s] = slots[s]
  BY <1>4
<1> QED
  BY <1>3, <1>4, <1>5, <1>6, <1>7, FreeingStep

\* At the start nothing has a name.
LEMMA InitInv ==
  ASSUME Init
  PROVE  IInv
<1>1. PICK left \in Leftovers : slots = EmptyTable(left)
  BY DEF Init
<1>2. slots \in [Slots -> SlotType] /\ \A s \in Slots : slots[s].ino = None
  BY <1>1, EmptyTableIs
<1>3. /\ dir = [n \in Names |-> None] /\ inode = [i \in Inodes |-> Free]
      /\ log = [i \in Inodes |-> <<>>] /\ moved = {} /\ damaged = {} /\ writes = 0
  BY DEF Init
<1>4. Free \in InodeType /\ <<>> \in Seq(EntryType)
  BY DEF Free, Entry, InodeType, Kinds
<1>5. /\ inode \in [Inodes -> InodeType] /\ log \in [Inodes -> Seq(EntryType)]
      /\ dir \in [Names -> Inodes \cup {None}]
      /\ moved \subseteq damaged /\ damaged \subseteq Inodes
  BY <1>3, <1>4
<1>6. writes \in 0..MaxWrites
  BY <1>3, WritesAssumption
<1>7. TypeInv
  BY <1>2, <1>5, <1>6 DEF TypeInv
<1>8. Used(dir, slots) = {}
  BY <1>2, <1>3, InodesAssumption DEF Used
<1>9. Whole = {}
  BY <1>8 DEF Whole, Files
<1>10. FreeInv
  BY <1>3 DEF FreeInv
<1> QED
  BY <1>2, <1>7, <1>9, <1>10 DEF IInv, ExactInv, OneSlot, HeaderInv

\* What bb_mknod, bb_mkdir and bb_symlink give a name to is an inode.
LEMMA EntryIs ==
  ASSUME NEW kind \in Kinds, NEW bytes \in Seq(Byte)
  PROVE  Entry(kind, bytes) \in InodeType
  BY DEF Entry, InodeType

\* The first bytes of a file.
LEMMA PrefixIs ==
  ASSUME NEW bytes \in Seq(Byte), NEW k \in Nat, k <= Len(bytes)
  PROVE  SubSeq(bytes, 1, k) \in Seq(Byte)
<1>1. \A j \in 1..k : bytes[j] \in Byte
  OBVIOUS
<1>2. 1 \in Int /\ k \in Int
  OBVIOUS
<1> QED
  BY <1>1, <1>2, SubSeqProperties

\* Every step keeps the invariant.
LEMMA NextInv ==
  ASSUME IInv, [Next]_vars
  PROVE  IInv'
<1>1. ASSUME NEW n \in Names, Mknod(n) PROVE IInv'
  <2>1. PICK k \in Created : Make(n, Entry("file", SubSeq(NewFile, 1, k)))
    BY <1>1 DEF Mknod
  <2>2. Entry("file", SubSeq(NewFile, 1, k)) \in InodeType
    <3>1. NewFile \in Seq(Byte) /\ k \in Nat /\ k <= Len(NewFile)
      BY NewFileIs, CreatedAssumption
    <3>2. SubSeq(NewFile, 1, k) \in Seq(Byte)
      BY <3>1, PrefixIs
    <3> QED
      BY <3>2, EntryIs DEF Kinds
  <2> QED
    BY <2>1, <2>2, MakeStep
<1>2. ASSUME NEW n \in Names, Mkdir(n) \/ Symlink(n) PROVE IInv'
  <2>1. <<>> \in Seq(Byte)
    OBVIOUS
  <2>2. Entry("dir", <<>>) \in InodeType /\ Entry("link", <<>>) \in InodeType
    BY <2>1, EntryIs DEF Kinds
  <2> QED
    BY <1>2, <2>2, MakeStep DEF Mkdir, Symlink
<1>3. ASSUME NEW n \in Names, Unlink(n) \/ Rmdir(n) PROVE IInv'
  BY <1>3, UnnameStep DEF Unlink, Rmdir
<1>4. ASSUME NEW n \in Names, Truncate(n) PROVE IInv'
  <2>1. PICK length \in Lengths : Cut(dir[n], length)
    BY <1>4 DEF Truncate
  <2>2. dir[n] \in Inodes
    BY <1>4 DEF Truncate, IsFile, IInv, TypeInv
  <2> QED
    BY <2>1, <2>2, CutStep
<1>5. ASSUME NEW s \in Slots, Ftruncate(s) PROVE IInv'
  <2>1. PICK length \in Lengths : Cut(slots[s].ino, length)
    BY <1>5 DEF Ftruncate
  <2>2. slots[s].ino \in Inodes
    BY <1>5, UsedIs DEF Ftruncate, IInv
  <2> QED
    BY <2>1, <2>2, CutStep
<1>6. CASE UNCHANGED vars
  <2>1. IInv
    OBVIOUS
  <2> QED
    BY <1>6, <2>1 DEF IInv, TypeInv, FreeInv, ExactInv, OneSlot, HeaderInv, IsFile, Used,
         Whole, Files, vars
<1>7. CASE Next
  <2>1. ASSUME NEW n \in Names,
               \/ Mknod(n) \/ Mkdir(n) \/ Symlink(n) \/ Unlink(n) \/ Rmdir(n)
               \/ Chmod(n) \/ Truncate(n) \/ Open(n)
               \/ \E m \in Names : LinkName(n, m) \/ Rename(n, m)
        PROVE  IInv'
    BY <1>1, <1>2, <1>3, <1>4, <2>1, ChmodStep, OpenStep, LinkNameStep, RenameStep
  <2>2. ASSUME NEW s \in Slots,
               \/ Ftruncate(s) \/ Release(s)
               \/ \E x \in Indexes, b \in Blocks : Write(s, x, b)
        PROVE  IInv'
    BY <1>5, <2>2, ReleaseStep, WriteStep
  <2> QED
    BY <1>7, <2>1, <2>2, RemountStep DEF Next
<1> QED
  BY <1>6, <1>7

\* The invariant holds throughout.
THEOREM InvHolds == Spec => []IInv
<1>1. Init => IInv
  BY InitInv
<1>2. IInv /\ [Next]_vars => IInv'
  BY NextInv
<1> QED
  BY <1>1, <1>2, PTL DEF Spec

\* The state has its shape: what a name or a slot refers to is there, a slot has a
\* file open and nothing else, and files are made of bytes.
THEOREM TypesOK == Spec => []TypeOK
<1>1. ASSUME IInv PROVE TypeOK
  <2>1. TypeInv
    BY <1>1 DEF IInv
  <2>2. ASSUME NEW i \in Inodes
        PROVE  /\ inode[i].kind \in Kinds /\ inode[i].open \in BOOLEAN
               /\ \A k \in DOMAIN inode[i].bytes : inode[i].bytes[k] \in 0..255
    <3>1. inode[i] \in InodeType
      BY <2>1 DEF TypeInv
    <3>2. inode[i].bytes \in Seq(Byte)
      BY <3>1 DEF InodeType
    <3>3. \A k \in DOMAIN inode[i].bytes : inode[i].bytes[k] \in Byte
      BY <3>2
    <3>4. inode[i].kind \in Kinds /\ inode[i].open \in BOOLEAN
      BY <3>1 DEF InodeType
    <3> QED
      BY <3>3, <3>4 DEF Byte
  <2> QED
    BY <2>1, <2>2 DEF TypeInv, TypeOK
<1> QED
  BY <1>1, InvHolds, PTL

\* What an exact file has, in the words of the properties.
LEMMA WholeIs ==
  ASSUME IInv, NEW i \in Whole
  PROVE  /\ i \in Inodes /\ inode[i].bytes \in Seq(Byte) /\ log[i] \in Seq(EntryType)
         /\ IndexesOf(i) = IndexesIn(log[i])
         /\ \A x : FirstBlock(i, x) = FirstIn(log[i], x)
         /\ Exact(inode[i].bytes, log[i], writes)
         /\ Cardinality(IndexesOf(i)) \in Nat
         /\ HasFormat(inode[i].bytes, log[i], Cardinality(IndexesOf(i)))
<1>1. TypeInv /\ ExactInv
  BY DEF IInv
<1>2. i \in Inodes
  BY DEF Whole, Files, Used
<1>3. inode[i].bytes \in Seq(Byte) /\ log[i] \in Seq(EntryType)
  BY <1>1, <1>2, InodeIs
<1>4. IndexesOf(i) = IndexesIn(log[i])
  BY DEF IndexesOf, IndexesIn
<1>5. \A x : FirstBlock(i, x) = FirstIn(log[i], x)
  BY DEF FirstBlock, FirstIn
<1>6. Exact(inode[i].bytes, log[i], writes)
  BY <1>1 DEF ExactInv
<1>7. Cardinality(IndexesOf(i)) \in Nat
  BY <1>4, <1>6, FS_CardinalityType DEF Exact
<1> QED
  BY <1>2, <1>3, <1>4, <1>5, <1>6, <1>7 DEF Exact

\* The slot of a file that nobody cut has the numbers of its header, whoever had
\* the slot before (cfs_register_file, and the writes after it).
THEOREM SlotsAreOwn == Spec => []SlotIsOwn
<1>1. ASSUME IInv PROVE SlotIsOwn
  <2> SUFFICES ASSUME NEW s \in Slots, slots[s].ino \in Whole
               PROVE  slots[s] = SlotOf(slots[s].ino,
                                        [slots[s] EXCEPT !.size = Far, !.total = Far])
    BY DEF SlotIsOwn
  <2> DEFINE i == slots[s].ino
             bare == [slots[s] EXCEPT !.size = Far, !.total = Far]
  <2>1. inode[i].bytes \in Seq(Byte) /\ Exact(inode[i].bytes, log[i], writes)
    BY <1>1, WholeIs
  <2>2. slots[s] \in SlotType /\ HasHeader(slots[s], inode[i].bytes)
    BY <1>1 DEF IInv, TypeInv, HeaderInv
  <2>3. bare.size \in Int /\ bare.total \in Int
    <3>1. Far \in Int
      BY LimitIs DEF Far
    <3> HIDE DEF bare
    <3> QED
      BY <2>2, <3>1, SlotSet DEF bare
  <2> HIDE DEF bare
  <2>4. /\ GetWord(inode[i].bytes, SizeStart, bare.size) = slots[s].size
        /\ GetWord(inode[i].bytes, TotalStart, bare.total) = slots[s].total
    <3>1. /\ GetWord(inode[i].bytes, SizeStart, bare.size)
               = GetWord(inode[i].bytes, SizeStart, 0)
          /\ GetWord(inode[i].bytes, TotalStart, bare.total)
               = GetWord(inode[i].bytes, TotalStart, 0)
      BY <2>1, <2>3, HeaderThere
    <3> QED
      BY <2>2, <3>1 DEF HasHeader
  <2>5. SlotOf(i, bare) = [ino |-> i, size |-> slots[s].size, total |-> slots[s].total]
    BY <2>4 DEF SlotOf
  <2>6. slots[s] = [ino |-> slots[s].ino, size |-> slots[s].size, total |-> slots[s].total]
    BY <2>2 DEF SlotType
  <2> QED
    BY <2>5, <2>6 DEF bare
<1> QED
  BY <1>1, InvHolds, PTL

\* A file that nobody cut has the magic, a count, and as many pairs, one for each
\* index, with the first block written there; cfscat prints these (cfs_create_file,
\* cfs_file_register_block and the format at the top of cfs.c).
THEOREM FormatHolds == Spec => []FileFormat
<1>1. ASSUME IInv PROVE FileFormat
  <2> SUFFICES ASSUME NEW i \in Whole
               PROVE  LET bytes == inode[i].bytes IN
                      /\ Get(bytes, 0, SizeStart) = Magic
                      /\ Len(bytes) = PairAt(Cardinality(IndexesOf(i)))
                      /\ Len(Printed(bytes)) = Cardinality(IndexesOf(i))
                      /\ ToSet(Printed(bytes)) =
                           {[index |-> x, hash |-> HashOf(FirstBlock(i, x))] : x \in IndexesOf(i)}
    BY DEF FileFormat
  <2> DEFINE bytes == inode[i].bytes
             n == Cardinality(IndexesOf(i))
             printed == Printed(bytes)
             Pair(k) == [index |-> PairWord(bytes, k), hash |-> PairHash(bytes, k)]
             wanted == {[index |-> x, hash |-> HashOf(FirstBlock(i, x))] : x \in IndexesOf(i)}
  <2>1. /\ n \in Nat /\ HasFormat(bytes, log[i], n)
        /\ IndexesOf(i) = IndexesIn(log[i])
        /\ \A x : FirstBlock(i, x) = FirstIn(log[i], x)
    BY <1>1, WholeIs
  <2> HIDE DEF n
  <2>2. printed = [k \in 1..n |-> Pair(k - 1)]
    BY <2>1 DEF Printed, HasFormat, PairWord, PairHash
  <2>3. Len(printed) = n
    <3> HIDE DEF Pair
    <3> QED
      BY <2>1, <2>2
  <2>4. ToSet(printed) = {Pair(k - 1) : k \in 1..n}
    <3>1. DOMAIN printed = 1..n /\ \A k \in 1..n : printed[k] = Pair(k - 1)
      BY <2>2
    <3> HIDE DEF printed, Pair
    <3> QED
      BY <3>1 DEF ToSet
  <2>5. ASSUME NEW k \in 1..n PROVE Pair(k - 1) \in wanted
    <3>1. k - 1 \in 0..(n - 1)
      BY <2>1
    <3>2. /\ PairWord(bytes, k - 1) \in IndexesOf(i)
          /\ PairHash(bytes, k - 1) = HashOf(FirstBlock(i, PairWord(bytes, k - 1)))
      BY <2>1, <3>1 DEF HasFormat, HasPairs
    <3> QED
      BY <3>2
  <2>6. ASSUME NEW x \in IndexesOf(i)
        PROVE  [index |-> x, hash |-> HashOf(FirstBlock(i, x))] \in {Pair(k - 1) : k \in 1..n}
    <3>1. PICK k \in 0..(n - 1) : PairWord(bytes, k) = x
      BY <2>1 DEF HasFormat, HasPairs
    <3>2. PairHash(bytes, k) = HashOf(FirstBlock(i, x))
      BY <2>1, <3>1 DEF HasFormat, HasPairs
    <3>3. k + 1 \in 1..n /\ (k + 1) - 1 = k
      BY <2>1
    <3>4. Pair(k) = [index |-> x, hash |-> HashOf(FirstBlock(i, x))]
      BY <3>1, <3>2
    <3> HIDE DEF Pair
    <3>5. Pair((k + 1) - 1) = Pair(k)
      BY <3>3
    <3> QED
      BY <3>3, <3>4, <3>5
  <2>7. ToSet(printed) = wanted
    <3> HIDE DEF Pair, printed
    <3>1. wanted \subseteq {Pair(k - 1) : k \in 1..n}
      BY <2>6
    <3>2. {Pair(k - 1) : k \in 1..n} \subseteq wanted
      BY <2>5
    <3> QED
      BY <2>4, <3>1, <3>2
  <2>8. Get(bytes, 0, SizeStart) = Magic /\ Len(bytes) = PairAt(n)
    BY <2>1 DEF HasFormat, HasPairs
  <2> QED
    BY <2>3, <2>7, <2>8 DEF n
<1> QED
  BY <1>1, InvHolds, PTL

\* What a read answers where the search ends at the hash of a block.
LEMMA ReadIs ==
  ASSUME NEW bytes, NEW total, NEW x, NEW c \in Blocks,
         FindIndex(bytes, total, x) # -1, HashAt(bytes, total, x) = HashOf(c)
  PROVE  ReadBlock(bytes, total, x) = {c}
<1> DEFINE found == {b \in Blocks : HashOf(b) = HashAt(bytes, total, x)}
<1>1. ~HashIsCut(bytes, total, x)
  BY HashIs DEF HashIsCut
<1>2. ReadBlock(bytes, total, x) = IF found = {} THEN {Error} ELSE found
  BY <1>1 DEF ReadBlock
<1>3. found = {c}
  BY HashIs
<1> QED
  BY <1>2, <1>3

\* A file that nobody cut, opened in any slot, reads as the blocks first written to
\* it, and as holes elsewhere (cfs_register_file, cfs_file_read_block).
THEOREM OpenFindsHolds == Spec => []OpenFinds
<1>1. ASSUME IInv PROVE OpenFinds
  <2> SUFFICES ASSUME NEW i \in Whole, NEW s \in Slots, NEW x \in Indexes
               PROVE  ReadBlock(inode[i].bytes, SlotOf(i, slots[s]).total, x) =
                        IF x \in IndexesOf(i) THEN {FirstBlock(i, x)} ELSE {Hole}
    BY DEF OpenFinds
  <2> DEFINE bytes == inode[i].bytes
             n == Cardinality(IndexesOf(i))
             pos == FindIndex(bytes, n, x)
             hash == Get(bytes, pos + 8, HashLength)
  <2>1. /\ bytes \in Seq(Byte) /\ log[i] \in Seq(EntryType)
        /\ Exact(bytes, log[i], writes)
        /\ n \in Nat /\ HasFormat(bytes, log[i], n)
        /\ IndexesOf(i) = IndexesIn(log[i])
        /\ FirstBlock(i, x) = FirstIn(log[i], x)
    BY <1>1, WholeIs
  <2> HIDE DEF bytes, n
  <2>2. SlotOf(i, slots[s]).total = n
    <3>1. slots[s].total \in Int
      BY <1>1 DEF IInv, TypeInv, SlotType
    <3>2. GetWord(bytes, TotalStart, slots[s].total) = n
      BY <2>1, <3>1, HeaderThere DEF HasFormat
    <3> QED
      BY <3>2 DEF SlotOf, bytes
  <2>4. CASE x \notin IndexesOf(i)
    <3>1. pos = -1
      BY <2>1, <2>4, FindIs
    <3> QED
      BY <2>2, <2>4, <3>1 DEF bytes, ReadBlock
  <2>5. CASE x \in IndexesOf(i)
    <3> DEFINE c == FirstIn(log[i], x)
    <3>1. PICK k \in 0..(n - 1) : PairWord(bytes, k) = x /\ pos = PairAt(k)
      BY <2>1, <2>5, FindIs
    <3>2. hash = HashOf(c)
      BY <2>1, <3>1 DEF HasFormat, HasPairs, PairHash
    <3>3. pos # -1
      BY <3>1, PairAtIs
    <3>4. c \in Blocks
      BY <2>1, <2>5, FirstInBlocks
    <3>5. ReadBlock(bytes, n, x) = {c}
      BY <3>2, <3>3, <3>4, ReadIs DEF HashAt
    <3> QED
      BY <2>1, <2>2, <2>5, <3>5 DEF bytes, c
  <2> QED
    BY <2>4, <2>5
<1> QED
  BY <1>1, InvHolds, PTL

\* What a program reads from st_blocks and st_size, of a file that was not cut, with
\* whatever names it has and whoever wrote it (cfs_file_stat): how many indexes were
\* written, and the bytes of their blocks as long as no index was written twice.
THEOREM AttrsAreExact == Spec => []AttrExact
<1>1. ASSUME IInv PROVE AttrExact
  <2> SUFFICES ASSUME NEW n \in Names, Readable(n)
               PROVE  /\ Getattr(n).blocks = Cardinality(IndexesOf(dir[n]))
                      /\ Len(log[dir[n]]) = Cardinality(IndexesOf(dir[n])) =>
                           Getattr(n).size = Cardinality(BytesOf(dir[n]))
    BY DEF AttrExact
  <2> DEFINE i == dir[n]
  <2>1. /\ i \in Whole /\ inode[i].open
    BY DEF Readable
  <2>2. /\ inode[i].bytes \in Seq(Byte) /\ Exact(inode[i].bytes, log[i], writes)
        /\ HasFormat(inode[i].bytes, log[i], Cardinality(IndexesOf(i)))
        /\ IndexesOf(i) = IndexesIn(log[i]) /\ BytesOf(i) = BytesIn(log[i])
    BY <1>1, <2>1, WholeIs DEF BytesOf, BytesIn
  <2>3. Get(inode[i].bytes, 0, SizeStart) = Magic
    BY <2>2 DEF HasFormat
  <2>4. /\ Getattr(n).blocks = GetWord(inode[i].bytes, TotalStart, Far)
        /\ Getattr(n).size = GetWord(inode[i].bytes, SizeStart, Far)
    BY <2>1, <2>3 DEF Getattr
  <2>5. /\ GetWord(inode[i].bytes, TotalStart, Far) = Cardinality(IndexesOf(i))
        /\ GetWord(inode[i].bytes, SizeStart, Far) = GetWord(inode[i].bytes, SizeStart, 0)
    <3>1. Far \in Int
      BY LimitIs DEF Far
    <3> QED
      BY <2>2, <3>1, HeaderThere DEF HasFormat
  <2>6. Len(log[i]) = Cardinality(IndexesOf(i)) =>
          GetWord(inode[i].bytes, SizeStart, 0) = Cardinality(BytesOf(i))
    BY <2>2 DEF Exact, Sized
  <2> QED
    BY <2>4, <2>5, <2>6
<1> QED
  BY <1>1, InvHolds, PTL

\* The files that were cut, made short or moved in, none.
NoneDamaged == damaged = {}

\* Where the search finds nothing, no hash is moved.
LEMMA AddMovesNone ==
  ASSUME NEW bytes, NEW slot, NEW x, NEW b, NEW landing,
         FindIndex(bytes, slot.total, x) = -1
  PROVE  ~Registered(bytes, slot, x, b, landing).moved
<1> DEFINE found == FindIndex(bytes, slot.total, x)
<1>1. Registered(bytes, slot, x, b, landing).moved =
        (found # -1 /\ found + 8 + Len(Get(bytes, found + 8, HashLength))
                       - HashLength + (IF landing = "far" THEN Wrap ELSE 0) # found + 8)
  BY Zenon DEF Registered
<1> QED
  BY <1>1, Zenon

\* A seek that goes back moves none in a file that has its format.
LEMMA BackMovesNone ==
  ASSUME NEW bytes \in Seq(Byte), NEW entries \in Seq(EntryType), NEW n \in Nat,
         HasFormat(bytes, entries, n), NEW slot, slot.total = n,
         NEW x \in Indexes, NEW b, NEW landing, landing # "far"
  PROVE  ~Registered(bytes, slot, x, b, landing).moved
<1>1. CASE x \notin IndexesIn(entries)
  <2>1. FindIndex(bytes, slot.total, x) = -1
    BY <1>1, FindIs
  <2> QED
    BY <2>1, AddMovesNone
<1>2. CASE x \in IndexesIn(entries)
  <2>1. PICK k \in 0..(n - 1) : FindIndex(bytes, n, x) = PairAt(k)
    BY <1>2, FindIs
  <2>2. /\ PairAt(k) \in Nat /\ PairAt(k) = 23 + 28 * k /\ Len(bytes) = 23 + 28 * n
    <3>1. k \in Nat
      OBVIOUS
    <3>2. PairAt(k) \in Nat /\ PairAt(k) = 23 + 28 * k /\ PairAt(n) = 23 + 28 * n
      BY <3>1, PairAtIs, Zenon
    <3>3. Len(bytes) = PairAt(n)
      BY Zenon DEF HasFormat, HasPairs
    <3> QED
      BY <3>2, <3>3
  <2>3. PairAt(k) + 28 <= Len(bytes)
    BY <2>2
  <2>4. FindIndex(bytes, slot.total, x) = PairAt(k)
    BY <2>1
  <2> QED
    BY <2>2, <2>3, <2>4, RegisteredInPlace
<1> QED
  BY <1>1, <1>2

\* When none may be damaged, none is.
LEMMA NoneDamagedStep ==
  ASSUME MaxDamaged = 0, "far" \notin Landings, IInv, NoneDamaged, [Next]_vars
  PROVE  NoneDamaged'
<1>1. MayDamage => NoneDamaged' \/ Cardinality(damaged') <= 0
  BY DEF MayDamage, NoneDamaged
<1>2. ASSUME NEW n \in Names, NEW entry, Make(n, entry) PROVE NoneDamaged'
  <2>1. PICK i : damaged' = damaged \cup
                   IF entry.kind = "file" /\ entry.bytes # NewFile THEN {i} ELSE {}
    BY <1>2 DEF Make
  <2>2. MayDamage
    BY <1>2 DEF Make
  <2>3. damaged' = {} \/ damaged' = {i}
    BY <2>1 DEF NoneDamaged
  <2>4. Cardinality({i}) = 1
    BY FS_Singleton
  <2> QED
    BY <1>1, <2>2, <2>3, <2>4 DEF NoneDamaged
<1>3. ASSUME NEW i, NEW n, Cut(i, n) PROVE NoneDamaged'
  <2>1. damaged' = {i} /\ MayDamage
    BY <1>3 DEF Cut, NoneDamaged
  <2>2. Cardinality({i}) = 1
    BY FS_Singleton
  <2> QED
    BY <1>1, <2>1, <2>2
<1>4. FreeUnused => NoneDamaged'
  BY DEF FreeUnused, NoneDamaged
<1>5. ASSUME NEW s \in Slots, NEW x \in Indexes, NEW b \in Blocks, Write(s, x, b)
      PROVE  NoneDamaged'
  <2> DEFINE i == slots[s].ino
             Landed(landing) == Registered(inode[i].bytes, slots[s], x, b, landing)
  <2>1. PICK landing \in Landings :
          damaged' = damaged \cup IF Landed(landing).moved THEN {i} ELSE {}
    BY <1>5 DEF Write
  <2>2. TypeInv /\ HeaderInv
    BY DEF IInv
  <2>3. i # None /\ IsFile(i) /\ i \in Used(dir, slots)
    BY <1>5, <2>2, UsedIs DEF Write, TypeInv
  <2>4. i \in Whole
    BY <2>3 DEF Whole, Files, NoneDamaged
  <2> DEFINE n == Cardinality(IndexesOf(i))
  <2>5. /\ inode[i].bytes \in Seq(Byte) /\ log[i] \in Seq(EntryType)
        /\ n \in Nat /\ HasFormat(inode[i].bytes, log[i], n)
    BY <2>4, WholeIs
  <2>6. HasHeader(slots[s], inode[i].bytes)
    BY <2>2, <2>4 DEF HeaderInv
  <2>7. slots[s].total = n
    BY <2>5, <2>6 DEF HasHeader, HasFormat
  <2>8. landing # "far"
    OBVIOUS
  <2> HIDE DEF n
  <2>9. ~Landed(landing).moved
    BY <2>5, <2>7, <2>8, BackMovesNone
  <2> QED
    BY <2>1, <2>9 DEF NoneDamaged
<1>6. CASE UNCHANGED vars
  BY <1>6 DEF vars, NoneDamaged
<1>7. CASE Next
  <2>1. ASSUME NEW n \in Names,
               \/ Mknod(n) \/ Mkdir(n) \/ Symlink(n) \/ Unlink(n) \/ Rmdir(n)
               \/ Chmod(n) \/ Truncate(n) \/ Open(n)
               \/ \E m \in Names : LinkName(n, m) \/ Rename(n, m)
        PROVE  NoneDamaged'
    <3>1. CASE Mknod(n) \/ Mkdir(n) \/ Symlink(n)
      BY <1>2, <3>1 DEF Mknod, Mkdir, Symlink
    <3>2. CASE Unlink(n) \/ Rmdir(n) \/ \E m \in Names : Rename(n, m)
      BY <1>4, <3>2 DEF Unlink, Rmdir, Unname, Rename
    <3>3. CASE Truncate(n)
      BY <1>3, <3>3 DEF Truncate
    <3>4. CASE Chmod(n) \/ Open(n) \/ \E m \in Names : LinkName(n, m)
      BY <3>4 DEF Chmod, Open, LinkName, NoneDamaged
    <3> QED
      BY <2>1, <3>1, <3>2, <3>3, <3>4
  <2>2. ASSUME NEW s \in Slots,
               \/ Ftruncate(s) \/ Release(s)
               \/ \E x \in Indexes, b \in Blocks : Write(s, x, b)
        PROVE  NoneDamaged'
    BY <1>3, <1>4, <1>5, <2>2 DEF Ftruncate, Release
  <2>3. CASE Remount
    BY <1>4, <2>3 DEF Remount
  <2> QED
    BY <1>7, <2>1, <2>2, <2>3 DEF Next
<1> QED
  BY <1>6, <1>7

\* What a search has found has the index, in any file.
LEMMA FoundIs ==
  ASSUME NEW bytes \in Seq(Byte), NEW total \in Int, NEW x \in Indexes,
         FindIndex(bytes, total, x) # -1
  PROVE  /\ total # 0
         /\ \E k \in 0..Len(bytes) :
              /\ FindIndex(bytes, total, x) = PairAt(k)
              /\ PairWord(bytes, k) = x /\ PairAt(k) + 8 <= Len(bytes)
<1> DEFINE hits == {k \in 0..(Len(bytes) \div PairLength) : PairWord(bytes, k) = x}
           m == Min(hits)
<1>1. FindIndex(bytes, total, x) =
        IF total = 0 \/ hits = {} THEN -1 ELSE PairAt(m)
  BY DEF FindIndex, PairWord
<1>2. /\ total # 0 /\ hits # {} /\ hits \subseteq Nat
      /\ FindIndex(bytes, total, x) = PairAt(m)
  BY <1>1
<1>3. m \in hits
  <2> HIDE DEF hits
  <2> QED
    BY <1>2, MinNat
<1> HIDE DEF m
<1>4. m \in 0..(Len(bytes) \div 28) /\ PairWord(bytes, m) = x
  BY <1>3 DEF PairLength
<1>5. m \in 0..Len(bytes)
  BY <1>4
<1>6. x # Far /\ Far \in Int
  BY BytesAssumption, LimitIs DEF Far
<1>7. PairAt(m) + 8 <= Len(bytes)
  <2>1. PairAt(m) \in Nat
    BY <1>5, PairAtIs
  <2> QED
    BY <1>4, <1>6, <2>1, GetWordIs DEF PairWord
<1> QED
  BY <1>2, <1>4, <1>5, <1>7

\* And where there is a pair with the index, a search finds one.
LEMMA FindsOne ==
  ASSUME NEW bytes \in Seq(Byte), NEW total \in Int, total # 0, NEW x \in Int,
         NEW k \in Nat, PairWord(bytes, k) = x, PairAt(k) + 8 <= Len(bytes)
  PROVE  FindIndex(bytes, total, x) # -1
<1> DEFINE hits == {j \in 0..(Len(bytes) \div PairLength) : PairWord(bytes, j) = x}
<1>1. FindIndex(bytes, total, x) =
        IF total = 0 \/ hits = {} THEN -1 ELSE PairAt(Min(hits))
  BY DEF FindIndex, PairWord
<1>2. k \in 0..(Len(bytes) \div 28)
  <2>1. 23 + 28 * k + 8 <= Len(bytes) /\ Len(bytes) \in Nat
    BY PairAtIs
  <2> QED
    BY <2>1
<1>3. k \in hits /\ hits \subseteq Nat
  BY <1>2 DEF PairLength
<1> HIDE DEF hits
<1>4. Min(hits) \in Nat
  BY <1>3, MinNat
<1>5. PairAt(Min(hits)) \in Nat
  BY <1>4, PairAtIs
<1>6. FindIndex(bytes, total, x) = PairAt(Min(hits))
  BY <1>1, <1>3
<1> QED
  BY <1>5, <1>6

\* Where the pairs are, the header that is written leaves what is there.
LEMMA HeaderKeeps ==
  ASSUME NEW bytes \in Seq(Byte), Len(bytes) >= 23, NEW size \in Int, NEW total \in Int
  PROVE  /\ PutHeader(bytes, size, total) \in Seq(Byte)
         /\ Len(PutHeader(bytes, size, total)) = Len(bytes)
         /\ \A j \in 1..Len(bytes) :
              j >= 24 => PutHeader(bytes, size, total)[j] = bytes[j]
<1> DEFINE out == PutHeader(bytes, size, total)
<1>1. /\ out \in Seq(Byte) /\ Len(out) = IF Len(bytes) >= 23 THEN Len(bytes) ELSE 23
      /\ \A j \in 1..Len(bytes) : j <= 7 \/ j >= 24 => out[j] = bytes[j]
  BY HeaderIs
<1> HIDE DEF out
<1>2. Len(out) = Len(bytes) /\ \A j \in 1..Len(bytes) : j >= 24 => out[j] = bytes[j]
  BY <1>1
<1> QED
  BY <1>1, <1>2 DEF out

\* A hash that is put far ahead leaves the pair where the search ended.
LEMMA FarFound ==
  ASSUME NEW bytes \in Seq(Byte), NEW slot \in SlotType, NEW x \in Indexes,
         NEW b \in Blocks, FindIndex(bytes, slot.total, x) # -1
  PROVE  LET after == Registered(bytes, slot, x, b, "far") IN
         FindIndex(after.bytes, after.slot.total, x) # -1
<1> DEFINE pos == FindIndex(bytes, slot.total, x)
           old == Get(bytes, pos + 8, HashLength)
           hash == old \o SubSeq(HashOf(b), Len(old) + 1, HashLength)
           size == slot.size + b - IF pos = -1 THEN 0 ELSE BlockGetSize(hash)
           total == slot.total + IF pos = -1 THEN 1 ELSE 0
           at == pos + 8 + Len(old) - HashLength + Wrap
           body == IF pos = -1 THEN bytes \o Word(x) \o HashOf(b)
                   ELSE Put(bytes, at, hash)
           out == PutHeader(body, size, total)
<1>1. Registered(bytes, slot, x, b, "far") =
        [bytes |-> out, slot |-> [slot EXCEPT !.size = size, !.total = total],
         moved |-> pos # -1 /\ at # pos + 8]
  BY DEF Registered
<1>2. slot.size \in Int /\ slot.total \in Int /\ x \in Int /\ b \in Int
  BY BytesAssumption, LimitIs DEF SlotType
<1>3. PICK k \in 0..Len(bytes) :
        pos = PairAt(k) /\ PairWord(bytes, k) = x /\ PairAt(k) + 8 <= Len(bytes)
  BY <1>2, FoundIs
<1>4. slot.total # 0 /\ pos # -1
  BY <1>2, FoundIs
<1>5. k \in Nat /\ PairAt(k) = 23 + 28 * k
  BY PairAtIs
<1> HIDE DEF pos
<1>6. pos \in Nat /\ pos >= 23 /\ pos + 8 \in Nat /\ HashLength \in Nat /\ HashLength = 20
  BY <1>3, <1>5 DEF HashLength
<1>7. old \in Seq(Byte) /\ Len(old) \in Nat
  <2>1. old \in Seq(Byte)
    BY <1>6, GetIs
  <2> HIDE DEF old
  <2> QED
    BY <2>1
<1>8. HashOf(b) \in Seq(Byte) /\ Len(HashOf(b)) = HashLength
  BY HashIs
<1> HIDE DEF old
<1>9. hash \in Seq(Byte)
  <2> DEFINE rest == SubSeq(HashOf(b), Len(old) + 1, HashLength)
  <2>1. ASSUME NEW j \in (Len(old) + 1)..HashLength PROVE HashOf(b)[j] \in Byte
    <3>1. j \in 1..HashLength
      BY <1>6, <1>7
    <3> QED
      BY <1>8, <3>1
  <2>2. Len(old) + 1 \in Int /\ HashLength \in Int
    BY <1>6, <1>7
  <2>3. rest \in Seq(Byte)
    BY <2>1, <2>2, SubSeqProperties
  <2> HIDE DEF rest
  <2>4. old \o rest \in Seq(Byte)
    BY <1>7, <2>3
  <2> QED
    BY <2>4 DEF rest
<1> HIDE DEF hash
<1>10. size \in Int /\ total = slot.total
  BY <1>2, <1>4, BlockSizeIs
<1>11. at \in Nat /\ at > pos + 8
  BY <1>6, <1>7, WrapAssumption
<1> HIDE DEF at
<1>12. /\ body \in Seq(Byte) /\ Len(body) >= Len(bytes)
       /\ \A j \in 1..(pos + 8) : body[j] = bytes[j]
  <2> DEFINE put == Put(bytes, at, hash)
  <2>1. /\ put \in Seq(Byte)
        /\ Len(put) = IF Len(bytes) >= at + Len(hash) THEN Len(bytes) ELSE at + Len(hash)
        /\ \A j \in 1..Len(put) :
             put[j] = IF j \in (at + 1)..(at + Len(hash)) THEN hash[j - at]
                      ELSE IF j <= Len(bytes) THEN bytes[j] ELSE 0
    BY <1>9, <1>11, PutIs
  <2> HIDE DEF put
  <2>2. Len(hash) \in Nat /\ Len(bytes) \in Nat
    BY <1>9
  <2>3. Len(put) >= Len(bytes)
    BY <1>11, <2>1, <2>2
  <2>4. ASSUME NEW j \in 1..(pos + 8) PROVE put[j] = bytes[j]
    <3>1. /\ j \in 1..Len(put) /\ j <= Len(bytes)
          /\ ~(j \in (at + 1)..(at + Len(hash)))
      <4>1. pos + 8 <= Len(bytes)
        BY <1>3
      <4> QED
        BY <1>6, <1>11, <2>1, <2>2, <2>3, <4>1
    <3> QED
      BY <2>1, <3>1, Zenon
  <2>5. body = put
    BY <1>4 DEF put
  <2> HIDE DEF body
  <2> QED
    BY <2>1, <2>3, <2>4, <2>5
<1> HIDE DEF body, size
<1>13. /\ out \in Seq(Byte) /\ Len(out) = Len(body)
       /\ \A j \in 1..Len(body) : j >= 24 => out[j] = body[j]
  <2>1. size \in Int /\ total \in Int /\ body \in Seq(Byte)
    BY <1>2, <1>10, <1>12
  <2>2. Len(body) >= 23
    <3>1. Len(bytes) >= 23 /\ Len(bytes) \in Nat /\ Len(body) \in Nat
      BY <1>3, <1>5, <2>1
    <3> QED
      BY <1>12, <3>1
  <2> HIDE DEF total
  <2> QED
    BY <2>1, <2>2, HeaderKeeps, Zenon
<1> HIDE DEF out
<1>14. PairWord(out, k) = x
  <2>1. Get(out, pos, 8) = Get(bytes, pos, 8)
    <3>1. \A j \in (pos + 1)..(pos + 8) : out[j] = bytes[j]
      <4>1. \A j \in (pos + 1)..(pos + 8) : j \in 1..(pos + 8) /\ j \in 1..Len(body) /\ j >= 24
        BY <1>3, <1>6, <1>12
      <4> QED
        BY <1>12, <1>13, <4>1, Zenon
    <3>2. 8 \in Nat /\ pos + 8 <= Len(out) /\ pos + 8 <= Len(bytes)
      BY <1>3, <1>6, <1>12, <1>13
    <3> QED
      BY <1>6, <1>13, <3>1, <3>2, SameGet
  <2> QED
    BY <1>3, <2>1 DEF PairWord, GetWord
<1>15. PairAt(k) + 8 <= Len(out)
  BY <1>3, <1>5, <1>12, <1>13
<1>16. FindIndex(out, slot.total, x) # -1
  BY <1>2, <1>4, <1>5, <1>13, <1>14, <1>15, FindsOne
<1> DEFINE after == Registered(bytes, slot, x, b, "far")
<1>17. after.bytes = out /\ after.slot.total = slot.total
  <2>1. after.slot = [ino |-> slot.ino, size |-> size, total |-> total]
    <3> HIDE DEF after, total
    <3>1. /\ after.bytes = out
          /\ after.slot = [slot EXCEPT !.size = size, !.total = total]
      BY <1>1 DEF after
    <3> QED
      BY <3>1, SlotSet, Zenon
  <2> HIDE DEF total
  <2>2. after.slot.total = total
    <3> HIDE DEF after
    <3> QED
      BY <2>1
  <2> QED
    BY <1>1, <1>10, <2>2
<1> QED
  BY <1>16, <1>17, Zenon

\* After a write to a file that nobody cut, the block is found.
LEMMA WriteFound ==
  ASSUME IInv, IInv', OpenFinds', NEW s \in Slots, slots[s].ino \notin damaged,
         NEW x \in Indexes, NEW b \in Blocks, Write(s, x, b)
  PROVE  Hole \notin ReadBlock(inode'[slots[s].ino].bytes, slots'[s].total, x)
<1>1. TypeInv /\ TypeInv' /\ HeaderInv /\ ExactInv' /\ HeaderInv'
  BY DEF IInv
<1>2. PICK i \in Inodes : i = slots[s].ino
  BY <1>1, UsedIs DEF Write
<1> DEFINE Landed(landing) == Registered(inode[i].bytes, slots[s], x, b, landing)
           entry == [index |-> x, block |-> b]
           Here(landing) == IF Landed(landing).moved THEN {i} ELSE {}
<1>3. slots[s] \in SlotType /\ inode[i].bytes \in Seq(Byte) /\ log[i] \in Seq(EntryType)
  BY <1>1, InodeIs DEF TypeInv
<1>4. PICK landing \in Landings :
        /\ slots' = [slots EXCEPT ![s] = Landed(landing).slot]
        /\ inode' = [inode EXCEPT ![i].bytes = Landed(landing).bytes]
        /\ log' = [log EXCEPT ![i] = Append(log[i], entry)]
        /\ damaged' = damaged \cup Here(landing)
  BY <1>2 DEF Write
<1> DEFINE after == Landed(landing)
<1>5. after.slot.ino = i
  BY <1>2, <1>3, RegisteredType
<1>6. \A c \in Blocks : c # Hole
  BY BytesAssumption DEF Hole
<1>7. CASE after.moved
  <2>1. i \in Whole
    BY <1>1, <1>2, UsedIs DEF Write, TypeInv, Whole, Files
  <2> DEFINE n == Cardinality(IndexesOf(i))
  <2>2. n \in Nat /\ HasFormat(inode[i].bytes, log[i], n)
    BY <2>1, WholeIs
  <2>3. slots[s].total = n
    BY <1>1, <1>2, <2>1, <2>2 DEF HeaderInv, HasHeader, HasFormat
  <2> HIDE DEF n
  <2>4. landing = "far" /\ FindIndex(inode[i].bytes, slots[s].total, x) # -1
    BY <1>3, <1>7, <2>2, <2>3, BackMovesNone, AddMovesNone
  <2>5. FindIndex(after.bytes, after.slot.total, x) # -1
    BY <1>3, <2>4, FarFound
  <2> HIDE DEF Landed
  <2>6. inode'[i].bytes = after.bytes /\ slots'[s] = after.slot
    BY <1>1, <1>2, <1>4 DEF TypeInv, InodeType
  <2>7. Hole \notin ReadBlock(inode'[i].bytes, slots'[s].total, x)
    BY <1>6, <2>5, <2>6 DEF ReadBlock, Hole, Error
  <2> QED
    BY <1>2, <2>7
<1>8. CASE ~after.moved
  <2> HIDE DEF entry, Landed
  <2>1. slots'[s].ino = i
    BY <1>1, <1>4, <1>5 DEF TypeInv
  <2>2. i \in Whole'
    <3>1. i \in Used(dir', slots')
      BY <2>1 DEF Used
    <3>2. IsFile(i)'
      BY <1>1, <2>1, InodesAssumption DEF TypeInv
    <3>3. i \notin damaged'
      BY <1>2, <1>4, <1>8
    <3> QED
      BY <3>1, <3>2, <3>3 DEF Whole, Files
  <2>3. log'[i] = Append(log[i], entry) /\ log'[i] \in Seq(EntryType)
    BY <1>1, <1>4 DEF TypeInv
  <2>4. x \in IndexesIn(log'[i])
    BY <1>3, <2>3, AppendEntry DEF entry
  <2>5. FirstIn(log'[i], x) \in Blocks
    BY <2>3, <2>4, FirstInBlocks
  <2>6. SlotOf(i, slots[s])'.total = slots'[s].total
    <3>1. Exact(inode'[i].bytes, log'[i], writes') /\ HasHeader(slots'[s], inode'[i].bytes)
      BY <1>1, <2>1, <2>2 DEF ExactInv, HeaderInv
    <3>2. inode'[i].bytes \in Seq(Byte) /\ slots'[s].total \in Int
      BY <1>1 DEF TypeInv, InodeType, SlotType
    <3>3. GetWord(inode'[i].bytes, TotalStart, slots'[s].total)
            = GetWord(inode'[i].bytes, TotalStart, 0)
      BY <3>1, <3>2, HeaderThere
    <3> QED
      BY <3>1, <3>3 DEF HasHeader, SlotOf
  <2>7. ReadBlock(inode'[i].bytes, SlotOf(i, slots[s])'.total, x) = {FirstIn(log'[i], x)}
    BY <2>2, <2>4 DEF OpenFinds, IndexesOf, IndexesIn, FirstBlock, FirstIn
  <2> QED
    BY <1>2, <1>6, <2>5, <2>6, <2>7
<1> QED
  BY <1>7, <1>8

\* A block whose write to a file that nobody cut has returned is found, through the
\* handle that wrote it and wherever a rewrite put its hash (cfs_file_register_block,
\* cfs_file_find_index).
UncutWrittenIsFound ==
  [][\A s \in Slots, x \in Indexes, b \in Blocks :
       Write(s, x, b) /\ slots[s].ino \notin damaged =>
         Hole \notin ReadBlock(inode'[slots[s].ino].bytes, slots'[s].total, x)]_vars

\* WrittenIsFound without the cut that the run bad_truncate makes, beside files
\* that are cut.
THEOREM UncutWrittenIsFoundHolds == Spec => UncutWrittenIsFound
<1>1. IInv /\ IInv' /\ OpenFinds' =>
        [\A s \in Slots, x \in Indexes, b \in Blocks :
           Write(s, x, b) /\ slots[s].ino \notin damaged =>
             Hole \notin ReadBlock(inode'[slots[s].ino].bytes, slots'[s].total, x)]_vars
  BY WriteFound
<1> QED
  BY <1>1, InvHolds, OpenFindsHolds, PTL DEF UncutWrittenIsFound

\* A block whose write has returned is found, when no file is cut, none is made on
\* a full disk and the seek of a rewrite goes back (where an int and an off_t have
\* one size): what bad_truncate shows takes one of these three.
THEOREM WrittenIsFoundHolds ==
  ASSUME MaxDamaged = 0, "far" \notin Landings
  PROVE  Spec => WrittenIsFound
<1>1. Init => NoneDamaged
  BY DEF Init, NoneDamaged
<1>2. IInv /\ NoneDamaged /\ [Next]_vars => NoneDamaged'
  BY NoneDamagedStep
<1>3. IInv /\ IInv' /\ OpenFinds' /\ NoneDamaged =>
        [\A s \in Slots, x \in Indexes, b \in Blocks :
           Write(s, x, b) =>
             Hole \notin ReadBlock(inode'[slots[s].ino].bytes, slots'[s].total, x)]_vars
  BY WriteFound DEF NoneDamaged
<1> QED
  BY <1>1, <1>2, <1>3, InvHolds, OpenFindsHolds, PTL DEF Spec, WrittenIsFound

-----------------------------------------------------------------------------
(* Files that are cut anywhere.                                             *)

\* What bytes of a hash are.
HashByte == 41..220

\* A block was registered at an index.
Logged(entries, x, c) ==
  \E j \in DOMAIN entries : entries[j].index = x /\ entries[j].block = c

\* Wherever a search may look, also out of step with the pairs and at the end of a
\* cut one: an index with a whole hash was registered so.
Own(bytes, entries) ==
  \A k \in Nat, c \in Blocks :
    /\ PairAt(k) + 28 <= Len(bytes)
    /\ PairWord(bytes, k) \in Indexes /\ PairHash(bytes, k) = HashOf(c)
    => Logged(entries, PairWord(bytes, k), c)

OwnInv == \A i \in Inodes \ moved : Own(inode[i].bytes, log[i])

\* A file that ends with its header, or within, has no pairs.
LEMMA OwnShort ==
  ASSUME NEW bytes \in Seq(Byte), Len(bytes) <= 23, NEW entries
  PROVE  Own(bytes, entries)
<1>1. ASSUME NEW k \in Nat PROVE ~(PairAt(k) + 28 <= Len(bytes))
  <2>1. PairAt(k) = 23 + 28 * k
    BY PairAtIs
  <2>2. Len(bytes) \in Nat
    OBVIOUS
  <2> QED
    BY <2>1, <2>2
<1> QED
  BY <1>1 DEF Own

\* The bytes of hashes.
LEMMA HashBytes ==
  ASSUME NEW b \in Blocks, NEW j \in 1..20
  PROVE  HashOf(b)[j] \in HashByte
<1>1. HashOf(b)[j] = 40 * b + j
  BY DEF HashOf, HashLength
<1>2. b \in Int /\ 1 <= b /\ b <= 5
  BY BytesAssumption
<1> QED
  BY <1>1, <1>2 DEF HashByte

\* Where a hash is, its bytes are.
LEMMA HashThere ==
  ASSUME NEW bytes \in Seq(Byte), NEW k \in Nat, PairAt(k) + 28 <= Len(bytes),
         NEW c \in Blocks, PairHash(bytes, k) = HashOf(c), NEW j \in 1..20
  PROVE  bytes[PairAt(k) + 8 + j] \in HashByte
<1> DEFINE q == PairAt(k) + 8
           hash == Get(bytes, q, 20)
<1>1. PairAt(k) \in Nat
  BY PairAtIs
<1>2. q \in Nat /\ 20 \in Nat /\ q + 20 <= Len(bytes)
  BY <1>1
<1>3. hash = HashOf(c)
  BY DEF PairHash, HashLength
<1> HIDE DEF q
<1>4. Len(hash) = 20
  BY <1>2, GetIs
<1>5. hash[j] = bytes[q + j]
  BY <1>2, <1>4, GetAt
<1>6. hash[j] \in HashByte
  BY <1>3, HashBytes
<1> QED
  BY <1>5, <1>6 DEF q

\* Two files that agree on a pair.
LEMMA OwnSame ==
  ASSUME NEW b \in Seq(Byte), NEW c \in Seq(Byte), NEW entries, Own(b, entries),
         \A k \in Nat, d \in Blocks :
           PairAt(k) + 28 <= Len(c) /\ PairHash(c, k) = HashOf(d) =>
             /\ PairAt(k) + 28 <= Len(b)
             /\ \A j \in (PairAt(k) + 1)..(PairAt(k) + 28) : b[j] = c[j]
  PROVE  Own(c, entries)
<1> SUFFICES ASSUME NEW k \in Nat, NEW d \in Blocks, PairAt(k) + 28 <= Len(c),
                    PairWord(c, k) \in Indexes, PairHash(c, k) = HashOf(d)
             PROVE  Logged(entries, PairWord(c, k), d)
  BY DEF Own
<1>1. /\ PairAt(k) + 28 <= Len(b)
      /\ \A j \in (PairAt(k) + 1)..(PairAt(k) + 28) : b[j] = c[j]
  OBVIOUS
<1>2. PairWord(b, k) = PairWord(c, k) /\ PairHash(b, k) = PairHash(c, k)
  BY <1>1, SamePair
<1>3. Logged(entries, PairWord(b, k), d)
  BY <1>1, <1>2 DEF Own
<1> QED
  BY <1>2, <1>3

\* The log grows.
LEMMA LoggedMore ==
  ASSUME NEW entries \in Seq(EntryType), NEW entry \in EntryType, NEW x, NEW c,
         Logged(entries, x, c)
  PROVE  Logged(Append(entries, entry), x, c)
<1> DEFINE next == Append(entries, entry)
<1>1. PICK j \in DOMAIN entries : entries[j].index = x /\ entries[j].block = c
  BY DEF Logged
<1>2. j \in DOMAIN next /\ next[j] = entries[j]
  BY AppendProperties
<1> HIDE DEF next
<1>3. Logged(next, x, c)
  BY <1>1, <1>2 DEF Logged
<1> QED
  BY <1>3 DEF next

LEMMA LoggedLast ==
  ASSUME NEW entries \in Seq(EntryType), NEW x \in Indexes, NEW b \in Blocks
  PROVE  Logged(Append(entries, [index |-> x, block |-> b]), x, b)
<1> DEFINE entry == [index |-> x, block |-> b]
           next == Append(entries, entry)
           n == Len(entries) + 1
<1>1. entry \in EntryType /\ entry.index = x /\ entry.block = b
  BY DEF EntryType
<1> HIDE DEF entry
<1>2. n \in DOMAIN next /\ next[n] = entry
  BY <1>1, AppendProperties
<1> HIDE DEF n, next
<1>3. Logged(next, x, b)
  BY <1>1, <1>2 DEF Logged
<1> QED
  BY <1>3 DEF next, entry

LEMMA OwnMore ==
  ASSUME NEW bytes, NEW entries \in Seq(EntryType), NEW entry \in EntryType,
         Own(bytes, entries)
  PROVE  Own(bytes, Append(entries, entry))
  BY LoggedMore DEF Own

\* The header is written.
LEMMA OwnHeader ==
  ASSUME NEW bytes \in Seq(Byte), Len(bytes) >= 23, NEW entries, Own(bytes, entries),
         NEW size \in Int, NEW total \in Int
  PROVE  Own(PutHeader(bytes, size, total), entries)
<1> DEFINE out == PutHeader(bytes, size, total)
<1>1. /\ out \in Seq(Byte) /\ Len(out) = Len(bytes)
      /\ \A j \in 1..Len(bytes) : j >= 24 => out[j] = bytes[j]
  BY HeaderKeeps
<1> HIDE DEF out
<1>2. ASSUME NEW k \in Nat, PairAt(k) + 28 <= Len(out)
      PROVE  /\ PairAt(k) + 28 <= Len(bytes)
             /\ \A j \in (PairAt(k) + 1)..(PairAt(k) + 28) : bytes[j] = out[j]
  <2>1. PairAt(k) = 23 + 28 * k /\ PairAt(k) \in Nat
    BY PairAtIs
  <2>2. PairAt(k) + 28 <= Len(bytes)
    BY <1>1, <1>2
  <2>3. \A j \in (PairAt(k) + 1)..(PairAt(k) + 28) : j \in 1..Len(bytes) /\ j >= 24
    BY <2>1, <2>2
  <2> QED
    BY <1>1, <2>2, <2>3
<1>3. Own(out, entries)
  BY <1>1, <1>2, OwnSame
<1> QED
  BY <1>3 DEF out

\* How far across the end.
LEMMA Across ==
  ASSUME NEW p \in Nat, NEW len \in Nat, p < len, len < p + 28
  PROVE  \E d \in 1..27 : len = p + d
<1>1. len - p \in 1..27 /\ len = p + (len - p)
  OBVIOUS
<1> QED
  BY <1>1

\* A pair is appended, in step with the others or out of it.  Where a search looks
\* across the end that the file had, it meets a byte of the index among those of
\* the hash.
LEMMA OwnAppend ==
  ASSUME NEW bytes \in Seq(Byte), NEW entries \in Seq(EntryType), Own(bytes, entries),
         NEW x \in Indexes, x % 256 \notin HashByte, NEW b \in Blocks
  PROVE  Own(bytes \o Word(x) \o HashOf(b),
             Append(entries, [index |-> x, block |-> b]))
<1> DEFINE body == bytes \o Word(x) \o HashOf(b)
           entry == [index |-> x, block |-> b]
           next == Append(entries, entry)
           len == Len(bytes)
<1>1. /\ body \in Seq(Byte) /\ Len(body) = len + 28
      /\ \A k \in 1..len : body[k] = bytes[k]
      /\ \A k \in 1..8 : body[len + k] = Word(x)[k]
  BY AddedPair
<1>2. entry \in EntryType
  BY DEF EntryType
<1>3. \A n \in Nat : len = PairAt(n) => PairWord(body, n) = x /\ PairHash(body, n) = HashOf(b)
  BY AddedAt
<1>4. Logged(next, x, b)
  BY LoggedLast
<1>5. Own(bytes, next)
  BY <1>2, OwnMore
<1>6. Word(x)[1] = x % 256 /\ Word(x)[8] = 0
  <2>1. ~(x < 0)
    BY BytesAssumption
  <2> QED
    BY <2>1 DEF Word
<1>7. 0 \notin HashByte /\ len \in Nat
  BY DEF HashByte
<1> HIDE DEF body, next, len
<1> SUFFICES ASSUME NEW k \in Nat, NEW c \in Blocks, PairAt(k) + 28 <= Len(body),
                    PairWord(body, k) \in Indexes, PairHash(body, k) = HashOf(c)
             PROVE  Logged(next, PairWord(body, k), c)
  BY DEF Own, body, next
<1> DEFINE p == PairAt(k)
<1>8. p \in Nat /\ p <= len
  <2>1. p \in Nat
    BY PairAtIs, Zenon
  <2>2. p + 28 <= len + 28
    BY <1>1, Zenon
  <2> HIDE DEF p
  <2> QED
    BY <1>7, <2>1, <2>2
<1>9. \A j \in 1..20 : body[p + 8 + j] \in HashByte
  BY <1>1, HashThere
<1>10. CASE p + 28 <= len
  <2>1. p + 28 <= Len(bytes)
    BY <1>10 DEF len
  <2>2. \A j \in (p + 1)..(p + 28) : bytes[j] = body[j]
    <3>1. \A j \in (p + 1)..(p + 28) : j \in 1..len
      BY <1>7, <1>8, <1>10
    <3> QED
      BY <1>1, <3>1
  <2>3. PairWord(bytes, k) = PairWord(body, k) /\ PairHash(bytes, k) = PairHash(body, k)
    BY <1>1, <2>1, <2>2, SamePair
  <2> QED
    BY <1>5, <2>1, <2>3 DEF Own
<1>11. CASE p = len
  <2>1. PairWord(body, k) = x /\ PairHash(body, k) = HashOf(b)
    BY <1>3, <1>11
  <2>2. b = c
    BY <2>1, HashIs
  <2> QED
    BY <1>4, <2>1, <2>2
<1>12. CASE p < len /\ len < p + 28
  <2> HIDE DEF p
  <2>1. PICK d \in 1..27 : len = p + d
    BY <1>7, <1>8, <1>12, Across, Zenon
  <2>2. CASE d < 8
    <3>1. len + 8 = p + 8 + d /\ d \in 1..20 /\ 8 \in 1..8
      BY <1>8, <2>1, <2>2
    <3>2. body[len + 8] = 0
      BY <1>1, <1>6, <3>1
    <3> QED
      BY <1>7, <1>9, <3>1, <3>2
  <2>3. CASE d >= 8
    <3> DEFINE j == d - 7
    <3>1. len + 1 = p + 8 + j /\ j \in 1..20 /\ 1 \in 1..8
      BY <1>8, <2>1, <2>3
    <3> HIDE DEF j
    <3>2. body[len + 1] = x % 256
      BY <1>1, <1>6, <3>1
    <3> QED
      BY <1>9, <3>1, <3>2
  <2> QED
    BY <2>1, <2>2, <2>3
<1> QED
  BY <1>7, <1>8, <1>10, <1>11, <1>12

\* A block is registered in any file.
LEMMA OwnRegistered ==
  ASSUME NEW bytes \in Seq(Byte), NEW entries \in Seq(EntryType), Own(bytes, entries),
         NEW slot \in SlotType, NEW x \in Indexes, x % 256 \notin HashByte,
         NEW b \in Blocks, NEW landing,
         ~Registered(bytes, slot, x, b, landing).moved
  PROVE  Own(Registered(bytes, slot, x, b, landing).bytes,
             Append(entries, [index |-> x, block |-> b]))
<1> DEFINE entry == [index |-> x, block |-> b]
           next == Append(entries, entry)
           after == Registered(bytes, slot, x, b, landing)
           pos == FindIndex(bytes, slot.total, x)
<1>1. slot.size \in Int /\ slot.total \in Int /\ x \in Int /\ b \in Int
  BY BytesAssumption DEF SlotType
<1>2. entry \in EntryType
  BY DEF EntryType
<1>3. CASE pos = -1
  <2> DEFINE body == bytes \o Word(x) \o HashOf(b)
  <2>1. after.bytes = PutHeader(body, slot.size + b, slot.total + 1)
    BY <1>3, RegisteredAdd
  <2>2. Own(body, next)
    BY OwnAppend
  <2>3. body \in Seq(Byte) /\ Len(body) = Len(bytes) + 28
    BY AddedPair
  <2> HIDE DEF body, after, next
  <2>4. Len(body) >= 23
    BY <2>3
  <2>5. slot.size + b \in Int /\ slot.total + 1 \in Int
    BY <1>1
  <2>6. Own(PutHeader(body, slot.size + b, slot.total + 1), next)
    BY <2>2, <2>3, <2>4, <2>5, OwnHeader
  <2> QED
    BY <2>1, <2>6 DEF after, next
<1>4. CASE pos # -1
  <2> DEFINE size == slot.size + b - BlockGetSize(Get(bytes, pos + 8, HashLength))
  <2>1. pos \in Nat /\ pos >= 23
    BY <1>1, <1>4, FindType
  <2>2. pos + 28 <= Len(bytes) /\ after.bytes = PutHeader(bytes, size, slot.total)
    BY <2>1, RegisteredAt
  <2>3. size \in Int
    <3> DEFINE hash == Get(bytes, pos + 8, HashLength)
    <3>1. BlockGetSize(hash) \in Int
      BY BlockSizeIs
    <3> HIDE DEF hash
    <3>2. slot.size + b - BlockGetSize(hash) \in Int
      BY <1>1, <3>1
    <3> QED
      BY <3>2 DEF hash
  <2> HIDE DEF after, size, pos
  <2>4. Own(bytes, next)
    BY <1>2, OwnMore
  <2> HIDE DEF next
  <2>5. Len(bytes) >= 23
    <3>1. Len(bytes) \in Nat
      OBVIOUS
    <3> QED
      BY <2>1, <2>2, <3>1
  <2>6. Own(PutHeader(bytes, size, slot.total), next)
    BY <1>1, <2>3, <2>4, <2>5, OwnHeader
  <2> QED
    BY <2>2, <2>6 DEF after, next
<1> QED
  BY <1>3, <1>4

\* A cut takes bytes off the end, or adds zeroes, which no hash ends with.
LEMMA OwnResize ==
  ASSUME NEW bytes \in Seq(Byte), NEW entries, Own(bytes, entries), NEW n \in Lengths
  PROVE  Own(Resize(bytes, n), entries)
<1> DEFINE out == Resize(bytes, n)
<1>1. n \in Nat
  <2>1. 0 \in Nat /\ 7 \in Nat /\ 15 \in Nat
    OBVIOUS
  <2>2. n \in {0, 7, 15} \/ n \in Nat
    BY LengthsAssumption
  <2> QED
    BY <2>1, <2>2
<1>2. /\ out \in Seq(Byte) /\ Len(out) = n
      /\ \A k \in 1..n : out[k] = IF k <= Len(bytes) THEN bytes[k] ELSE 0
  BY <1>1, ResizeIs
<1> HIDE DEF out
<1>3. ASSUME NEW k \in Nat, NEW d \in Blocks,
             PairAt(k) + 28 <= Len(out), PairHash(out, k) = HashOf(d)
      PROVE  /\ PairAt(k) + 28 <= Len(bytes)
             /\ \A j \in (PairAt(k) + 1)..(PairAt(k) + 28) : bytes[j] = out[j]
  <2>1. PairAt(k) \in Nat /\ 20 \in 1..20 /\ Len(bytes) \in Nat
    <3>1. PairAt(k) \in Nat
      BY PairAtIs, Zenon
    <3>2. 20 \in 1..20 /\ Len(bytes) \in Nat
      OBVIOUS
    <3> QED
      BY <3>1, <3>2, Zenon
  <2>2. out[PairAt(k) + 8 + 20] \in HashByte
    BY <1>2, <1>3, <2>1, HashThere
  <2>3. PairAt(k) + 8 + 20 = PairAt(k) + 28 /\ PairAt(k) + 28 \in 1..n
    BY <1>1, <1>2, <1>3, <2>1
  <2>4. out[PairAt(k) + 28] # 0
    <3>1. \A v \in HashByte : v # 0
      BY DEF HashByte
    <3> QED
      BY <2>2, <2>3, <3>1, Zenon
  <2>5. PairAt(k) + 28 <= Len(bytes)
    BY <1>2, <2>3, <2>4
  <2>6. \A j \in (PairAt(k) + 1)..(PairAt(k) + 28) : j \in 1..n /\ j <= Len(bytes)
    BY <1>1, <2>1, <2>3, <2>5
  <2> QED
    BY <1>2, <2>5, <2>6
<1>4. Own(out, entries)
  BY <1>2, <1>3, OwnSame
<1> QED
  BY <1>4 DEF out

\* Inodes that are made free have nothing to find.
LEMMA OwnFreeing ==
  ASSUME OwnInv, FreeUnused
  PROVE  OwnInv'
<1>1. Own(<<>>, <<>>)
  <2>1. <<>> \in Seq(Byte) /\ Len(<<>>) <= 23
    OBVIOUS
  <2> QED
    BY <2>1, OwnShort
<1> SUFFICES ASSUME NEW i \in Inodes \ moved' PROVE Own(inode'[i].bytes, log'[i])
  BY DEF OwnInv
<1>2. CASE i \in Used(dir', slots')
  <2>1. inode'[i] = inode[i] /\ log'[i] = log[i] /\ i \notin moved
    BY <1>2 DEF FreeUnused
  <2> QED
    BY <2>1 DEF OwnInv
<1>3. CASE i \notin Used(dir', slots')
  <2>1. inode'[i] = Free /\ log'[i] = <<>>
    BY <1>3 DEF FreeUnused
  <2>2. inode'[i].bytes = <<>>
    BY <2>1 DEF Free, Entry
  <2> QED
    BY <1>1, <2>1, <2>2
<1> QED
  BY <1>2, <1>3

\* Nor have those that get a name.
LEMMA OwnMake ==
  ASSUME TypeInv, OwnInv, NEW n \in Names, NEW entry \in InodeType, Make(n, entry),
         Len(entry.bytes) <= 23
  PROVE  OwnInv'
<1>1. PICK i \in Inodes :
        inode' = [inode EXCEPT ![i] = entry] /\ log' = log /\ moved' = moved
  BY DEF Make
<1>2. /\ inode'[i] = entry
      /\ \A j \in Inodes : j # i => inode'[j] = inode[j]
  BY <1>1 DEF TypeInv
<1>3. entry.bytes \in Seq(Byte)
  BY DEF InodeType
<1>4. Own(entry.bytes, log[i])
  BY <1>3, OwnShort
<1> QED
  BY <1>1, <1>2, <1>4 DEF OwnInv

\* A file that is cut.
LEMMA OwnCut ==
  ASSUME TypeInv, OwnInv, NEW i \in Inodes, NEW n \in Lengths, Cut(i, n)
  PROVE  OwnInv'
<1>1. inode' = [inode EXCEPT ![i].bytes = Resize(@, n)] /\ log' = log /\ moved' = moved
  BY DEF Cut
<1>2. inode'[i].bytes = Resize(inode[i].bytes, n)
  BY <1>1 DEF TypeInv, InodeType
<1>3. \A j \in Inodes : j # i => inode'[j] = inode[j]
  BY <1>1 DEF TypeInv
<1>4. inode[i].bytes \in Seq(Byte)
  BY InodeIs
<1>5. i \notin moved => Own(Resize(inode[i].bytes, n), log[i])
  BY <1>4, OwnResize DEF OwnInv
<1> QED
  BY <1>1, <1>2, <1>3, <1>5 DEF OwnInv

\* And one in which a block is registered.
LEMMA OwnWrite ==
  ASSUME TypeInv, OwnInv, NEW s \in Slots, NEW x \in Indexes, x % 256 \notin HashByte,
         NEW b \in Blocks, Write(s, x, b)
  PROVE  OwnInv'
<1> DEFINE i == slots[s].ino
           Landed(landing) == Registered(inode[i].bytes, slots[s], x, b, landing)
           Here(landing) == IF Landed(landing).moved THEN {i} ELSE {}
           next == Append(log[i], [index |-> x, block |-> b])
<1>1. i \in Inodes /\ slots[s] \in SlotType
  BY UsedIs DEF Write, TypeInv
<1>2. inode[i].bytes \in Seq(Byte) /\ log[i] \in Seq(EntryType) /\ inode[i] \in InodeType
  BY <1>1, InodeIs
<1>3. PICK landing \in Landings :
        /\ inode' = [inode EXCEPT ![i].bytes = Landed(landing).bytes]
        /\ log' = [log EXCEPT ![i] = next]
        /\ moved' = moved \cup Here(landing)
  BY DEF Write
<1> DEFINE after == Landed(landing)
<1>4. i \notin moved /\ ~after.moved => Own(after.bytes, next)
  BY <1>1, <1>2, OwnRegistered DEF OwnInv
<1>5. i \notin moved' => i \notin moved /\ ~after.moved
  BY <1>3
<1>6. moved \subseteq moved'
  BY <1>3
<1> HIDE DEF i, Landed, next, Here
<1>7. inode'[i].bytes = after.bytes /\ log'[i] = next
  BY <1>1, <1>3 DEF TypeInv, InodeType
<1>8. \A j \in Inodes : j # i => inode'[j] = inode[j] /\ log'[j] = log[j]
  BY <1>1, <1>3 DEF TypeInv
<1> QED
  BY <1>4, <1>5, <1>6, <1>7, <1>8 DEF OwnInv

\* Every step keeps it.
LEMMA OwnNext ==
  ASSUME \A x \in Indexes : x % 256 \notin HashByte,
         TypeInv, OwnInv, [Next]_vars
  PROVE  OwnInv'
<1>1. ASSUME NEW n \in Names, Mknod(n) PROVE OwnInv'
  <2>1. PICK k \in Created : Make(n, Entry("file", SubSeq(NewFile, 1, k)))
    BY <1>1 DEF Mknod
  <2> DEFINE bytes == SubSeq(NewFile, 1, k)
             entry == Entry("file", bytes)
  <2>2. NewFile \in Seq(Byte) /\ k \in Nat /\ k <= Len(NewFile) /\ k \in {0, 7, 15, 23}
    BY NewFileIs, CreatedAssumption
  <2>3. bytes \in Seq(Byte) /\ Len(bytes) = k
    BY <2>2, PrefixIs
  <2> HIDE DEF bytes
  <2>4. entry \in InodeType
    BY <2>3, EntryIs DEF Kinds
  <2>5. entry.bytes = bytes
    BY DEF Entry
  <2> HIDE DEF entry
  <2>6. Len(entry.bytes) <= 23
    <3>1. \A q \in {0, 7, 15, 23} : q <= 23
      OBVIOUS
    <3> QED
      BY <2>2, <2>3, <2>5, <3>1, Zenon
  <2>7. Make(n, entry)
    BY <2>1 DEF entry, bytes
  <2> QED
    BY <2>4, <2>6, <2>7, OwnMake
<1>2. ASSUME NEW n \in Names, NEW kind \in Kinds, Make(n, Entry(kind, <<>>)) PROVE OwnInv'
  <2>1. <<>> \in Seq(Byte) /\ Len(<<>>) <= 23
    OBVIOUS
  <2>2. Entry(kind, <<>>) \in InodeType /\ Entry(kind, <<>>).bytes = <<>>
    BY <2>1, EntryIs DEF Entry
  <2> QED
    BY <1>2, <2>1, <2>2, OwnMake
<1>3. ASSUME NEW n \in Names, Truncate(n) PROVE OwnInv'
  <2>1. PICK length \in Lengths : Cut(dir[n], length)
    BY <1>3 DEF Truncate
  <2>2. dir[n] \in Inodes
    BY <1>3 DEF Truncate, IsFile, TypeInv
  <2> QED
    BY <2>1, <2>2, OwnCut
<1>4. ASSUME NEW s \in Slots, Ftruncate(s) PROVE OwnInv'
  <2>1. PICK length \in Lengths : Cut(slots[s].ino, length)
    BY <1>4 DEF Ftruncate
  <2>2. slots[s].ino \in Inodes
    BY <1>4, UsedIs DEF Ftruncate
  <2> QED
    BY <2>1, <2>2, OwnCut
<1>5. ASSUME NEW n \in Names, Chmod(n) PROVE OwnInv'
  <2>1. /\ dir[n] \in Inodes /\ inode' = [inode EXCEPT ![dir[n]].open = ~@]
        /\ log' = log /\ moved' = moved
    BY <1>5 DEF Chmod, IsFile, TypeInv
  <2>2. \A j \in Inodes : inode'[j].bytes = inode[j].bytes
    BY <2>1 DEF TypeInv, InodeType
  <2> QED
    BY <2>1, <2>2 DEF OwnInv
<1>6. ASSUME inode' = inode, log' = log, moved' = moved PROVE OwnInv'
  BY <1>6 DEF OwnInv
<1>7. CASE UNCHANGED vars
  BY <1>6, <1>7 DEF vars
<1>8. CASE Next
  <2>1. ASSUME NEW n \in Names,
               \/ Mknod(n) \/ Mkdir(n) \/ Symlink(n) \/ Unlink(n) \/ Rmdir(n)
               \/ Chmod(n) \/ Truncate(n) \/ Open(n)
               \/ \E m \in Names : LinkName(n, m) \/ Rename(n, m)
        PROVE  OwnInv'
    <3>1. CASE Mkdir(n) \/ Symlink(n)
      BY <1>2, <3>1 DEF Mkdir, Symlink, Kinds
    <3>2. CASE Unlink(n) \/ Rmdir(n) \/ \E m \in Names : Rename(n, m)
      BY <3>2, OwnFreeing DEF Unlink, Rmdir, Unname, Rename
    <3>3. CASE Open(n) \/ \E m \in Names : LinkName(n, m)
      BY <1>6, <3>3 DEF Open, LinkName
    <3> QED
      BY <1>1, <1>3, <1>5, <2>1, <3>1, <3>2, <3>3
  <2>2. ASSUME NEW s \in Slots,
               \/ Ftruncate(s) \/ Release(s)
               \/ \E x \in Indexes, b \in Blocks : Write(s, x, b)
        PROVE  OwnInv'
    BY <1>4, <2>2, OwnFreeing, OwnWrite DEF Release
  <2>3. CASE Remount
    BY <2>3, OwnFreeing DEF Remount
  <2> QED
    BY <1>8, <2>1, <2>2, <2>3 DEF Next
<1> QED
  BY <1>7, <1>8

\* What a read answers, where the search ends at no hash that is cut.
LEMMA OwnRead ==
  ASSUME NEW bytes \in Seq(Byte), NEW entries \in Seq(EntryType), Own(bytes, entries),
         NEW total \in Int, NEW x \in Indexes, ~HashIsCut(bytes, total, x)
  PROVE  ReadBlock(bytes, total, x) \subseteq {Hole, Error} \cup
           {entries[k].block : k \in {j \in DOMAIN entries : entries[j].index = x}}
<1> DEFINE found == {b \in Blocks : HashOf(b) = HashAt(bytes, total, x)}
           mine == {entries[k].block : k \in {j \in DOMAIN entries : entries[j].index = x}}
<1>1. ReadBlock(bytes, total, x) =
        IF FindIndex(bytes, total, x) = -1 THEN {Hole}
        ELSE IF found = {} THEN {Error} ELSE found
  BY DEF ReadBlock
<1>2. ASSUME FindIndex(bytes, total, x) # -1, NEW c \in found PROVE c \in mine
  <2>1. PICK k \in 0..Len(bytes) :
          FindIndex(bytes, total, x) = PairAt(k) /\ PairWord(bytes, k) = x
    BY <1>2, FoundIs
  <2>2. k \in Nat /\ PairAt(k) \in Nat
    BY PairAtIs
  <2>3. HashAt(bytes, total, x) = PairHash(bytes, k)
    BY <2>1 DEF HashAt, PairHash
  <2>4. Len(PairHash(bytes, k)) = HashLength
    BY <1>2, <2>3 DEF HashIsCut
  <2>5. PairAt(k) + 28 <= Len(bytes)
    <3> DEFINE q == PairAt(k) + 8
    <3>1. q \in Nat /\ 20 \in Nat
      BY <2>2
    <3>2. Len(Get(bytes, q, 20)) = 20
      <4>1. HashLength = 20
        BY DEF HashLength
      <4> HIDE DEF found, mine
      <4> QED
        BY <2>4, <4>1, Zenon DEF PairHash
    <3> HIDE DEF q
    <3>3. q + 20 <= Len(bytes)
      <4> HIDE DEF found, mine
      <4> DEFINE n == Len(Get(bytes, q, 20))
      <4>1. n = IF q + 20 <= Len(bytes) THEN 20
                ELSE IF q <= Len(bytes) THEN Len(bytes) - q ELSE 0
        BY <3>1, GetIs, Zenon
      <4>2. n = 20 /\ Len(bytes) \in Nat
        BY <3>2
      <4> HIDE DEF n
      <4> QED
        BY <3>1, <4>1, <4>2
    <3> QED
      BY <2>2, <3>3 DEF q
  <2>6. PairHash(bytes, k) = HashOf(c)
    BY <2>3
  <2>7. Logged(entries, x, c)
    BY <2>1, <2>2, <2>5, <2>6 DEF Own
  <2> QED
    BY <2>7 DEF Logged
<1> QED
  BY <1>1, <1>2

\* A file in which no rewrite put a hash elsewhere than it was.
UnmovedReadsOwn == \A i \in Files \ moved : ReadsOwn(i)

\* No read, of a file that was cut at any length and with whatever count a slot has,
\* answers with a block of another index or of another file, save where the cut
\* left an index without its whole hash (cfs_file_find_index goes by bytes that
\* look like an index, wherever they are).  That no hash has the low byte of an
\* index is asked: else the start of a pair that is appended to a cut file may
\* complete what looks like a hash.
THEOREM NoBlockIsWrong ==
  ASSUME \A x \in Indexes : x % 256 \notin HashByte
  PROVE  Spec => []UnmovedReadsOwn
<1>1. ASSUME Init PROVE OwnInv
  <2>1. Own(<<>>, <<>>)
    <3>1. <<>> \in Seq(Byte) /\ Len(<<>>) <= 23
      OBVIOUS
    <3> QED
      BY <3>1, OwnShort
  <2>2. \A i \in Inodes : inode[i].bytes = <<>> /\ log[i] = <<>>
    BY <1>1 DEF Init, Free, Entry
  <2> QED
    BY <2>1, <2>2 DEF OwnInv
<1>2. IInv /\ OwnInv /\ [Next]_vars => OwnInv'
  BY OwnNext DEF IInv
<1>3. ASSUME IInv, OwnInv PROVE UnmovedReadsOwn
  <2> SUFFICES ASSUME NEW i \in Files \ moved, NEW x \in Indexes, NEW total \in {0, 1},
                      ~HashIsCut(inode[i].bytes, total, x)
               PROVE  ReadBlock(inode[i].bytes, total, x)
                        \subseteq {Hole, Error} \cup BlocksOf(i, x)
    BY DEF UnmovedReadsOwn, ReadsOwn
  <2>1. i \in Inodes
    BY DEF Files, Used
  <2>2. inode[i].bytes \in Seq(Byte) /\ log[i] \in Seq(EntryType)
    BY <1>3, <2>1, InodeIs DEF IInv
  <2>3. Own(inode[i].bytes, log[i]) /\ total \in Int
    BY <1>3, <2>1 DEF OwnInv
  <2> QED
    BY <2>2, <2>3, OwnRead DEF BlocksOf
<1> QED
  BY <1>1, <1>2, <1>3, InvHolds, PTL DEF Spec

=============================================================================
