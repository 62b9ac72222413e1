--------------------------- MODULE Bcache_proofs ---------------------------
(*************************************************************************)
(* The bit fields and variable-length keys of bcache.h implement a list  *)
(* of records (KeyList), for every size of a node, every number of calls *)
(* and every set of 64-bit values.                                       *)
(*************************************************************************)
EXTENDS Bcache, SequenceTheorems, TLAPS

-----------------------------------------------------------------------------
(* Bit fields.                                                           *)

\* A field lies in the word, and two fields share no bit.
IsField(f) == f.offset \in Nat /\ f.size \in Nat /\ f.offset + f.size <= 64
Apart(f, g) == f.offset + f.size <= g.offset \/ g.offset + g.size <= f.offset

\* What a field of the given width keeps of a value.
Cut(v, n) == {b \in v : b < n}

\* SET_name then name gives the value back, cut to the field.
LEMMA GetPutSame ==
  ASSUME NEW w \in Word, NEW v \in Word, NEW f, IsField(f)
  PROVE  Get(Put(w, f, v), f) = Cut(v, f.size)
<1>1. f.offset \in Nat /\ f.size \in Nat /\ \A c \in v : c \in Nat
  BY DEF IsField, Word, WORD
<1>2. ASSUME NEW b \in 0..(f.size - 1)
      PROVE  b + f.offset \in Put(w, f, v) <=> b \in v
  <2>1. b + f.offset \in FieldBits(f)
    BY <1>1 DEF FieldBits
  <2>2. \A c \in v : c + f.offset = b + f.offset => c = b
    BY <1>1
  <2>3. b < f.size
    BY <1>1
  <2> QED
    BY <2>1, <2>2, <2>3 DEF Put
<1>3. \A b \in v : b < f.size <=> b \in 0..(f.size - 1)
  BY <1>1
<1> QED
  BY <1>2, <1>3 DEF Get, Cut

\* SET_name leaves every other field alone.
LEMMA GetPutOther ==
  ASSUME NEW w \in Word, NEW v \in Word, NEW f, NEW g, IsField(f), IsField(g), Apart(f, g)
  PROVE  Get(Put(w, f, v), g) = Get(w, g)
<1>1. ASSUME NEW b PROVE b \in Get(Put(w, f, v), g) <=> b \in Get(w, g)
  BY DEF Get, Put, FieldBits, IsField, Apart, Word, WORD
<1> QED
  BY <1>1

\* SET_name makes a word of a word.
LEMMA PutType ==
  ASSUME NEW w \in Word, NEW v \in Word, NEW f, IsField(f)
  PROVE  Put(w, f, v) \in Word
<1>1. \A c \in v : c < f.size => c + f.offset \in WORD
  BY DEF IsField, Word, WORD
<1> QED
  BY <1>1 DEF Put, Word

\* A getter reads a word.
LEMMA GetType ==
  ASSUME NEW w, NEW f, IsField(f)
  PROVE  Get(w, f) \in Word
BY DEF Get, IsField, Word, WORD

\* Cutting a value that fits changes nothing.
LEMMA CutFits ==
  ASSUME NEW v, NEW f, Fits(v, f)
  PROVE  Cut(v, f.size) = v
BY DEF Cut, Fits

KeyNames == {"HEADER_SIZE", "KEY_CSUM", "KEY_PINNED", "KEY_DIRTY", "KEY_SIZE", "KEY_INODE"}
PtrNames == {"PTR_DEV", "PTR_OFFSET", "PTR_GEN"}
CacheNames == {"CACHE_SYNC", "CACHE_DISCARD", "CACHE_REPLACEMENT"}
BdevNames == {"BDEV_CACHE_MODE", "BDEV_STATE"}

\* The fields of the first word of a key share no bit with one another, nor with
\* the number of pointers.
LEMMA KeyFieldsApart ==
  /\ DOMAIN KeyFields = KeyNames
  /\ \A f \in KeyNames : IsField(KeyFields[f]) /\ Apart(KeyFields[f], KEY_PTRS)
  /\ \A f, g \in KeyNames : f # g => Apart(KeyFields[f], KeyFields[g])
  /\ IsField(KEY_PTRS)
<1>1. DOMAIN KeyFields = KeyNames
  BY DEF KeyFields, KeyNames
<1>2. \A f \in KeyNames : IsField(KeyFields[f]) /\ Apart(KeyFields[f], KEY_PTRS)
  BY DEF KeyFields, KeyNames, IsField, Apart, Field, KEY_PTRS, KEY_SIZE_BITS
<1>3. \A f, g \in KeyNames : f # g => Apart(KeyFields[f], KeyFields[g])
  BY DEF KeyFields, KeyNames, Apart, Field, KEY_SIZE_BITS
<1>4. IsField(KEY_PTRS)
  BY DEF IsField, Field, KEY_PTRS
<1> QED
  BY <1>1, <1>2, <1>3, <1>4

\* The fields of a pointer share no bit.
LEMMA PtrFieldsApart ==
  /\ DOMAIN PtrFields = PtrNames
  /\ \A f \in PtrNames : IsField(PtrFields[f])
  /\ \A f, g \in PtrNames : f # g => Apart(PtrFields[f], PtrFields[g])
BY DEF PtrFields, PtrNames, IsField, Apart, Field, PTR_DEV_BITS

\* Nor do those of either kind of superblock.
LEMMA SbFieldsApart ==
  /\ DOMAIN SbFields = IF SB_IS_BDEV THEN BdevNames ELSE CacheNames
  /\ \A f \in DOMAIN SbFields : IsField(SbFields[f])
  /\ \A f, g \in DOMAIN SbFields : f # g => Apart(SbFields[f], SbFields[g])
<1>1. /\ DOMAIN CacheFields = CacheNames
      /\ \A f \in CacheNames : IsField(CacheFields[f])
      /\ \A f, g \in CacheNames : f # g => Apart(CacheFields[f], CacheFields[g])
  BY DEF CacheFields, CacheNames, IsField, Apart, Field
<1>2. /\ DOMAIN BdevFields = BdevNames
      /\ \A f \in BdevNames : IsField(BdevFields[f])
      /\ \A f, g \in BdevNames : f # g => Apart(BdevFields[f], BdevFields[g])
  BY DEF BdevFields, BdevNames, IsField, Apart, Field
<1> QED
  BY <1>1, <1>2 DEF SbFields

Widths == [f \in Fields |-> FieldOf(f).size]

\* The widths the abstract list is given are those of the fields.
LEMMA WidthOf ==
  /\ \A f \in KeyNames : Widths[f] = KeyFields[f].size
  /\ \A f \in PtrNames : Widths[f] = PtrFields[f].size
  /\ \A f \in DOMAIN SbFields : Widths[f] = SbFields[f].size
<1>1. /\ DOMAIN KeyFields = KeyNames /\ DOMAIN PtrFields = PtrNames
      /\ DOMAIN CacheFields = CacheNames /\ DOMAIN BdevFields = BdevNames
  BY DEF KeyFields, KeyNames, PtrFields, PtrNames, CacheFields, CacheNames, BdevFields, BdevNames
<1>2. /\ KeyNames \cap (PtrNames \cup CacheNames \cup BdevNames) = {}
      /\ PtrNames \cap (CacheNames \cup BdevNames) = {}
      /\ CacheNames \cap BdevNames = {}
  BY DEF KeyNames, PtrNames, CacheNames, BdevNames
<1>3. \A f \in KeyNames \cup PtrNames \cup CacheNames \cup BdevNames : Widths[f] = FieldOf(f).size
  BY <1>1 DEF Widths, Fields
<1>4. \A f \in KeyNames : FieldOf(f) = KeyFields[f]
  BY <1>1, <1>2 DEF FieldOf
<1>5. \A f \in PtrNames : FieldOf(f) = PtrFields[f]
  BY <1>1, <1>2 DEF FieldOf
<1>6. \A f \in CacheNames : FieldOf(f) = CacheFields[f]
  BY <1>1, <1>2 DEF FieldOf
<1>7. \A f \in BdevNames : FieldOf(f) = BdevFields[f]
  BY <1>1, <1>2 DEF FieldOf
<1> QED
  BY <1>1, <1>3, <1>4, <1>5, <1>6, <1>7 DEF SbFields

-----------------------------------------------------------------------------
(* The number of pointers.                                               *)

\* A number below eight is read back from its three bits.
LEMMA NumberOfBits ==
  ASSUME NEW n \in 0..7
  PROVE  Number(BitsOf(n)) = n /\ BitsOf(n) \in Word /\ Cut(BitsOf(n), 3) = BitsOf(n)
<1>1. BitsOf(n) = {b \in 0..2 : \/ b = 0 /\ n \in {1, 3, 5, 7}
                                \/ b = 1 /\ n \in {2, 3, 6, 7}
                                \/ b = 2 /\ n \in {4, 5, 6, 7}}
  <2>1. ASSUME NEW b \in 0..2
        PROVE  (n \div <<1, 2, 4>>[b + 1]) % 2 = 1
                 <=> n \in IF b = 0 THEN {1, 3, 5, 7} ELSE IF b = 1 THEN {2, 3, 6, 7} ELSE {4, 5, 6, 7}
    <3>1. CASE b = 0
      BY <3>1
    <3>2. CASE b = 1
      BY <3>2
    <3>3. CASE b = 2
      BY <3>3
    <3> QED
      BY <3>1, <3>2, <3>3
  <2> QED
    BY <2>1 DEF BitsOf
<1> QED
  BY <1>1 DEF Number, Word, WORD, Cut

\* Three bits are a number below eight.
LEMMA KeyPtrsType ==
  ASSUME NEW w
  PROVE  KeyPtrs(w) \in 0..7 /\ bkey_u64s(w) \in 2..9
BY DEF KeyPtrs, Number, bkey_u64s

\* SET_KEY_PTRS(k, n) then KEY_PTRS(k) gives n; the other fields are as before.
LEMMA PutPtrs ==
  ASSUME NEW w \in Word, NEW n \in 0..7
  PROVE  /\ KeyPtrs(Put(w, KEY_PTRS, BitsOf(n))) = n
         /\ \A f \in KeyNames : Get(Put(w, KEY_PTRS, BitsOf(n)), KeyFields[f]) = Get(w, KeyFields[f])
         /\ Put(w, KEY_PTRS, BitsOf(n)) \in Word
<1>1. BitsOf(n) \in Word /\ Number(BitsOf(n)) = n /\ Cut(BitsOf(n), 3) = BitsOf(n)
  BY NumberOfBits
<1>2. KEY_PTRS.size = 3 /\ IsField(KEY_PTRS)
  BY KeyFieldsApart DEF KEY_PTRS, Field
<1>3. Get(Put(w, KEY_PTRS, BitsOf(n)), KEY_PTRS) = BitsOf(n)
  BY <1>1, <1>2, GetPutSame
<1>4. \A f \in KeyNames : IsField(KeyFields[f]) /\ Apart(KEY_PTRS, KeyFields[f])
  BY KeyFieldsApart DEF Apart
<1>5. \A f \in KeyNames : Get(Put(w, KEY_PTRS, BitsOf(n)), KeyFields[f]) = Get(w, KeyFields[f])
  BY <1>1, <1>2, <1>4, GetPutOther
<1> QED
  BY <1>1, <1>2, <1>3, <1>5, PutType DEF KeyPtrs

\* Setting another field of the first word keeps the number of pointers, so that
\* no later key of a node moves.
LEMMA PutKeyField ==
  ASSUME NEW w \in Word, NEW v \in Word, NEW f \in KeyNames
  PROVE  /\ KeyPtrs(Put(w, KeyFields[f], v)) = KeyPtrs(w)
         /\ Get(Put(w, KeyFields[f], v), KeyFields[f]) = Cut(v, KeyFields[f].size)
         /\ \A g \in KeyNames \ {f} :
              Get(Put(w, KeyFields[f], v), KeyFields[g]) = Get(w, KeyFields[g])
         /\ Put(w, KeyFields[f], v) \in Word
<1>1. IsField(KeyFields[f]) /\ IsField(KEY_PTRS) /\ Apart(KeyFields[f], KEY_PTRS)
  BY KeyFieldsApart
<1>2. \A g \in KeyNames \ {f} : IsField(KeyFields[g]) /\ Apart(KeyFields[f], KeyFields[g])
  BY KeyFieldsApart
<1>3. Get(Put(w, KeyFields[f], v), KEY_PTRS) = Get(w, KEY_PTRS)
  BY <1>1, GetPutOther
<1>4. Get(Put(w, KeyFields[f], v), KeyFields[f]) = Cut(v, KeyFields[f].size)
  BY <1>1, GetPutSame
<1>5. \A g \in KeyNames \ {f} : Get(Put(w, KeyFields[f], v), KeyFields[g]) = Get(w, KeyFields[g])
  BY <1>1, <1>2, GetPutOther
<1> QED
  BY <1>1, <1>3, <1>4, <1>5, PutType DEF KeyPtrs

\* The same for a field of a pointer.
LEMMA PutPtrField ==
  ASSUME NEW w \in Word, NEW v \in Word, NEW f \in PtrNames
  PROVE  /\ Get(Put(w, PtrFields[f], v), PtrFields[f]) = Cut(v, PtrFields[f].size)
         /\ \A g \in PtrNames \ {f} :
              Get(Put(w, PtrFields[f], v), PtrFields[g]) = Get(w, PtrFields[g])
         /\ Put(w, PtrFields[f], v) \in Word
<1>1. IsField(PtrFields[f])
  BY PtrFieldsApart
<1>2. \A g \in PtrNames \ {f} : IsField(PtrFields[g]) /\ Apart(PtrFields[f], PtrFields[g])
  BY PtrFieldsApart
<1>3. Get(Put(w, PtrFields[f], v), PtrFields[f]) = Cut(v, PtrFields[f].size)
  BY <1>1, GetPutSame
<1>4. \A g \in PtrNames \ {f} : Get(Put(w, PtrFields[f], v), PtrFields[g]) = Get(w, PtrFields[g])
  BY <1>1, <1>2, GetPutOther
<1> QED
  BY <1>1, <1>3, <1>4, PutType

\* KEY() with values that fit: the inode and the size are read back, everything
\* else is zero.
LEMMA KeyHigh ==
  ASSUME NEW inode \in Word, NEW size \in Word,
         Fits(inode, KeyFields.KEY_INODE), Fits(size, KeyFields.KEY_SIZE)
  PROVE  /\ KeyPtrs(KEY_high(inode, size)) = 0
         /\ \A f \in KeyNames : Get(KEY_high(inode, size), KeyFields[f])
              = CASE f = "KEY_INODE" -> inode [] f = "KEY_SIZE" -> size [] OTHER -> {}
         /\ KEY_high(inode, size) \in Word
<1> DEFINE W == KEY_high(inode, size)
<1>1. (\A c \in inode : c \in 0..19) /\ (\A c \in size : c \in 0..15)
  BY DEF Fits, KeyFields, Field, KEY_SIZE_BITS, Word, WORD
<1>2. ShiftLeft(size, 20) = {b + 20 : b \in size}
  BY <1>1 DEF ShiftLeft, WORD
<1>3. \A b : b \in W <=> b = 63 \/ b \in inode \/ \E c \in size : b = c + 20
  BY <1>2 DEF KEY_high
<1>4. \A b \in Int : b \in W <=> b = 63 \/ b \in inode \/ b - 20 \in size
  BY <1>1, <1>3
<1>5. W \in Word
  <2>1. ASSUME NEW b \in W PROVE b \in WORD
    <3>1. b = 63 \/ b \in inode \/ \E c \in size : b = c + 20
      BY <1>3
    <3> HIDE DEF W
    <3> QED
      BY <1>1, <3>1 DEF WORD
  <2> QED
    BY <2>1 DEF Word
<1> HIDE DEF W
<1>6. Get(W, KEY_PTRS) = {}
  <2>1. \A b \in 0..2 : b + 60 \in W <=> b \in {}
    BY <1>1, <1>4
  <2>2. KEY_PTRS.offset = 60 /\ KEY_PTRS.size = 3
    BY DEF KEY_PTRS, Field
  <2> QED
    BY <1>1, <2>1, <2>2 DEF Get
<1>7. Get(W, KeyFields["KEY_INODE"]) = inode
  <2>1. \A b \in 0..19 : b + 0 \in W <=> b \in inode
    BY <1>1, <1>4
  <2>2. KeyFields["KEY_INODE"].offset = 0 /\ KeyFields["KEY_INODE"].size = 20
    BY DEF KeyFields, KEY_SIZE_BITS, Field
  <2> QED
    BY <1>1, <2>1, <2>2 DEF Get
<1>8. Get(W, KeyFields["KEY_SIZE"]) = size
  <2>1. \A b \in 0..15 : b + 20 \in W <=> b \in size
    BY <1>1, <1>4
  <2>2. KeyFields["KEY_SIZE"].offset = 20 /\ KeyFields["KEY_SIZE"].size = 16
    BY DEF KeyFields, KEY_SIZE_BITS, Field
  <2> QED
    BY <1>1, <2>1, <2>2 DEF Get
<1>9. /\ Get(W, KeyFields["HEADER_SIZE"]) = {} /\ Get(W, KeyFields["KEY_CSUM"]) = {}
      /\ Get(W, KeyFields["KEY_PINNED"]) = {} /\ Get(W, KeyFields["KEY_DIRTY"]) = {}
  <2>1. \A b \in 0..1 : b + 58 \notin W /\ b + 56 \notin W
    BY <1>1, <1>4
  <2>2. \A b \in 0..0 : b + 55 \notin W /\ b + 36 \notin W
    BY <1>1, <1>4
  <2>3. /\ KeyFields["HEADER_SIZE"] = Field(58, 2) /\ KeyFields["KEY_CSUM"] = Field(56, 2)
        /\ KeyFields["KEY_PINNED"] = Field(55, 1) /\ KeyFields["KEY_DIRTY"] = Field(36, 1)
    BY DEF KeyFields
  <2> QED
    BY <2>1, <2>2, <2>3 DEF Get, Field
<1>10. KeyPtrs(W) = 0
  BY <1>6 DEF KeyPtrs, Number
<1>11. \A f \in KeyNames : Get(W, KeyFields[f])
         = CASE f = "KEY_INODE" -> inode [] f = "KEY_SIZE" -> size [] OTHER -> {}
  BY <1>7, <1>8, <1>9 DEF KeyNames
<1> QED
  BY <1>5, <1>10, <1>11 DEF W

\* MAKE_PTR with values that fit: all three are read back.
LEMMA MakePtr ==
  ASSUME NEW gen \in Word, NEW offset \in Word, NEW dev \in Word,
         Fits(gen, PtrFields.PTR_GEN), Fits(offset, PtrFields.PTR_OFFSET),
         Fits(dev, PtrFields.PTR_DEV)
  PROVE  /\ Get(MAKE_PTR(gen, offset, dev), PtrFields["PTR_GEN"]) = gen
         /\ Get(MAKE_PTR(gen, offset, dev), PtrFields["PTR_OFFSET"]) = offset
         /\ Get(MAKE_PTR(gen, offset, dev), PtrFields["PTR_DEV"]) = dev
         /\ MAKE_PTR(gen, offset, dev) \in Word
<1> DEFINE W == MAKE_PTR(gen, offset, dev)
<1>1. /\ \A c \in gen : c \in 0..7
      /\ \A c \in offset : c \in 0..42
      /\ \A c \in dev : c \in 0..11
  BY DEF Fits, PtrFields, Field, PTR_DEV_BITS, Word, WORD
<1>2. ShiftLeft(dev, 51) = {b + 51 : b \in dev} /\ ShiftLeft(offset, 8) = {b + 8 : b \in offset}
  BY <1>1 DEF ShiftLeft, WORD
<1>3. \A b : b \in W <=> b \in gen \/ (\E c \in dev : b = c + 51) \/ (\E c \in offset : b = c + 8)
  BY <1>2 DEF MAKE_PTR
<1>4. \A b \in Int : b \in W <=> b \in gen \/ b - 51 \in dev \/ b - 8 \in offset
  BY <1>1, <1>3
<1>5. W \in Word
  <2>1. ASSUME NEW b \in W PROVE b \in WORD
    <3>1. b \in gen \/ (\E c \in dev : b = c + 51) \/ (\E c \in offset : b = c + 8)
      BY <1>3
    <3> HIDE DEF W
    <3> QED
      BY <1>1, <3>1 DEF WORD
  <2> QED
    BY <2>1 DEF Word
<1> HIDE DEF W
<1>6. Get(W, PtrFields["PTR_GEN"]) = gen
  <2>1. \A b \in 0..7 : b + 0 \in W <=> b \in gen
    BY <1>1, <1>4
  <2>2. PtrFields["PTR_GEN"].offset = 0 /\ PtrFields["PTR_GEN"].size = 8
    BY DEF PtrFields, PTR_DEV_BITS, Field
  <2> QED
    BY <1>1, <2>1, <2>2 DEF Get
<1>7. Get(W, PtrFields["PTR_OFFSET"]) = offset
  <2>1. \A b \in 0..42 : b + 8 \in W <=> b \in offset
    BY <1>1, <1>4
  <2>2. PtrFields["PTR_OFFSET"].offset = 8 /\ PtrFields["PTR_OFFSET"].size = 43
    BY DEF PtrFields, PTR_DEV_BITS, Field
  <2> QED
    BY <1>1, <2>1, <2>2 DEF Get
<1>8. Get(W, PtrFields["PTR_DEV"]) = dev
  <2>1. \A b \in 0..11 : b + 51 \in W <=> b \in dev
    BY <1>1, <1>4
  <2>2. PtrFields["PTR_DEV"].offset = 51 /\ PtrFields["PTR_DEV"].size = 12
    BY DEF PtrFields, PTR_DEV_BITS, Field
  <2> QED
    BY <1>1, <2>1, <2>2 DEF Get
<1> QED
  BY <1>5, <1>6, <1>7, <1>8 DEF W

-----------------------------------------------------------------------------
(* The inductive invariant: where the keys of the node lie.              *)

Positions == 1..Len(starts)

\* The words of the n-th key in the node.
Size(n) == bkey_u64s(d[starts[n]])

WordsInv ==
  /\ key \in [0..7 -> Word] /\ KeyPtrs(key[0]) <= 6
  /\ d \in [0..(NodeWords - 1) -> Word]
  /\ keys \in 0..NodeWords /\ cur \in Nat
  /\ flags \in Word
  /\ starts \in Seq(Nat)

\* Keys lie one behind the other: each ends where the next begins and the last
\* where the node's words end, so no two overlap.
ChainInv ==
  /\ \A n \in Positions : starts[n] + Size(n) = IF n = Len(starts) THEN keys ELSE starts[n + 1]
  /\ \A n \in Positions : starts[n] + Size(n) <= keys /\ KeyPtrs(d[starts[n]]) <= 6
  /\ \A m, n \in Positions : m < n => starts[m] + Size(m) <= starts[n]
  /\ IF starts = <<>> THEN keys = 0 ELSE starts[1] = 0

\* The cursor is at a key or behind the last one.
CursorInv == cur = keys \/ \E n \in Positions : starts[n] = cur

NodeInv == WordsInv /\ ChainInv /\ CursorInv

\* The first node and the first key.
LEMMA NodeInit == Init => NodeInv
<1> SUFFICES ASSUME Init PROVE NodeInv
  OBVIOUS
<1>0. {} \in Word
  BY DEF Word
<1>1. Fits({}, KeyFields.KEY_INODE) /\ Fits({}, KeyFields.KEY_SIZE)
  BY DEF Fits
<1>2. KEY_high({}, {}) \in Word /\ KeyPtrs(KEY_high({}, {})) = 0
  BY <1>0, <1>1, KeyHigh
<1>3. key = [i \in 0..7 |-> IF i = 0 THEN KEY_high({}, {}) ELSE {}]
  BY DEF Init, BKEY_PAD
<1>4. key \in [0..7 -> Word] /\ key[0] = KEY_high({}, {})
  BY <1>0, <1>2, <1>3
<1>5. d \in [0..(NodeWords - 1) -> Word] /\ keys = 0 /\ cur = 0 /\ flags = {} /\ starts = <<>>
  BY <1>0 DEF Init
<1>6. <<>> \in Seq(Nat) /\ Len(<<>>) = 0
  OBVIOUS
<1>7. WordsInv
  BY <1>0, <1>2, <1>4, <1>5, <1>6, BoundsAssumption DEF WordsInv
<1>8. Positions = {}
  BY <1>5, <1>6 DEF Positions
<1> QED
  BY <1>5, <1>7, <1>8 DEF NodeInv, ChainInv, CursorInv

\* A step that only changes the key being built.
LEMMA BuildStep ==
  ASSUME NodeInv, key' \in [0..7 -> Word], KeyPtrs(key'[0]) <= 6,
         UNCHANGED <<d, keys, cur, flags, starts>>
  PROVE  NodeInv'
<1>1. WordsInv'
  BY DEF NodeInv, WordsInv
<1>2. ChainInv'
  BY DEF NodeInv, ChainInv, Positions, Size
<1>3. CursorInv'
  BY DEF NodeInv, CursorInv, Positions
<1> QED
  BY <1>1, <1>2, <1>3 DEF NodeInv

\* Every key of the node lies among its words, and no two have a word in common.
LEMMA KeysLie ==
  ASSUME NodeInv, NEW n \in Positions
  PROVE  /\ starts[n] \in Nat /\ Size(n) \in 2..8
         /\ starts[n] + Size(n) <= keys
         /\ \A i \in 0..(Size(n) - 1) : starts[n] + i \in 0..(NodeWords - 1)
         /\ \A m \in Positions \ {n} : \A i \in 0..(Size(n) - 1), j \in 0..(Size(m) - 1) :
               starts[n] + i # starts[m] + j
<1>1. \A m \in Positions : starts[m] \in Nat /\ Size(m) \in 2..8 /\ starts[m] + Size(m) <= keys
  <2> SUFFICES ASSUME NEW m \in Positions
               PROVE  starts[m] \in Nat /\ Size(m) \in 2..8 /\ starts[m] + Size(m) <= keys
    OBVIOUS
  <2>1. starts[m] \in Nat
    BY DEF NodeInv, WordsInv, Positions
  <2>2. KeyPtrs(d[starts[m]]) <= 6 /\ starts[m] + Size(m) <= keys
    BY DEF NodeInv, ChainInv
  <2>3. Size(m) \in 2..8
    BY <2>2, KeyPtrsType DEF Size, bkey_u64s
  <2> QED
    BY <2>1, <2>2, <2>3
<1>2. keys \in Nat /\ keys <= NodeWords /\ NodeWords \in Nat
  BY BoundsAssumption DEF NodeInv, WordsInv
<1>3. \A i \in 0..(Size(n) - 1) : starts[n] + i \in 0..(NodeWords - 1)
  BY <1>1, <1>2
<1>4. ASSUME NEW m \in Positions \ {n}, NEW i \in 0..(Size(n) - 1), NEW j \in 0..(Size(m) - 1)
      PROVE  starts[n] + i # starts[m] + j
  <2>1. (m < n => starts[m] + Size(m) <= starts[n]) /\ (n < m => starts[n] + Size(n) <= starts[m])
    BY DEF NodeInv, ChainInv
  <2>2. m < n \/ n < m
    BY DEF Positions, NodeInv, WordsInv
  <2>3. /\ starts[m] \in Nat /\ Size(m) \in 2..8 /\ starts[n] \in Nat /\ Size(n) \in 2..8
    BY <1>1
  <2> QED
    BY <2>1, <2>2, <2>3
<1> QED
  BY <1>1, <1>3, <1>4

\* What CursorKey says of the cursor.
CursorOK ==
  /\ cur < keys <=> cur # keys
  /\ cur = keys => CursorKey = Len(starts) + 1
  /\ cur # keys => CursorKey \in Positions /\ starts[CursorKey] = cur
  /\ \A n \in Positions : starts[n] = cur => CursorKey = n

\* A cursor that is not behind the last key is at a key, and at one only.
LEMMA CursorAt == NodeInv => CursorOK
<1> SUFFICES ASSUME NodeInv PROVE CursorOK
  OBVIOUS
<1>1. Len(starts) \in Nat /\ DOMAIN starts = Positions /\ cur \in Nat /\ keys \in Nat
  BY DEF NodeInv, WordsInv, Positions
<1>2. ASSUME NEW n \in Positions, starts[n] = cur
      PROVE  cur < keys /\ \A m \in Positions : starts[m] = cur => m = n
  <2>1. starts[n] \in Nat /\ Size(n) \in 2..8 /\ starts[n] + Size(n) <= keys
    BY KeysLie
  <2>2. ASSUME NEW m \in Positions, starts[m] = cur, m # n PROVE FALSE
    <3>1. 0 \in 0..(Size(n) - 1) /\ Size(m) \in 2..8 /\ 0 \in 0..(Size(m) - 1)
      BY <2>1, KeysLie
    <3>2. starts[n] + 0 # starts[m] + 0
      BY <2>2, <3>1, KeysLie
    <3> QED
      BY <1>2, <2>2, <3>2
  <2> QED
    BY <1>1, <1>2, <2>1, <2>2
<1>3. cur < keys <=> cur # keys
  BY <1>1, <1>2 DEF NodeInv, CursorInv
<1>4. cur = keys => CursorKey = Len(starts) + 1
  BY DEF CursorKey
<1>5. ASSUME cur # keys
      PROVE  CursorKey \in Positions /\ starts[CursorKey] = cur
  <2>1. \E n \in Positions : starts[n] = cur
    BY <1>5 DEF NodeInv, CursorInv
  <2>2. CursorKey = CHOOSE n \in Positions : starts[n] = cur
    BY <1>1, <1>5 DEF CursorKey
  <2> QED
    BY <2>1, <2>2
<1>6. ASSUME NEW n \in Positions, starts[n] = cur PROVE CursorKey = n
  BY <1>1, <1>2, <1>5, <1>6
<1> QED
  BY <1>3, <1>4, <1>5, <1>6 DEF CursorOK

\* The same after a step.
LEMMA CursorThen == NodeInv' => CursorOK'
BY CursorAt, PTL

\* A step that keeps the number of pointers of every key in the node.
LEMMA HeadsStep ==
  ASSUME NodeInv, d' \in [0..(NodeWords - 1) -> Word], UNCHANGED <<key, keys, cur, flags, starts>>,
         \A n \in Positions : KeyPtrs(d'[starts[n]]) = KeyPtrs(d[starts[n]])
  PROVE  NodeInv'
<1>1. WordsInv'
  BY DEF NodeInv, WordsInv
<1>2. Positions' = Positions /\ \A n \in Positions : Size(n)' = Size(n) /\ starts'[n] = starts[n]
  BY DEF Positions, Size, bkey_u64s
<1>3. ChainInv'
  BY <1>2 DEF NodeInv, ChainInv
<1>4. CursorInv'
  BY <1>2 DEF NodeInv, CursorInv
<1> QED
  BY <1>1, <1>3, <1>4 DEF NodeInv

\* bkey_copy behind the last key makes one more key and moves no other.
LEMMA InsertStep ==
  ASSUME NodeInv, InsertKey
  PROVE  /\ NodeInv'
         /\ \A i \in 0..(keys - 1) : d'[i] = d[i]
         /\ \A i \in 0..(bkey_u64s(key[0]) - 1) : d'[keys + i] = key[i]
<1> DEFINE u == bkey_u64s(key[0])
<1>0. PICK N \in Nat : N = Len(starts)
  BY DEF NodeInv, WordsInv
<1>1. /\ keys + u <= NodeWords /\ d' = bkey_copy(d, keys, key, 0) /\ keys' = keys + u
      /\ starts' = Append(starts, keys) /\ UNCHANGED <<key, cur, flags>>
  BY DEF InsertKey
<1>2. /\ key \in [0..7 -> Word] /\ d \in [0..(NodeWords - 1) -> Word] /\ keys \in Nat
      /\ NodeWords \in Nat /\ u \in 2..8 /\ starts \in Seq(Nat)
  <2>1. KeyPtrs(key[0]) <= 6 /\ KeyPtrs(key[0]) \in 0..7
    BY KeyPtrsType DEF NodeInv, WordsInv
  <2>2. u \in 2..8
    BY <2>1 DEF bkey_u64s
  <2> QED
    BY <2>2, BoundsAssumption DEF NodeInv, WordsInv
<1> HIDE DEF u
<1>3. d' = [i \in 0..(NodeWords - 1) |->
              IF i \in keys..(keys + u - 1) THEN key[0 + i - keys] ELSE d[i]]
  <2>1. DOMAIN d = 0..(NodeWords - 1)
    BY <1>2
  <2>2. bkey_copy(d, keys, key, 0) = [i \in DOMAIN d |->
              IF i \in keys..(keys + u - 1) THEN key[0 + i - keys] ELSE d[i]]
    BY DEF bkey_copy, u
  <2> QED
    BY <1>1, <2>1, <2>2
<1>4. \A i \in 0..(keys - 1) : d'[i] = d[i]
  BY <1>1, <1>2, <1>3
<1>5. \A i \in 0..(u - 1) : d'[keys + i] = key[i]
  <2> TAKE i \in 0..(u - 1)
  <2>1. keys + i \in 0..(NodeWords - 1) /\ keys + i \in keys..(keys + u - 1) /\ 0 + (keys + i) - keys = i
    BY <1>1, <1>2
  <2> QED
    BY <1>3, <2>1
<1>6. d' \in [0..(NodeWords - 1) -> Word]
  <2>2. ASSUME NEW i \in 0..(NodeWords - 1), i \in keys..(keys + u - 1) PROVE 0 + i - keys \in 0..7
    BY <1>2, <2>2
  <2>3. \A i \in 0..(NodeWords - 1) :
           (IF i \in keys..(keys + u - 1) THEN key[0 + i - keys] ELSE d[i]) \in Word
    BY <1>2, <2>2
  <2> QED
    BY <1>3, <2>3
<1>7. /\ starts' \in Seq(Nat) /\ starts' # <<>> /\ Len(starts') = N + 1 /\ starts'[N + 1] = keys
      /\ \A n \in 1..N : starts'[n] = starts[n]
  BY <1>0, <1>1, <1>2, AppendProperties
<1>8. WordsInv'
  BY <1>1, <1>2, <1>6, <1>7 DEF NodeInv, WordsInv
<1>9. Positions = 1..N /\ Positions' = 1..(N + 1)
  BY <1>0, <1>7 DEF Positions
<1>10. \A n \in 1..N : Size(n)' = Size(n) /\ d'[starts[n]] = d[starts[n]]
  <2> TAKE n \in 1..N
  <2>1. starts[n] \in Nat /\ Size(n) \in 2..8 /\ starts[n] + Size(n) <= keys
    BY <1>9, KeysLie
  <2>2. starts[n] \in 0..(keys - 1)
    BY <1>2, <2>1
  <2> QED
    BY <1>4, <1>7, <2>2 DEF Size
<1>11. Size(N + 1)' = u /\ d'[starts'[N + 1]] = key[0]
  <2>1. keys + 0 = keys /\ 0 \in 0..(u - 1)
    BY <1>2
  <2> QED
    BY <1>5, <1>7, <2>1 DEF Size, u
<1>12. KeyPtrs(key[0]) <= 6
  BY DEF NodeInv, WordsInv
<1>13. ChainInv'
  <2>1. ASSUME NEW n \in 1..(N + 1)
        PROVE  /\ starts'[n] + Size(n)' = IF n = N + 1 THEN keys' ELSE starts'[n + 1]
               /\ starts'[n] + Size(n)' <= keys' /\ KeyPtrs(d'[starts'[n]]) <= 6
    <3>1. CASE n = N + 1
      BY <1>1, <1>2, <1>7, <1>11, <1>12, <3>1
    <3>2. CASE n \in 1..N
      <4>1. /\ starts[n] + Size(n) = (IF n = N THEN keys ELSE starts[n + 1])
            /\ starts[n] + Size(n) <= keys /\ KeyPtrs(d[starts[n]]) <= 6
        BY <1>0, <1>9, <3>2 DEF NodeInv, ChainInv
      <4>2. starts'[n] = starts[n] /\ Size(n)' = Size(n) /\ d'[starts'[n]] = d[starts[n]]
        BY <1>7, <1>10, <3>2
      <4>3. starts'[n + 1] = IF n = N THEN keys ELSE starts[n + 1]
        BY <1>2, <1>7, <3>2
      <4>4. starts[n] \in Nat /\ Size(n) \in 2..8
        BY <1>9, <3>2, KeysLie
      <4>5. starts'[n] + Size(n)' = starts'[n + 1] /\ n # N + 1
        BY <3>2, <4>1, <4>2, <4>3
      <4>6. starts'[n] + Size(n)' <= keys'
        <5>1. keys \in Nat /\ keys' \in Nat /\ keys <= keys'
          BY <1>1, <1>2
        <5>2. starts[n] + Size(n) \in Nat /\ starts[n] + Size(n) <= keys
          BY <4>1, <4>4
        <5> QED
          BY <4>2, <5>1, <5>2
      <4> QED
        BY <4>1, <4>2, <4>5, <4>6
    <3> QED
      BY <1>2, <3>1, <3>2
  <2>2. ASSUME NEW m \in 1..(N + 1), NEW n \in 1..(N + 1), m < n
        PROVE  starts'[m] + Size(m)' <= starts'[n]
    <3>1. m \in 1..N
      BY <1>2, <2>2
    <3>2. starts'[m] = starts[m] /\ Size(m)' = Size(m)
      BY <1>7, <1>10, <3>1
    <3>3. CASE n = N + 1
      <4>1. starts[m] + Size(m) <= keys
        BY <1>9, <3>1, KeysLie
      <4> QED
        BY <1>7, <3>2, <3>3, <4>1
    <3>4. CASE n \in 1..N
      <4>1. starts[m] + Size(m) <= starts[n]
        BY <1>9, <2>2, <3>1, <3>4 DEF NodeInv, ChainInv
      <4> QED
        BY <1>7, <3>2, <3>4, <4>1
    <3> QED
      BY <1>2, <3>3, <3>4
  <2>3. starts' # <<>> /\ starts'[1] = 0
    <3>1. CASE N = 0
      <4>1. starts = <<>> /\ keys = 0
        BY <1>0, <1>2, <3>1, EmptySeq DEF NodeInv, ChainInv
      <4>2. starts'[1] = keys
        BY <1>7, <3>1
      <4> QED
        BY <1>7, <4>1, <4>2
    <3>2. CASE N # 0
      <4>1. starts # <<>> /\ 1 \in 1..N
        BY <1>0, <1>2, <3>2
      <4> QED
        BY <1>7, <4>1 DEF NodeInv, ChainInv
    <3> QED
      BY <3>1, <3>2
  <2> QED
    BY <1>7, <1>9, <2>1, <2>2, <2>3 DEF ChainInv
<1>14. CursorInv'
  <2>1. \E n \in 1..(N + 1) : starts'[n] = cur
    <3>1. CASE cur = keys
      BY <1>2, <1>7, <3>1
    <3>2. CASE cur # keys
      <4>1. PICK n \in 1..N : starts[n] = cur
        BY <1>9, <3>2 DEF NodeInv, CursorInv
      <4>2. n \in 1..(N + 1) /\ starts'[n] = cur
        BY <1>2, <1>7, <4>1
      <4> QED
        BY <4>2
    <3> QED
      BY <3>1, <3>2
  <2> QED
    BY <1>1, <1>9, <2>1 DEF CursorInv
<1> QED
  BY <1>4, <1>5, <1>8, <1>13, <1>14 DEF NodeInv, u

\* bkey_next goes to the beginning of the next key, or behind the last one.
LEMMA NextStep ==
  ASSUME NodeInv, bkey_next
  PROVE  NodeInv' /\ cur < keys /\ CursorKey' = CursorKey + 1
<1>1. /\ cur < keys /\ cur' = cur + bkey_u64s(d[cur])
      /\ UNCHANGED <<key, d, keys, flags, starts>>
  BY DEF bkey_next
<1>2. CursorKey \in Positions /\ starts[CursorKey] = cur
  BY <1>1, CursorAt DEF CursorOK
<1>3. PICK n \in Positions : n = CursorKey /\ starts[n] = cur
  BY <1>2
<1>4. cur' = IF n = Len(starts) THEN keys ELSE starts[n + 1]
  BY <1>1, <1>3 DEF NodeInv, ChainInv, Size
<1>5. Len(starts) \in Nat /\ n \in 1..Len(starts) /\ keys \in Nat
      /\ \A m \in 1..Len(starts) : starts[m] \in Nat
  BY DEF NodeInv, WordsInv, Positions
<1>6. CASE n = Len(starts)
  <2>1. cur' = keys'
    BY <1>1, <1>4, <1>6
  <2>2. CursorKey' = Len(starts) + 1
    BY <1>1, <2>1 DEF CursorKey
  <2>3. NodeInv'
    BY <1>1, <1>5, <2>1 DEF NodeInv, WordsInv, ChainInv, CursorInv, Positions, Size
  <2> QED
    BY <1>1, <1>3, <1>6, <2>2, <2>3
<1>7. CASE n # Len(starts)
  <2>1. n + 1 \in 1..Len(starts) /\ cur' = starts[n + 1] /\ cur' \in Nat
    BY <1>4, <1>5, <1>7
  <2>2. NodeInv'
    <3>1. WordsInv'
      BY <1>1, <2>1 DEF NodeInv, WordsInv
    <3>2. ChainInv'
      BY <1>1 DEF NodeInv, ChainInv, Positions, Size
    <3>3. CursorInv'
      BY <1>1, <2>1 DEF CursorInv, Positions
    <3> QED
      BY <3>1, <3>2, <3>3 DEF NodeInv
  <2>3. n + 1 \in Positions' /\ starts'[n + 1] = cur'
    BY <1>1, <2>1 DEF Positions
  <2> QED
    BY <1>1, <1>3, <2>2, <2>3, CursorThen DEF CursorOK
<1> QED
  BY <1>6, <1>7

-----------------------------------------------------------------------------
(* The records that the words stand for.                                 *)

AttrOf(w) == [f \in KeyNames |-> Get(w, KeyFields[f])]
PtrOf(w) == [f \in PtrNames |-> Get(w, PtrFields[f])]

Pointers == [PtrNames -> Word]
KeyRec == [attr : [KeyNames -> Word], offset : Word, ptrs : Seq(Pointers)]

\* A key that starts at a word is a record of its attributes and pointers.
LEMMA KeyShape ==
  ASSUME NEW w, NEW at
  PROVE  AbstractKey(w, at) = [attr |-> AttrOf(w[at]), offset |-> w[at + 1],
                               ptrs |-> [i \in 1..KeyPtrs(w[at]) |-> PtrOf(w[at + 1 + i])]]
BY KeyFieldsApart, PtrFieldsApart DEF AbstractKey, AttrOf, PtrOf

\* Its attributes and pointers are values.
LEMMA KeyIsRec ==
  ASSUME NEW w, NEW at \in Nat, \A i \in 0..(bkey_u64s(w[at]) - 1) : w[at + i] \in Word
  PROVE  AbstractKey(w, at) \in KeyRec /\ Len(AbstractKey(w, at).ptrs) = KeyPtrs(w[at])
<1> DEFINE P == [i \in 1..KeyPtrs(w[at]) |-> PtrOf(w[at + 1 + i])]
<1>1. \A x : AttrOf(x) \in [KeyNames -> Word] /\ PtrOf(x) \in Pointers
  BY GetType, KeyFieldsApart, PtrFieldsApart DEF AttrOf, PtrOf, Pointers
<1>2. KeyPtrs(w[at]) \in Nat /\ bkey_u64s(w[at]) - 1 >= 1 /\ bkey_u64s(w[at]) \in Nat
  BY KeyPtrsType
<1>3. w[at + 1] \in Word
  BY <1>2
<1>4. P \in [1..KeyPtrs(w[at]) -> Pointers]
  BY <1>1
<1> HIDE DEF P
<1>5. P \in Seq(Pointers) /\ Len(P) = KeyPtrs(w[at])
  BY <1>2, <1>4
<1>6. AbstractKey(w, at) = [attr |-> AttrOf(w[at]), offset |-> w[at + 1], ptrs |-> P]
  BY KeyShape DEF P
<1> QED
  BY <1>1, <1>3, <1>5, <1>6 DEF KeyRec

\* The key is told by its own words.
LEMMA SameWords ==
  ASSUME NEW w, NEW at \in Nat, NEW x, NEW to \in Nat,
         \A i \in 0..(bkey_u64s(w[at]) - 1) : x[to + i] = w[at + i]
  PROVE  AbstractKey(x, to) = AbstractKey(w, at)
<1>1. KeyPtrs(w[at]) \in 0..7 /\ bkey_u64s(w[at]) = 2 + KeyPtrs(w[at])
  BY KeyPtrsType DEF bkey_u64s
<1>2. x[to] = w[at]
  <2>1. to + 0 = to /\ at + 0 = at /\ 0 \in 0..(bkey_u64s(w[at]) - 1)
    BY <1>1
  <2> QED
    BY <2>1
<1>3. x[to + 1] = w[at + 1]
  BY <1>1
<1>4. \A i \in 1..KeyPtrs(w[at]) : x[to + 1 + i] = w[at + 1 + i]
  <2> TAKE i \in 1..KeyPtrs(w[at])
  <2>1. to + (1 + i) = to + 1 + i /\ at + (1 + i) = at + 1 + i /\ 1 + i \in 0..(bkey_u64s(w[at]) - 1)
    BY <1>1
  <2>2. x[to + (1 + i)] = w[at + (1 + i)]
    BY <2>1
  <2> QED
    BY <2>1, <2>2
<1>5. [i \in 1..KeyPtrs(x[to]) |-> PtrOf(x[to + 1 + i])]
        = [i \in 1..KeyPtrs(w[at]) |-> PtrOf(w[at + 1 + i])]
  BY <1>2, <1>4
<1> QED
  BY <1>2, <1>3, <1>5, KeyShape

AList == [n \in DOMAIN starts |-> AbstractKey(d, starts[n])]
APolicy == [f \in DOMAIN SbFields |-> Get(flags, SbFields[f])]
AVars == <<AbstractKey(key, 0), AList, CursorKey, APolicy>>

\* What is put into an attribute is cut to the field's width.
LEMMA FitIsCut ==
  ASSUME NEW v
  PROVE  /\ \A f \in KeyNames : Abstract!Fit(f, v) = Cut(v, KeyFields[f].size)
         /\ \A f \in PtrNames : Abstract!Fit(f, v) = Cut(v, PtrFields[f].size)
         /\ \A f \in DOMAIN SbFields : Abstract!Fit(f, v) = Cut(v, SbFields[f].size)
<1>1. \A f : Abstract!Fit(f, v) = Cut(v, Widths[f])
  BY DEF Abstract!Fit, Cut, Widths
<1> QED
  BY <1>1, WidthOf

\* The list of records, as long as there are keys in the node.
LEMMA ListShape ==
  ASSUME NodeInv
  PROVE  /\ AList \in Seq(KeyRec) /\ Len(AList) = Len(starts) /\ DOMAIN AList = Positions
         /\ \A n \in Positions : AList[n] = AbstractKey(d, starts[n]) /\ AList[n] \in KeyRec
<1>1. Len(starts) \in Nat /\ DOMAIN starts = 1..Len(starts) /\ Positions = 1..Len(starts)
  BY DEF NodeInv, WordsInv, Positions
<1>2. ASSUME NEW n \in Positions PROVE AbstractKey(d, starts[n]) \in KeyRec
  <2>1. starts[n] \in Nat /\ \A i \in 0..(Size(n) - 1) : starts[n] + i \in 0..(NodeWords - 1)
    BY KeysLie
  <2>2. \A i \in 0..(bkey_u64s(d[starts[n]]) - 1) : d[starts[n] + i] \in Word
    BY <2>1 DEF NodeInv, WordsInv, Size
  <2> QED
    BY <2>1, <2>2, KeyIsRec
<1>3. AList = [n \in 1..Len(starts) |-> AbstractKey(d, starts[n])]
  BY <1>1 DEF AList
<1>4. AList \in [1..Len(starts) -> KeyRec]
  BY <1>1, <1>2, <1>3
<1>5. AList \in Seq(KeyRec) /\ Len(AList) = Len(starts)
  BY <1>1, <1>4
<1> QED
  BY <1>1, <1>2, <1>3, <1>5

-----------------------------------------------------------------------------
(* Each call is a step of the list of records.                           *)

\* One part of a record is replaced.
LEMMA RecordEdit ==
  ASSUME NEW a, NEW o, NEW p, NEW e, NEW f, NEW i,
         NEW k, k = [attr |-> a, offset |-> o, ptrs |-> p]
  PROVE  /\ k.attr = a /\ k.offset = o /\ k.ptrs = p
         /\ [k EXCEPT !.attr[f] = e] = [attr |-> [a EXCEPT ![f] = e], offset |-> o, ptrs |-> p]
         /\ [k EXCEPT !.offset = e] = [attr |-> a, offset |-> e, ptrs |-> p]
         /\ [k EXCEPT !.ptrs = e] = [attr |-> a, offset |-> o, ptrs |-> e]
         /\ [k EXCEPT !.ptrs[i][f] = e]
              = [attr |-> a, offset |-> o, ptrs |-> [p EXCEPT ![i] = [p[i] EXCEPT ![f] = e]]]
OBVIOUS

\* SET_KEY_... on the first word of a key changes that attribute and no other.
LEMMA PutAttr ==
  ASSUME NEW w, NEW x, NEW at \in Nat, NEW f \in KeyNames, NEW v \in Word, w[at] \in Word,
         x[at] = Put(w[at], KeyFields[f], v),
         \A i \in 2..(bkey_u64s(w[at]) - 1) : x[at + i] = w[at + i]
  PROVE  AbstractKey(x, at) = [attr |-> [AttrOf(w[at]) EXCEPT ![f] = Abstract!Fit(f, v)],
                               offset |-> x[at + 1],
                               ptrs |-> [i \in 1..KeyPtrs(w[at]) |-> PtrOf(w[at + 1 + i])]]
<1>1. KeyPtrs(w[at]) \in 0..7 /\ bkey_u64s(w[at]) = 2 + KeyPtrs(w[at]) /\ KeyPtrs(x[at]) = KeyPtrs(w[at])
  BY KeyPtrsType, PutKeyField DEF bkey_u64s
<1>2. \A i \in 1..KeyPtrs(w[at]) : x[at + 1 + i] = w[at + 1 + i]
  <2> TAKE i \in 1..KeyPtrs(w[at])
  <2>1. at + (1 + i) = at + 1 + i /\ 1 + i \in 2..(bkey_u64s(w[at]) - 1)
    BY <1>1
  <2> QED
    BY <2>1
<1>3. [i \in 1..KeyPtrs(x[at]) |-> PtrOf(x[at + 1 + i])]
        = [i \in 1..KeyPtrs(w[at]) |-> PtrOf(w[at + 1 + i])]
  BY <1>1, <1>2
<1>4. AttrOf(x[at]) = [AttrOf(w[at]) EXCEPT ![f] = Abstract!Fit(f, v)]
  <2>1. Get(x[at], KeyFields[f]) = Abstract!Fit(f, v)
    BY PutKeyField, FitIsCut
  <2>2. \A g \in KeyNames \ {f} : Get(x[at], KeyFields[g]) = Get(w[at], KeyFields[g])
    <3> DEFINE h == w[at]
    <3> HIDE DEF h
    <3>1. h \in Word /\ h = w[at]
      BY DEF h
    <3>2. \A g \in KeyNames \ {f} : Get(Put(h, KeyFields[f], v), KeyFields[g]) = Get(h, KeyFields[g])
      BY <3>1, PutKeyField
    <3> QED
      BY <3>1, <3>2
  <2> QED
    BY <2>1, <2>2 DEF AttrOf
<1> QED
  BY <1>3, <1>4, KeyShape

\* The key being built.
LEMMA BuiltKey ==
  ASSUME NodeInv
  PROVE  /\ key \in [0..7 -> Word] /\ key[0] \in Word
         /\ KeyPtrs(key[0]) \in 0..6 /\ bkey_u64s(key[0]) = 2 + KeyPtrs(key[0])
<1>1. KeyPtrs(key[0]) \in 0..7 /\ KeyPtrs(key[0]) <= 6
  BY KeyPtrsType DEF NodeInv, WordsInv
<1>2. key \in [0..7 -> Word]
  BY DEF NodeInv, WordsInv
<1> QED
  BY <1>1, <1>2 DEF bkey_u64s

\* What a call on the key being built leaves alone.
LEMMA OnlyKey ==
  ASSUME NodeInv, UNCHANGED <<d, keys, cur, version, flags, starts>>
  PROVE  UNCHANGED <<AList, CursorKey, APolicy>>
BY DEF AList, CursorKey, APolicy, SbFields, SB_IS_BDEV

\* KEY(inode, offset, size) makes the record of these three.
LEMMA MakeKeyRefines ==
  ASSUME NodeInv, NEW inode \in Values, NEW offset \in Values, NEW size \in Values,
         MakeKey(inode, offset, size)
  PROVE  NodeInv' /\ Abstract!Build
<1>1. /\ Fits(inode, KeyFields.KEY_INODE) /\ Fits(size, KeyFields.KEY_SIZE)
      /\ key' = [key EXCEPT ![0] = KEY_high(inode, size), ![1] = offset]
      /\ UNCHANGED <<d, keys, cur, version, flags, starts>>
  BY DEF MakeKey
<1>2. inode \in Word /\ offset \in Word /\ size \in Word /\ key \in [0..7 -> Word]
  BY ValuesAssumption DEF NodeInv, WordsInv
<1>3. /\ KeyPtrs(KEY_high(inode, size)) = 0 /\ KEY_high(inode, size) \in Word
      /\ \A f \in KeyNames : Get(KEY_high(inode, size), KeyFields[f])
           = CASE f = "KEY_INODE" -> inode [] f = "KEY_SIZE" -> size [] OTHER -> {}
  BY <1>1, <1>2, KeyHigh
<1>4. key' \in [0..7 -> Word] /\ key'[0] = KEY_high(inode, size) /\ key'[1] = offset
  BY <1>1, <1>2, <1>3
<1>5. NodeInv'
  BY <1>1, <1>3, <1>4, BuildStep
<1>6. AbstractKey(key', 0) = Abstract!Make(inode, offset, size)
  <2>1. AttrOf(key'[0]) = [a \in KeyNames |-> CASE a = "KEY_INODE" -> inode
                                                [] a = "KEY_SIZE" -> size
                                                [] OTHER -> {}]
    BY <1>3, <1>4 DEF AttrOf
  <2>2. [i \in 1..KeyPtrs(key'[0]) |-> PtrOf(key'[0 + 1 + i])] = <<>>
    BY <1>3, <1>4
  <2>3. AbstractKey(key', 0) = [attr |-> AttrOf(key'[0]), offset |-> key'[0 + 1],
                               ptrs |-> [i \in 1..KeyPtrs(key'[0]) |-> PtrOf(key'[0 + 1 + i])]]
    BY KeyShape
  <2>4. key'[0 + 1] = offset /\ DOMAIN KeyFields = KeyNames
    BY <1>4, KeyFieldsApart
  <2> QED
    BY <2>1, <2>2, <2>3, <2>4 DEF Abstract!Make
<1>7. UNCHANGED <<AList, CursorKey, APolicy>>
  BY <1>1, OnlyKey
<1> QED
  BY <1>5, <1>6, <1>7 DEF Abstract!Build, AList, APolicy

\* SET_KEY_... on the key being built.
LEMMA SetKeyRefines ==
  ASSUME NodeInv, NEW f \in DOMAIN KeyFields, NEW v \in Values, SetKeyField(f, v)
  PROVE  NodeInv' /\ Abstract!Edit
<1>1. /\ key' = [key EXCEPT ![0] = Put(@, KeyFields[f], v)]
      /\ UNCHANGED <<d, keys, cur, version, flags, starts>>
  BY DEF SetKeyField
<1>2. v \in Word /\ f \in KeyNames /\ key \in [0..7 -> Word] /\ key[0] \in Word
  BY ValuesAssumption, KeyFieldsApart, BuiltKey
<1>3. key' \in [0..7 -> Word] /\ key'[0] = Put(key[0], KeyFields[f], v)
      /\ \A i \in 1..7 : key'[i] = key[i]
  <2>1. Put(key[0], KeyFields[f], v) \in Word
    BY <1>2, PutKeyField
  <2> QED
    BY <1>1, <1>2, <2>1
<1>4. KeyPtrs(key'[0]) <= 6
  BY <1>2, <1>3, PutKeyField DEF NodeInv, WordsInv
<1>5. NodeInv'
  BY <1>1, <1>3, <1>4, BuildStep
<1>6. \A i \in 2..(bkey_u64s(key[0]) - 1) : key'[0 + i] = key[0 + i]
  <2>1. bkey_u64s(key[0]) \in 2..8
    BY BuiltKey
  <2> QED
    BY <1>3, <2>1
<1>7. AbstractKey(key', 0) = [attr |-> [AttrOf(key[0]) EXCEPT ![f] = Abstract!Fit(f, v)],
                              offset |-> key'[0 + 1],
                              ptrs |-> [i \in 1..KeyPtrs(key[0]) |-> PtrOf(key[0 + 1 + i])]]
  BY <1>2, <1>3, <1>6, PutAttr
<1>8. AbstractKey(key', 0) = [AbstractKey(key, 0) EXCEPT !.attr[f] = Abstract!Fit(f, v)]
  <2> DEFINE P == [i \in 1..KeyPtrs(key[0]) |-> PtrOf(key[0 + 1 + i])]
  <2>1. AbstractKey(key, 0) = [attr |-> AttrOf(key[0]), offset |-> key[0 + 1], ptrs |-> P]
    BY KeyShape
  <2>2. AbstractKey(key', 0) = [attr |-> [AttrOf(key[0]) EXCEPT ![f] = Abstract!Fit(f, v)],
                                offset |-> key[0 + 1], ptrs |-> P]
    BY <1>3, <1>7
  <2> HIDE DEF P
  <2> QED
    BY <2>1, <2>2, RecordEdit
<1>9. UNCHANGED <<AList, CursorKey, APolicy>>
  BY <1>1, OnlyKey
<1> QED
  BY <1>5, <1>8, <1>9 DEF Abstract!Edit, AList, APolicy

\* SET_KEY_OFFSET.
LEMMA SetOffsetRefines ==
  ASSUME NodeInv, NEW v \in Values, SET_KEY_OFFSET(v)
  PROVE  NodeInv' /\ Abstract!EditOffset
<1>1. key' = [key EXCEPT ![1] = v] /\ UNCHANGED <<d, keys, cur, version, flags, starts>>
  BY DEF SET_KEY_OFFSET
<1>2. v \in Word /\ key \in [0..7 -> Word] /\ KeyPtrs(key[0]) \in 0..6
  BY ValuesAssumption, BuiltKey
<1>3. key' \in [0..7 -> Word] /\ key'[1] = v /\ \A i \in 0..7 : i # 1 => key'[i] = key[i]
  BY <1>1, <1>2
<1>4. NodeInv'
  BY <1>1, <1>2, <1>3, BuildStep
<1>5. AbstractKey(key', 0) = [AbstractKey(key, 0) EXCEPT !.offset = v]
  <2> DEFINE P == [i \in 1..KeyPtrs(key[0]) |-> PtrOf(key[0 + 1 + i])]
  <2>1. AbstractKey(key, 0) = [attr |-> AttrOf(key[0]), offset |-> key[0 + 1], ptrs |-> P]
    BY KeyShape
  <2>2. key'[0] = key[0] /\ key'[0 + 1] = v
    BY <1>3
  <2>3. [i \in 1..KeyPtrs(key'[0]) |-> PtrOf(key'[0 + 1 + i])] = P
    BY <1>2, <1>3, <2>2
  <2>4. AbstractKey(key', 0) = [attr |-> AttrOf(key'[0]), offset |-> key'[0 + 1],
                               ptrs |-> [i \in 1..KeyPtrs(key'[0]) |-> PtrOf(key'[0 + 1 + i])]]
    BY KeyShape
  <2>5. AbstractKey(key', 0) = [attr |-> AttrOf(key[0]), offset |-> v, ptrs |-> P]
    BY <2>2, <2>3, <2>4
  <2> HIDE DEF P
  <2> QED
    BY <2>1, <2>5, RecordEdit
<1>6. UNCHANGED <<AList, CursorKey, APolicy>>
  BY <1>1, OnlyKey
<1> QED
  BY <1>4, <1>5, <1>6 DEF Abstract!EditOffset, AList, APolicy

\* A pointer word is a value for each of its fields.
LEMMA PtrType == \A x : PtrOf(x) \in Pointers
BY GetType, PtrFieldsApart DEF PtrOf, Pointers

\* A pointer made and stored behind the others, and counted, is the last of the
\* record's pointers; no other part of the key has changed.
LEMMA AddPtrRefines ==
  ASSUME NodeInv, NEW gen \in Values, NEW offset \in Values, NEW dev \in Values,
         AddPtr(gen, offset, dev)
  PROVE  NodeInv' /\ Abstract!AddPointer
<1> DEFINE n == KeyPtrs(key[0])
           head == Put(key[0], KEY_PTRS, BitsOf(n + 1))
           ptr == MAKE_PTR(gen, offset, dev)
<1>1. /\ Fits(gen, PtrFields.PTR_GEN) /\ Fits(offset, PtrFields.PTR_OFFSET)
      /\ Fits(dev, PtrFields.PTR_DEV) /\ bkey_u64s(key[0]) < 8
      /\ key' = [key EXCEPT ![0] = head, ![bkey_u64s(key[0])] = ptr]
      /\ UNCHANGED <<d, keys, cur, version, flags, starts>>
  BY DEF AddPtr, BKEY_PAD
<1>2. gen \in Word /\ offset \in Word /\ dev \in Word /\ key \in [0..7 -> Word] /\ key[0] \in Word
  BY ValuesAssumption, BuiltKey
<1>3. n \in 0..5 /\ bkey_u64s(key[0]) = n + 2
  BY <1>1, BuiltKey
<1>4. /\ KeyPtrs(head) = n + 1 /\ head \in Word
      /\ \A f \in KeyNames : Get(head, KeyFields[f]) = Get(key[0], KeyFields[f])
  <2>1. n + 1 \in 0..7
    BY <1>3
  <2> HIDE DEF n
  <2> QED
    BY <1>2, <2>1, PutPtrs
<1>5. /\ Get(ptr, PtrFields["PTR_GEN"]) = gen /\ Get(ptr, PtrFields["PTR_OFFSET"]) = offset
      /\ Get(ptr, PtrFields["PTR_DEV"]) = dev /\ ptr \in Word
  BY <1>1, <1>2, MakePtr
<1> HIDE DEF n, head, ptr
<1>6. /\ key' \in [0..7 -> Word] /\ key'[0] = head /\ key'[n + 2] = ptr
      /\ \A i \in 1..7 : i # n + 2 => key'[i] = key[i]
  BY <1>1, <1>2, <1>3, <1>4, <1>5
<1>7. NodeInv'
  BY <1>1, <1>3, <1>4, <1>6, BuildStep
<1> DEFINE P == [i \in 1..n |-> PtrOf(key[0 + 1 + i])]
           Q == [i \in 1..(n + 1) |-> PtrOf(key'[0 + 1 + i])]
<1>8. P \in Seq(Pointers) /\ Len(P) = n /\ Q \in Seq(Pointers) /\ Len(Q) = n + 1
  <2>1. P \in [1..n -> Pointers] /\ Q \in [1..(n + 1) -> Pointers]
    BY PtrType
  <2> HIDE DEF P, Q
  <2>2. P \in Seq(Pointers) /\ Len(P) = n
    BY <1>3, <2>1
  <2>3. Q \in Seq(Pointers) /\ Len(Q) = n + 1
    BY <1>3, <2>1
  <2> QED
    BY <2>2, <2>3
<1>9. (\A i \in 1..n : Q[i] = P[i]) /\ Q[n + 1] = PtrOf(ptr)
  <2>1. ASSUME NEW i \in 1..n PROVE key'[0 + 1 + i] = key[0 + 1 + i]
    BY <1>3, <1>6
  <2>2. key'[0 + 1 + (n + 1)] = ptr
    BY <1>3, <1>6
  <2> QED
    BY <1>3, <2>1, <2>2
<1>10. Q = Append(P, PtrOf(ptr))
  <2> HIDE DEF P, Q
  <2>1. /\ Append(P, PtrOf(ptr)) \in Seq(Pointers) /\ Len(Append(P, PtrOf(ptr))) = n + 1
        /\ \A i \in 1..n : Append(P, PtrOf(ptr))[i] = P[i]
        /\ Append(P, PtrOf(ptr))[n + 1] = PtrOf(ptr)
    BY <1>8, PtrType, AppendProperties
  <2>2. \A i \in 1..(n + 1) : Append(P, PtrOf(ptr))[i] = Q[i]
    BY <1>3, <1>9, <2>1
  <2> QED
    BY <1>8, <2>1, <2>2, SeqEqual
<1>11. PtrOf(ptr) = Abstract!Pointer(gen, offset, dev)
  <2>1. DOMAIN PtrFields = PtrNames
    BY PtrFieldsApart
  <2> QED
    BY <1>5, <2>1 DEF PtrOf, PtrNames, Abstract!Pointer
<1>12. AbstractKey(key, 0) = [attr |-> AttrOf(key[0]), offset |-> key[0 + 1], ptrs |-> P]
  BY KeyShape DEF n
<1>13. AbstractKey(key', 0) = [attr |-> AttrOf(key[0]), offset |-> key[0 + 1], ptrs |-> Q]
  <2>1. AbstractKey(key', 0) = [attr |-> AttrOf(key'[0]), offset |-> key'[0 + 1],
                               ptrs |-> [i \in 1..KeyPtrs(key'[0]) |-> PtrOf(key'[0 + 1 + i])]]
    BY KeyShape
  <2>2. KeyPtrs(key'[0]) = n + 1 /\ key'[0 + 1] = key[0 + 1]
    BY <1>3, <1>4, <1>6
  <2>3. AttrOf(key'[0]) = AttrOf(key[0])
    BY <1>4, <1>6 DEF AttrOf
  <2> QED
    BY <2>1, <2>2, <2>3
<1>14. /\ AbstractKey(key', 0)
           = [AbstractKey(key, 0) EXCEPT !.ptrs = Append(@, Abstract!Pointer(gen, offset, dev))]
       /\ Len(AbstractKey(key, 0).ptrs) < 6
  <2> HIDE DEF P, Q
  <2> QED
    BY <1>3, <1>8, <1>10, <1>11, <1>12, <1>13, RecordEdit
<1>15. UNCHANGED <<AList, CursorKey, APolicy>>
  BY <1>1, OnlyKey
<1> HIDE DEF P, Q
<1>16. \E e \in {Abstract!Pointer(g, o, v) : g, o, v \in Values} :
         AbstractKey(key', 0) = [AbstractKey(key, 0) EXCEPT !.ptrs = Append(@, e)]
  <2>1. Abstract!Pointer(gen, offset, dev) \in {Abstract!Pointer(g, o, v) : g, o, v \in Values}
    OBVIOUS
  <2> QED
    BY <1>14, <2>1
<1>17. Len(AbstractKey(key, 0).ptrs) < BKEY_PAD - 2
  BY <1>14 DEF BKEY_PAD
<1>18. AbstractKey(key, 0)' \in {[AbstractKey(key, 0) EXCEPT !.ptrs = Append(AbstractKey(key, 0).ptrs, p)] :
                                 p \in {Abstract!Pointer(g, o, v) : g, o, v \in Values}}
  <2>1. AbstractKey(key, 0)' = AbstractKey(key', 0)
    OBVIOUS
  <2> QED
    BY <1>16, <2>1
<1>19. UNCHANGED <<[k \in DOMAIN starts |-> AbstractKey(d, starts[k])], CursorKey,
                   [f \in DOMAIN SbFields |-> Get(flags, SbFields[f])]>>
  BY <1>15 DEF AList, APolicy
<1>20. Abstract!AddPointer
  BY <1>17, <1>18, <1>19 DEF Abstract!AddPointer
<1> QED
  BY <1>7, <1>20

\* SET_PTR_... on a pointer the key has.
LEMMA SetPtrRefines ==
  ASSUME NodeInv, NEW i \in 0..(BKEY_PAD - 3), NEW f \in DOMAIN PtrFields, NEW v \in Values,
         SetPtrField(i, f, v)
  PROVE  NodeInv' /\ Abstract!EditPointer
<1> DEFINE n == KeyPtrs(key[0])
           e == Put(key[2 + i], PtrFields[f], v)
<1>1. /\ i < n /\ key' = [key EXCEPT ![2 + i] = e]
      /\ UNCHANGED <<d, keys, cur, version, flags, starts>>
  BY DEF SetPtrField
<1>2. /\ f \in PtrNames /\ v \in Word /\ key \in [0..7 -> Word] /\ n \in 0..6
      /\ i \in 0..5 /\ i + 1 \in 1..n /\ 2 + i \in 2..7
  BY <1>1, ValuesAssumption, BuiltKey, PtrFieldsApart DEF BKEY_PAD
<1>3. /\ Get(e, PtrFields[f]) = Abstract!Fit(f, v) /\ e \in Word
      /\ \A g \in PtrNames \ {f} : Get(e, PtrFields[g]) = Get(key[2 + i], PtrFields[g])
  <2>1. key[2 + i] \in Word
    BY <1>2
  <2>2. \A h \in Word : /\ Get(Put(h, PtrFields[f], v), PtrFields[f]) = Cut(v, PtrFields[f].size)
                         /\ Put(h, PtrFields[f], v) \in Word
                         /\ \A g \in PtrNames \ {f} :
                              Get(Put(h, PtrFields[f], v), PtrFields[g]) = Get(h, PtrFields[g])
    BY <1>2, PutPtrField
  <2>3. Abstract!Fit(f, v) = Cut(v, PtrFields[f].size)
    BY <1>2, FitIsCut
  <2> QED
    BY <2>1, <2>2, <2>3
<1> HIDE DEF n, e
<1>4. /\ key' \in [0..7 -> Word] /\ key'[2 + i] = e
      /\ \A j \in 0..7 : j # 2 + i => key'[j] = key[j]
  BY <1>1, <1>2, <1>3
<1>5. key'[0] = key[0] /\ key'[0 + 1] = key[0 + 1]
  BY <1>2, <1>4
<1>6. NodeInv'
  BY <1>1, <1>2, <1>4, <1>5, BuildStep DEF n
<1> DEFINE P == [j \in 1..n |-> PtrOf(key[0 + 1 + j])]
           Q == [j \in 1..n |-> PtrOf(key'[0 + 1 + j])]
<1>7. Q = [P EXCEPT ![i + 1] = [P[i + 1] EXCEPT ![f] = Abstract!Fit(f, v)]]
  <2>1. \A j \in 1..n : j # i + 1 => key'[0 + 1 + j] = key[0 + 1 + j]
    BY <1>2, <1>4
  <2>2. key'[0 + 1 + (i + 1)] = e /\ key[0 + 1 + (i + 1)] = key[2 + i]
    BY <1>2, <1>4
  <2>3. PtrOf(e) = [PtrOf(key[2 + i]) EXCEPT ![f] = Abstract!Fit(f, v)]
    BY <1>2, <1>3 DEF PtrOf
  <2>4. P[i + 1] = PtrOf(key[2 + i]) /\ Q[i + 1] = PtrOf(e)
    BY <1>2, <2>2
  <2>5. \A j \in 1..n : j # i + 1 => Q[j] = P[j]
    BY <2>1
  <2>6. DOMAIN P = 1..n /\ DOMAIN Q = 1..n /\ Q = [j \in 1..n |-> Q[j]] /\ P = [j \in 1..n |-> P[j]]
    OBVIOUS
  <2> HIDE DEF P, Q
  <2> QED
    BY <1>2, <2>3, <2>4, <2>5, <2>6
<1>8. AbstractKey(key, 0) = [attr |-> AttrOf(key[0]), offset |-> key[0 + 1], ptrs |-> P]
  BY KeyShape DEF n
<1>9. AbstractKey(key', 0) = [attr |-> AttrOf(key[0]), offset |-> key[0 + 1], ptrs |-> Q]
  <2>1. AbstractKey(key', 0) = [attr |-> AttrOf(key'[0]), offset |-> key'[0 + 1],
                               ptrs |-> [j \in 1..KeyPtrs(key'[0]) |-> PtrOf(key'[0 + 1 + j])]]
    BY KeyShape
  <2> QED
    BY <1>5, <2>1 DEF n
<1>10. i + 1 \in DOMAIN P
  BY <1>2
<1> HIDE DEF P, Q
<1>11. /\ AbstractKey(key', 0) = [AbstractKey(key, 0) EXCEPT !.ptrs[i + 1][f] = Abstract!Fit(f, v)]
       /\ i + 1 \in DOMAIN AbstractKey(key, 0).ptrs
  BY <1>7, <1>8, <1>9, <1>10, RecordEdit
<1>12. UNCHANGED <<AList, CursorKey, APolicy>>
  BY <1>1, OnlyKey
<1> QED
  BY <1>6, <1>11, <1>12 DEF Abstract!EditPointer, AList, APolicy

\* bkey_copy to the end of the node appends the record and keeps the others.
LEMMA InsertRefines ==
  ASSUME NodeInv, InsertKey
  PROVE  NodeInv' /\ Abstract!Insert
<1>0. PICK N \in Nat : N = Len(starts)
  BY DEF NodeInv, WordsInv
<1>1. /\ starts' = Append(starts, keys) /\ keys' = keys + bkey_u64s(key[0])
      /\ UNCHANGED <<key, cur, version, flags>>
  BY DEF InsertKey
<1>2. /\ NodeInv' /\ (\A i \in 0..(keys - 1) : d'[i] = d[i])
      /\ \A i \in 0..(bkey_u64s(key[0]) - 1) : d'[keys + i] = key[i]
  BY InsertStep
<1>3. starts \in Seq(Nat) /\ keys \in Nat /\ Positions = 1..N
  BY <1>0 DEF NodeInv, WordsInv, Positions
<1>4. /\ Len(starts') = N + 1 /\ DOMAIN starts' = 1..(N + 1) /\ starts'[N + 1] = keys
      /\ \A n \in 1..N : starts'[n] = starts[n]
  BY <1>0, <1>1, <1>3, AppendProperties
<1>5. ASSUME NEW n \in 1..N PROVE AbstractKey(d', starts'[n]) = AbstractKey(d, starts[n])
  <2>1. starts[n] \in Nat /\ Size(n) \in 2..8 /\ starts[n] + Size(n) <= keys
    BY <1>3, KeysLie
  <2>2. \A i \in 0..(Size(n) - 1) : starts[n] + i \in 0..(keys - 1)
    <3>1. keys \in Nat
      BY <1>3
    <3> QED
      BY <2>1, <3>1
  <2>3. \A i \in 0..(bkey_u64s(d[starts[n]]) - 1) : d'[starts[n] + i] = d[starts[n] + i]
    BY <1>2, <2>2 DEF Size
  <2>4. AbstractKey(d', starts[n]) = AbstractKey(d, starts[n])
    BY <2>1, <2>3, SameWords
  <2> QED
    BY <1>4, <2>4
<1>6. AbstractKey(d', starts'[N + 1]) = AbstractKey(key, 0)
  <2>1. \A i \in 0..(bkey_u64s(key[0]) - 1) : d'[keys + i] = key[0 + i]
    BY <1>2
  <2> QED
    BY <1>3, <1>4, <2>1, SameWords
<1>7. AbstractKey(key, 0) \in KeyRec
  <2>1. \A i \in 0..(bkey_u64s(key[0]) - 1) : key[0 + i] \in Word
    BY BuiltKey
  <2> QED
    BY <2>1, KeyIsRec
<1>8. AList \in Seq(KeyRec) /\ Len(AList) = N /\ \A n \in 1..N : AList[n] = AbstractKey(d, starts[n])
  BY <1>0, <1>3, ListShape
<1>9. /\ DOMAIN AList' = 1..(N + 1)
      /\ \A n \in 1..(N + 1) : AList'[n] = AbstractKey(d', starts'[n])
      /\ AList' \in [1..(N + 1) -> KeyRec]
  <2>1. AList' = [n \in 1..(N + 1) |-> AbstractKey(d', starts'[n])]
    BY <1>4 DEF AList
  <2>2. \A n \in 1..N : AbstractKey(d, starts[n]) \in KeyRec
    BY <1>3, ListShape
  <2>3. \A n \in 1..(N + 1) : AbstractKey(d', starts'[n]) \in KeyRec
    <3> TAKE n \in 1..(N + 1)
    <3>1. CASE n = N + 1
      BY <1>6, <1>7, <3>1
    <3>2. CASE n \in 1..N
      BY <1>5, <2>2, <3>2
    <3> QED
      BY <3>1, <3>2
  <2> QED
    BY <2>1, <2>3
<1>10. AList' = Append(AList, AbstractKey(key, 0))
  <2> DEFINE L == Append(AList, AbstractKey(key, 0))
  <2>1. /\ L \in Seq(KeyRec) /\ Len(L) = N + 1 /\ L[N + 1] = AbstractKey(key, 0)
        /\ \A n \in 1..N : L[n] = AList[n]
    BY <1>7, <1>8, AppendProperties
  <2>2. AList' \in Seq(KeyRec) /\ Len(AList') = N + 1
    BY <1>9
  <2>3. \A n \in 1..(N + 1) : AList'[n] = L[n]
    <3> HIDE DEF L
    <3> TAKE n \in 1..(N + 1)
    <3>1. CASE n = N + 1
      BY <1>6, <1>9, <2>1, <3>1
    <3>2. CASE n \in 1..N
      BY <1>5, <1>8, <1>9, <2>1, <3>2
    <3> QED
      BY <3>1, <3>2
  <2> HIDE DEF L
  <2> QED
    BY <2>1, <2>2, <2>3, SeqEqual DEF L
<1>11. CursorKey' = CursorKey
  <2>1. /\ Positions' = 1..(N + 1)
        /\ \A n \in 1..(N + 1) : starts'[n] = cur' => CursorKey' = n
    BY <1>2, <1>4, CursorThen DEF CursorOK, Positions
  <2>2. CASE cur = keys
    BY <1>0, <1>1, <1>4, <2>1, <2>2, CursorAt DEF CursorOK
  <2>3. CASE cur # keys
    BY <1>1, <1>3, <1>4, <2>1, <2>3, CursorAt DEF CursorOK
  <2> QED
    BY <2>2, <2>3
<1>12. APolicy' = APolicy /\ AbstractKey(key, 0)' = AbstractKey(key, 0)
  BY <1>1 DEF APolicy, SbFields, SB_IS_BDEV
<1> QED
  BY <1>2, <1>10, <1>11, <1>12 DEF Abstract!Insert, AList, APolicy

\* bkey_next advances the position by one.
LEMMA NextRefines ==
  ASSUME NodeInv, bkey_next
  PROVE  NodeInv' /\ Abstract!Advance
<1>1. UNCHANGED <<key, d, keys, version, flags, starts>>
  BY DEF bkey_next
<1>2. NodeInv' /\ cur < keys /\ CursorKey' = CursorKey + 1
  BY NextStep
<1>3. CursorKey \in Positions
  BY <1>2, CursorAt DEF CursorOK
<1>4. CursorKey <= Len(AList)
  BY <1>3, ListShape DEF Positions
<1>5. UNCHANGED <<AbstractKey(key, 0), AList, APolicy>>
  BY <1>1 DEF AList, APolicy, SbFields, SB_IS_BDEV
<1> QED
  BY <1>2, <1>4, <1>5 DEF Abstract!Advance, AList, APolicy

\* The cursor that leaves its key goes to the first one: there is one.
LEMMA FirstRefines ==
  ASSUME NodeInv, FirstKey
  PROVE  NodeInv' /\ Abstract!Rewind
<1>1. cur # 0 /\ cur' = 0 /\ UNCHANGED <<key, d, keys, version, flags, starts>>
  BY DEF FirstKey
<1>2. PICK N \in Nat : N = Len(starts)
  BY DEF NodeInv, WordsInv
<1>3. Positions = 1..N /\ starts \in Seq(Nat)
  BY <1>2 DEF NodeInv, WordsInv, Positions
<1>4. starts # <<>>
  BY <1>1 DEF NodeInv, ChainInv, CursorInv, Positions
<1>5. 1 \in 1..N /\ starts[1] = 0
  BY <1>2, <1>3, <1>4 DEF NodeInv, ChainInv
<1>6. NodeInv'
  <2>1. WordsInv'
    BY <1>1 DEF NodeInv, WordsInv
  <2>2. ChainInv'
    BY <1>1 DEF NodeInv, ChainInv, Positions, Size
  <2>3. CursorInv'
    BY <1>1, <1>2, <1>5 DEF CursorInv, Positions
  <2> QED
    BY <2>1, <2>2, <2>3 DEF NodeInv
<1>7. Positions' = 1..N /\ starts'[1] = cur'
  BY <1>1, <1>2, <1>5 DEF Positions
<1>8. CursorKey' = 1
  BY <1>5, <1>6, <1>7, CursorThen DEF CursorOK
<1>9. UNCHANGED <<AbstractKey(key, 0), AList, APolicy>>
  BY <1>1 DEF AList, APolicy, SbFields, SB_IS_BDEV
<1> QED
  BY <1>6, <1>8, <1>9 DEF Abstract!Rewind, AList, APolicy

\* bkey_copy from the node takes the whole key under the cursor.
LEMMA LoadRefines ==
  ASSUME NodeInv, LoadKey
  PROVE  NodeInv' /\ Abstract!Fetch
<1> DEFINE u == bkey_u64s(d[cur])
<1>1. /\ cur < keys /\ key' = bkey_copy(key, 0, d, cur)
      /\ UNCHANGED <<d, keys, cur, version, flags, starts>>
  BY DEF LoadKey
<1>2. PICK n \in Positions : n = CursorKey /\ starts[n] = cur
  BY <1>1, CursorAt DEF CursorOK
<1>3. cur \in Nat /\ u \in 2..8 /\ KeyPtrs(d[cur]) <= 6
      /\ \A i \in 0..(u - 1) : cur + i \in 0..(NodeWords - 1)
  BY <1>2, KeysLie DEF Size, NodeInv, ChainInv
<1> HIDE DEF u
<1>4. \A i \in 0..(u - 1) : d[cur + i] \in Word
  BY <1>3 DEF NodeInv, WordsInv
<1>5. key \in [0..7 -> Word]
  BY BuiltKey
<1>6. key' = [i \in 0..7 |-> IF i \in 0..(0 + u - 1) THEN d[cur + i - 0] ELSE key[i]]
  BY <1>1, <1>5 DEF bkey_copy, u
<1>7. \A i \in 0..7 : key'[i] = IF i \in 0..(u - 1) THEN d[cur + i] ELSE key[i]
  BY <1>3, <1>6
<1>8. key' \in [0..7 -> Word]
  <2>1. \A i \in 0..7 : key'[i] \in Word
    BY <1>4, <1>5, <1>7
  <2>2. DOMAIN key' = 0..7 /\ key' = [i \in 0..7 |-> key'[i]]
    BY <1>6
  <2> QED
    BY <2>1, <2>2
<1>9. \A i \in 0..(u - 1) : key'[0 + i] = d[cur + i]
  BY <1>3, <1>7
<1>10. key'[0] = d[cur]
  <2>1. 0 + 0 = 0 /\ cur + 0 = cur /\ 0 \in 0..(u - 1)
    BY <1>3
  <2> QED
    BY <1>9, <2>1
<1>11. NodeInv'
  BY <1>1, <1>3, <1>8, <1>10, BuildStep
<1>12. AbstractKey(key', 0) = AbstractKey(d, cur)
  BY <1>3, <1>9, SameWords DEF u
<1>13. CursorKey <= Len(AList) /\ AList[CursorKey] = AbstractKey(d, cur)
  BY <1>2, ListShape DEF Positions
<1>14. UNCHANGED <<AList, CursorKey, APolicy>>
  BY <1>1, OnlyKey
<1> QED
  BY <1>11, <1>12, <1>13, <1>14 DEF Abstract!Fetch, AList, APolicy

\* A call that writes the first two words of the key under the cursor and keeps
\* its number of pointers changes that key's record and no other.
LEMMA InPlace ==
  ASSUME NodeInv, cur < keys, UNCHANGED <<key, keys, cur, version, flags, starts>>,
         d' \in [0..(NodeWords - 1) -> Word], KeyPtrs(d'[cur]) = KeyPtrs(d[cur]),
         \A i \in 0..(NodeWords - 1) : i # cur /\ i # cur + 1 => d'[i] = d[i]
  PROVE  /\ NodeInv' /\ UNCHANGED <<AbstractKey(key, 0), CursorKey, APolicy>>
         /\ CursorKey \in DOMAIN AList /\ CursorKey <= Len(AList)
         /\ AList[CursorKey] = AbstractKey(d, cur)
         /\ AList' = [AList EXCEPT ![CursorKey] = AbstractKey(d', cur)]
<1>1. PICK n \in Positions : n = CursorKey /\ starts[n] = cur
  BY CursorAt DEF CursorOK
<1>2. ASSUME NEW m \in Positions \ {n}
      PROVE  AbstractKey(d', starts[m]) = AbstractKey(d, starts[m]) /\ d'[starts[m]] = d[starts[m]]
  <2>1. starts[m] \in Nat /\ Size(m) \in 2..8 /\ Size(n) \in 2..8 /\ starts[n] \in Nat
        /\ \A i \in 0..(Size(m) - 1) : starts[m] + i \in 0..(NodeWords - 1)
    BY KeysLie
  <2>2. \A i \in 0..(Size(n) - 1), j \in 0..(Size(m) - 1) : starts[n] + i # starts[m] + j
    BY KeysLie
  <2>3. 0 \in 0..(Size(n) - 1) /\ 1 \in 0..(Size(n) - 1) /\ starts[n] + 0 = cur /\ starts[n] + 1 = cur + 1
    BY <1>1, <2>1
  <2>4. \A j \in 0..(Size(m) - 1) : starts[m] + j # cur /\ starts[m] + j # cur + 1
    BY <2>2, <2>3
  <2>5. \A j \in 0..(Size(m) - 1) : d'[starts[m] + j] = d[starts[m] + j]
    BY <2>1, <2>4
  <2>6. AbstractKey(d', starts[m]) = AbstractKey(d, starts[m])
    <3>1. \A j \in 0..(bkey_u64s(d[starts[m]]) - 1) : d'[starts[m] + j] = d[starts[m] + j]
      BY <2>5 DEF Size
    <3>2. PICK at \in Nat : at = starts[m]
      BY <2>1
    <3>3. \A j \in 0..(bkey_u64s(d[at]) - 1) : d'[at + j] = d[at + j]
      BY <3>1, <3>2
    <3>4. AbstractKey(d', at) = AbstractKey(d, at)
      BY <3>3, SameWords
    <3> QED
      BY <3>2, <3>4
  <2>7. 0 \in 0..(Size(m) - 1) /\ starts[m] + 0 = starts[m]
    BY <2>1
  <2> QED
    BY <2>5, <2>6, <2>7
<1>3. \A m \in Positions : KeyPtrs(d'[starts[m]]) = KeyPtrs(d[starts[m]])
  BY <1>1, <1>2
<1>4. NodeInv'
  BY <1>3, HeadsStep
<1>5. UNCHANGED <<AbstractKey(key, 0), CursorKey, APolicy>>
  BY DEF CursorKey, APolicy, SbFields, SB_IS_BDEV
<1>6. n \in DOMAIN AList /\ n <= Len(AList) /\ AList[n] = AbstractKey(d, cur)
      /\ DOMAIN AList = Positions /\ DOMAIN starts = Positions
      /\ \A m \in Positions : AList[m] = AbstractKey(d, starts[m])
  BY <1>1, ListShape DEF Positions, NodeInv, WordsInv
<1>7. AList' = [m \in Positions |-> AbstractKey(d', starts[m])]
  BY <1>6 DEF AList
<1>8. AList' = [m \in Positions |-> IF m = n THEN AbstractKey(d', cur) ELSE AList[m]]
  <2>1. \A m \in Positions : AbstractKey(d', starts[m]) = IF m = n THEN AbstractKey(d', cur) ELSE AList[m]
    BY <1>1, <1>2, <1>6
  <2> QED
    BY <1>7, <2>1
<1> QED
  BY <1>1, <1>4, <1>5, <1>6, <1>8

\* SET_KEY_... on a key of the node.
LEMMA SetInNodeRefines ==
  ASSUME NodeInv, NEW f \in DOMAIN KeyFields, NEW v \in Values, SetInNode(f, v)
  PROVE  NodeInv' /\ Abstract!EditInPlace
<1>1. /\ cur < keys /\ d' = [d EXCEPT ![cur] = Put(d[cur], KeyFields[f], v)]
      /\ UNCHANGED <<key, keys, cur, version, flags, starts>>
  BY DEF SetInNode
<1>2. v \in Word /\ f \in KeyNames /\ d \in [0..(NodeWords - 1) -> Word]
      /\ cur \in Nat /\ cur \in 0..(NodeWords - 1) /\ d[cur] \in Word
  BY <1>1, ValuesAssumption, BoundsAssumption, KeyFieldsApart DEF NodeInv, WordsInv
<1>3. KeyPtrs(Put(d[cur], KeyFields[f], v)) = KeyPtrs(d[cur]) /\ Put(d[cur], KeyFields[f], v) \in Word
  BY <1>2, PutKeyField
<1>4. /\ d' \in [0..(NodeWords - 1) -> Word] /\ d'[cur] = Put(d[cur], KeyFields[f], v)
      /\ \A i \in 0..(NodeWords - 1) : i # cur => d'[i] = d[i]
  BY <1>1, <1>2, <1>3
<1>5. KeyPtrs(d'[cur]) = KeyPtrs(d[cur])
  BY <1>3, <1>4
<1>6. /\ NodeInv' /\ UNCHANGED <<AbstractKey(key, 0), CursorKey, APolicy>>
      /\ CursorKey \in DOMAIN AList /\ CursorKey <= Len(AList)
      /\ AList[CursorKey] = AbstractKey(d, cur)
      /\ AList' = [AList EXCEPT ![CursorKey] = AbstractKey(d', cur)]
  BY <1>1, <1>4, <1>5, InPlace
<1>7. \A i \in 1..(bkey_u64s(d[cur]) - 1) : d'[cur + i] = d[cur + i]
  <2>1. PICK n \in Positions : starts[n] = cur
    BY <1>1, CursorAt DEF CursorOK
  <2>2. Size(n) = bkey_u64s(d[cur]) /\ Size(n) \in 2..8
        /\ \A i \in 0..(Size(n) - 1) : cur + i \in 0..(NodeWords - 1)
    BY <2>1, KeysLie DEF Size
  <2>3. \A i \in 1..(Size(n) - 1) : cur + i \in 0..(NodeWords - 1) /\ cur + i # cur
    BY <1>2, <2>2
  <2> QED
    BY <1>4, <2>2, <2>3
<1> DEFINE P == [i \in 1..KeyPtrs(d[cur]) |-> PtrOf(d[cur + 1 + i])]
<1>8. AbstractKey(d, cur) = [attr |-> AttrOf(d[cur]), offset |-> d[cur + 1], ptrs |-> P]
  BY KeyShape
<1>9. AbstractKey(d', cur) = [attr |-> [AttrOf(d[cur]) EXCEPT ![f] = Abstract!Fit(f, v)],
                              offset |-> d[cur + 1], ptrs |-> P]
  <2>1. \A i \in 2..(bkey_u64s(d[cur]) - 1) : d'[cur + i] = d[cur + i]
    BY <1>7
  <2>2. d'[cur + 1] = d[cur + 1]
    BY <1>7, KeyPtrsType DEF bkey_u64s
  <2>3. AbstractKey(d', cur) = [attr |-> [AttrOf(d[cur]) EXCEPT ![f] = Abstract!Fit(f, v)],
                                offset |-> d'[cur + 1], ptrs |-> P]
    BY <1>2, <1>4, <2>1, PutAttr
  <2> QED
    BY <2>2, <2>3
<1> HIDE DEF P
<1>10. AList' = [AList EXCEPT ![CursorKey].attr[f] = Abstract!Fit(f, v)]
  <2> DEFINE k == CursorKey
             a == AttrOf(d[cur])
             o == d[cur + 1]
             e == Abstract!Fit(f, v)
  <2>1. /\ k \in DOMAIN AList /\ AList[k] = [attr |-> a, offset |-> o, ptrs |-> P]
        /\ AList' = [AList EXCEPT ![k] = [attr |-> [a EXCEPT ![f] = e], offset |-> o, ptrs |-> P]]
    BY <1>6, <1>8, <1>9
  <2> HIDE DEF k, a, o, e
  <2>2. [AList EXCEPT ![k].attr[f] = e]
          = [AList EXCEPT ![k] = [attr |-> [a EXCEPT ![f] = e], offset |-> o, ptrs |-> P]]
    <3>1. [AList[k] EXCEPT !.attr[f] = e] = [attr |-> [a EXCEPT ![f] = e], offset |-> o, ptrs |-> P]
      BY <2>1, RecordEdit
    <3> QED
      BY <3>1
  <2>3. AList' = [AList EXCEPT ![k].attr[f] = e]
    BY <2>1, <2>2
  <2> QED
    BY <2>3 DEF k, e
<1> QED
  BY <1>6, <1>10 DEF Abstract!EditInPlace, AList, APolicy

\* bkey_copy_key gives the key under the cursor the inode and the offset of the
\* other, and leaves its size, its flags and its pointers.
LEMMA CopyKeyRefines ==
  ASSUME NodeInv, bkey_copy_key
  PROVE  NodeInv' /\ Abstract!MoveTo
<1> DEFINE f == "KEY_INODE"
           v == Get(key[0], KeyFields[f])
<1>1. /\ cur < keys
      /\ d' = [d EXCEPT ![cur] = Put(d[cur], KeyFields[f], v), ![cur + 1] = key[1]]
      /\ UNCHANGED <<key, keys, cur, version, flags, starts>>
  BY DEF bkey_copy_key
<1>2. f \in KeyNames /\ v \in Word /\ Abstract!Fit(f, v) = v
  <2>1. f \in KeyNames /\ IsField(KeyFields[f])
    BY KeyFieldsApart DEF KeyNames
  <2>2. v \in Word
    BY <2>1, GetType
  <2>3. Fits(v, KeyFields[f])
    BY <2>1 DEF Fits, Get, IsField
  <2>4. Cut(v, KeyFields[f].size) = v
    BY <2>3, CutFits
  <2> QED
    BY <2>1, <2>2, <2>4, FitIsCut
<1>3. PICK n \in Positions : starts[n] = cur
  BY <1>1, CursorAt DEF CursorOK
<1>4. /\ cur \in Nat /\ Size(n) = bkey_u64s(d[cur]) /\ Size(n) \in 2..8
      /\ \A i \in 0..(Size(n) - 1) : cur + i \in 0..(NodeWords - 1)
  BY <1>3, KeysLie DEF Size
<1>5. cur \in 0..(NodeWords - 1) /\ cur + 1 \in 0..(NodeWords - 1)
  <2>1. 0 \in 0..(Size(n) - 1) /\ 1 \in 0..(Size(n) - 1) /\ cur + 0 = cur
    BY <1>4
  <2> QED
    BY <1>4, <2>1
<1>6. /\ d \in [0..(NodeWords - 1) -> Word] /\ d[cur] \in Word
      /\ key \in [0..7 -> Word] /\ key[1] \in Word
  <2>1. d \in [0..(NodeWords - 1) -> Word] /\ key \in [0..7 -> Word]
    BY DEF NodeInv, WordsInv
  <2>2. d[cur] \in Word
    BY <1>5, <2>1
  <2>3. key[1] \in Word
    BY <2>1
  <2> QED
    BY <2>1, <2>2, <2>3
<1> HIDE DEF f, v
<1>7. KeyPtrs(Put(d[cur], KeyFields[f], v)) = KeyPtrs(d[cur]) /\ Put(d[cur], KeyFields[f], v) \in Word
  BY <1>2, <1>6, PutKeyField
<1>8. /\ d' \in [0..(NodeWords - 1) -> Word]
      /\ d'[cur] = Put(d[cur], KeyFields[f], v) /\ d'[cur + 1] = key[1]
      /\ \A i \in 0..(NodeWords - 1) : i # cur /\ i # cur + 1 => d'[i] = d[i]
  <2>1. cur # cur + 1
    BY <1>4
  <2> QED
    BY <1>1, <1>5, <1>6, <1>7, <2>1
<1>9. KeyPtrs(d'[cur]) = KeyPtrs(d[cur])
  BY <1>7, <1>8
<1>10. /\ NodeInv' /\ UNCHANGED <<AbstractKey(key, 0), CursorKey, APolicy>>
       /\ CursorKey \in DOMAIN AList /\ CursorKey <= Len(AList)
       /\ AList[CursorKey] = AbstractKey(d, cur)
       /\ AList' = [AList EXCEPT ![CursorKey] = AbstractKey(d', cur)]
  BY <1>1, <1>8, <1>9, InPlace
<1>11. \A i \in 2..(bkey_u64s(d[cur]) - 1) : d'[cur + i] = d[cur + i]
  <2>1. \A i \in 2..(Size(n) - 1) : cur + i \in 0..(NodeWords - 1) /\ cur + i # cur /\ cur + i # cur + 1
    BY <1>4
  <2> QED
    BY <1>4, <1>8, <2>1
<1> DEFINE P == [i \in 1..KeyPtrs(d[cur]) |-> PtrOf(d[cur + 1 + i])]
<1>12. AbstractKey(d, cur) = [attr |-> AttrOf(d[cur]), offset |-> d[cur + 1], ptrs |-> P]
  BY KeyShape
<1>13. AbstractKey(d', cur) = [attr |-> [AttrOf(d[cur]) EXCEPT ![f] = v], offset |-> key[1], ptrs |-> P]
  <2>1. AbstractKey(d', cur) = [attr |-> [AttrOf(d[cur]) EXCEPT ![f] = Abstract!Fit(f, v)],
                                offset |-> d'[cur + 1], ptrs |-> P]
    BY <1>2, <1>4, <1>6, <1>8, <1>11, PutAttr
  <2> QED
    BY <1>2, <1>8, <2>1
<1> HIDE DEF P
<1>14. AList' = [AList EXCEPT ![CursorKey].attr[f] = v, ![CursorKey].offset = key[1]]
  <2> DEFINE k == CursorKey
             a == AttrOf(d[cur])
             o == d[cur + 1]
             x == key[1]
  <2>1. /\ k \in DOMAIN AList /\ AList[k] = [attr |-> a, offset |-> o, ptrs |-> P]
        /\ AList' = [AList EXCEPT ![k] = [attr |-> [a EXCEPT ![f] = v], offset |-> x, ptrs |-> P]]
    BY <1>10, <1>12, <1>13
  <2> HIDE DEF k, a, o, x
  <2>2. [AList EXCEPT ![k].attr[f] = v, ![k].offset = x]
          = [AList EXCEPT ![k] = [attr |-> [a EXCEPT ![f] = v], offset |-> x, ptrs |-> P]]
    <3> DEFINE r == [attr |-> [a EXCEPT ![f] = v], offset |-> o, ptrs |-> P]
               z == [attr |-> [a EXCEPT ![f] = v], offset |-> x, ptrs |-> P]
               M == [AList EXCEPT ![k] = r]
    <3>1. [AList[k] EXCEPT !.attr[f] = v] = r /\ [r EXCEPT !.offset = x] = z
      BY <2>1, RecordEdit
    <3>2. M[k] = r
      BY <2>1
    <3>3. [AList EXCEPT ![k].attr[f] = v] = M
      BY <3>1
    <3>4. [M EXCEPT ![k].offset = x] = [M EXCEPT ![k] = z]
      <4> HIDE DEF M, r, z
      <4> QED
        BY <3>1, <3>2
    <3>5. [M EXCEPT ![k] = z] = [AList EXCEPT ![k] = z]
      <4> HIDE DEF r, z
      <4> QED
        OBVIOUS
    <3> QED
      BY <3>3, <3>4, <3>5
  <2>3. AList' = [AList EXCEPT ![k].attr[f] = v, ![k].offset = x]
    BY <2>1, <2>2
  <2> QED
    BY <2>3 DEF k, x
<1>15. AbstractKey(key, 0).attr["KEY_INODE"] = v /\ AbstractKey(key, 0).offset = key[1]
  <2>1. AbstractKey(key, 0).attr = AttrOf(key[0]) /\ AbstractKey(key, 0).offset = key[0 + 1]
    BY KeyShape
  <2>2. AttrOf(key[0])["KEY_INODE"] = v
    BY <1>2 DEF AttrOf, f, v
  <2> QED
    BY <2>1, <2>2
<1> QED
  BY <1>10, <1>14, <1>15 DEF Abstract!MoveTo, AList, APolicy, f

\* SET_CACHE_... and SET_BDEV_... set one attribute of the superblock's policy.
LEMMA SetSbRefines ==
  ASSUME NodeInv, NEW f \in DOMAIN SbFields, NEW v \in Values, SetSbField(f, v)
  PROVE  NodeInv' /\ Abstract!SetPolicy
<1>1. /\ flags' = Put(flags, SbFields[f], v)
      /\ UNCHANGED <<key, d, keys, cur, version, starts>>
  BY DEF SetSbField
<1>2. v \in Word /\ flags \in Word /\ IsField(SbFields[f])
  BY ValuesAssumption, SbFieldsApart DEF NodeInv, WordsInv
<1>3. flags' \in Word
  BY <1>1, <1>2, PutType
<1>4. NodeInv'
  <2>1. WordsInv'
    BY <1>1, <1>3 DEF NodeInv, WordsInv
  <2>2. ChainInv'
    BY <1>1 DEF NodeInv, ChainInv, Positions, Size
  <2>3. CursorInv'
    BY <1>1 DEF NodeInv, CursorInv, Positions
  <2> QED
    BY <2>1, <2>2, <2>3 DEF NodeInv
<1>5. UNCHANGED <<AbstractKey(key, 0), AList, CursorKey>> /\ SbFields' = SbFields
  BY <1>1 DEF AList, CursorKey, SbFields, SB_IS_BDEV
<1>6. Get(flags', SbFields[f]) = Abstract!Fit(f, v)
  BY <1>1, <1>2, GetPutSame, FitIsCut
<1>7. \A g \in DOMAIN SbFields \ {f} : Get(flags', SbFields[g]) = Get(flags, SbFields[g])
  <2> TAKE g \in DOMAIN SbFields \ {f}
  <2>1. IsField(SbFields[g]) /\ Apart(SbFields[f], SbFields[g])
    BY SbFieldsApart
  <2> QED
    BY <1>1, <1>2, <2>1, GetPutOther
<1>8. APolicy' = [APolicy EXCEPT ![f] = Abstract!Fit(f, v)] /\ f \in DOMAIN APolicy
  BY <1>5, <1>6, <1>7 DEF APolicy
<1> QED
  BY <1>4, <1>5, <1>8 DEF Abstract!SetPolicy, AList, APolicy

-----------------------------------------------------------------------------
(* The whole behaviour.                                                  *)

\* The first node is the empty list, the first key an empty record, and no policy
\* is set, whichever kind of superblock it is.
LEMMA InitRefines == Init => Abstract!Init
<1> SUFFICES ASSUME Init PROVE Abstract!Init
  OBVIOUS
<1>1. {} \in Word /\ Fits({}, KeyFields.KEY_INODE) /\ Fits({}, KeyFields.KEY_SIZE)
  BY DEF Word, Fits
<1>2. /\ KeyPtrs(KEY_high({}, {})) = 0
      /\ \A f \in KeyNames : Get(KEY_high({}, {}), KeyFields[f])
           = CASE f = "KEY_INODE" -> {} [] f = "KEY_SIZE" -> {} [] OTHER -> {}
  BY <1>1, KeyHigh
<1>3. key[0] = KEY_high({}, {}) /\ key[0 + 1] = {}
  BY DEF Init, BKEY_PAD
<1>4. AbstractKey(key, 0) = Abstract!Make({}, {}, {})
  <2>1. AttrOf(key[0]) = [a \in KeyNames |-> CASE a = "KEY_INODE" -> {}
                                               [] a = "KEY_SIZE" -> {}
                                               [] OTHER -> {}]
    BY <1>2, <1>3 DEF AttrOf
  <2>2. [i \in 1..KeyPtrs(key[0]) |-> PtrOf(key[0 + 1 + i])] = <<>>
    BY <1>2, <1>3
  <2>3. AbstractKey(key, 0) = [attr |-> AttrOf(key[0]), offset |-> key[0 + 1],
                               ptrs |-> [i \in 1..KeyPtrs(key[0]) |-> PtrOf(key[0 + 1 + i])]]
    BY KeyShape
  <2>4. DOMAIN KeyFields = KeyNames
    BY KeyFieldsApart
  <2> QED
    BY <1>3, <2>1, <2>2, <2>3, <2>4 DEF Abstract!Make
<1>5. [n \in DOMAIN starts |-> AbstractKey(d, starts[n])] = <<>>
  <2>1. starts = <<>>
    BY DEF Init
  <2> QED
    BY <2>1
<1>6. CursorKey = 1
  BY DEF Init, CursorKey
<1>7. [f \in DOMAIN SbFields |-> Get(flags, SbFields[f])] = [p \in DOMAIN SbFields |-> {}]
  <2>1. \A g : Get(flags, g) = {}
    BY DEF Init, Get
  <2> QED
    BY <2>1
<1>8. DOMAIN SbFields \in {DOMAIN CacheFields, DOMAIN BdevFields}
  BY DEF SbFields
<1> QED
  BY <1>4, <1>5, <1>6, <1>7, <1>8 DEF Abstract!Init

\* A step of the words is a step of the list.
LEMMA StepRefines ==
  ASSUME NodeInv, [Next]_vars
  PROVE  NodeInv' /\ [Abstract!Next]_(Abstract!vars)
<1>1. ASSUME NEW inode \in Values, NEW offset \in Values, NEW size \in Values,
             MakeKey(inode, offset, size)
      PROVE  NodeInv' /\ Abstract!Next
  BY <1>1, MakeKeyRefines DEF Abstract!Next
<1>2. ASSUME NEW f \in DOMAIN KeyFields, NEW v \in Values, SetKeyField(f, v)
      PROVE  NodeInv' /\ Abstract!Next
  BY <1>2, SetKeyRefines DEF Abstract!Next
<1>3. ASSUME NEW v \in Values, SET_KEY_OFFSET(v)
      PROVE  NodeInv' /\ Abstract!Next
  BY <1>3, SetOffsetRefines DEF Abstract!Next
<1>4. ASSUME NEW gen \in Values, NEW offset \in Values, NEW dev \in Values,
             AddPtr(gen, offset, dev)
      PROVE  NodeInv' /\ Abstract!Next
  BY <1>4, AddPtrRefines DEF Abstract!Next
<1>5. ASSUME NEW i \in 0..(BKEY_PAD - 3), NEW f \in DOMAIN PtrFields, NEW v \in Values,
             SetPtrField(i, f, v)
      PROVE  NodeInv' /\ Abstract!Next
  BY <1>5, SetPtrRefines DEF Abstract!Next
<1>6. CASE InsertKey
  BY <1>6, InsertRefines DEF Abstract!Next
<1>7. CASE bkey_next
  BY <1>7, NextRefines DEF Abstract!Next
<1>8. CASE FirstKey
  BY <1>8, FirstRefines DEF Abstract!Next
<1>9. CASE LoadKey
  BY <1>9, LoadRefines DEF Abstract!Next
<1>10. ASSUME NEW f \in DOMAIN KeyFields, NEW v \in Values, SetInNode(f, v)
       PROVE  NodeInv' /\ Abstract!Next
  BY <1>10, SetInNodeRefines DEF Abstract!Next
<1>11. CASE bkey_copy_key
  BY <1>11, CopyKeyRefines DEF Abstract!Next
<1>12. ASSUME NEW f \in DOMAIN SbFields, NEW v \in Values, SetSbField(f, v)
       PROVE  NodeInv' /\ Abstract!Next
  BY <1>12, SetSbRefines DEF Abstract!Next
<1>13. CASE UNCHANGED vars
  <2>1. UNCHANGED <<key, d, keys, cur, version, flags, starts>>
    BY <1>13 DEF vars
  <2>2. NodeInv'
    BY <2>1 DEF NodeInv, WordsInv, ChainInv, CursorInv, Positions, Size
  <2>3. UNCHANGED Abstract!vars
    BY <2>1 DEF Abstract!vars, CursorKey, SbFields, SB_IS_BDEV
  <2> QED
    BY <2>2, <2>3
<1>14. CASE Next
  BY <1>1, <1>2, <1>3, <1>4, <1>5, <1>6, <1>7, <1>8, <1>9, <1>10, <1>11, <1>12, <1>14 DEF Next
<1> QED
  BY <1>13, <1>14

\* Keys of a node never overlap and leave no gap, and the cursor is always at the
\* beginning of a key or behind the last: walking the node with bkey_next, which
\* trusts the number of pointers in each first word, never leaves the keys.
THEOREM NodeInductive == Spec => []NodeInv
<1>1. NodeInv /\ [Next]_vars => NodeInv'
  BY StepRefines
<1> QED
  BY NodeInit, <1>1, PTL DEF Spec

\* Read back through the getters, the words of a node, of a key and of a superblock
\* behave as a list of records, for every size of the node, every number of calls
\* and every set of values: SET_... changes that attribute and no other, of that
\* key and no other; bkey_copy keeps every attribute and pointer; bkey_next goes
\* from a key to the next.
THEOREM KeysAsRecordsHolds == Spec => KeysAsRecords
<1>1. NodeInv /\ [Next]_vars => NodeInv' /\ [Abstract!Next]_(Abstract!vars)
  BY StepRefines
<1>2. Spec => Abstract!Init /\ [][Abstract!Next]_(Abstract!vars)
  BY NodeInit, InitRefines, <1>1, PTL DEF Spec
<1> QED
  BY <1>2 DEF KeysAsRecords, Abstract!Spec

=============================================================================
