------------------------------- MODULE Bcache -------------------------------
(*************************************************************************)
(* The key and superblock accessors of bcache.h.  A 64-bit word is the   *)
(* set of its one bits.  A key is two words and as many pointer words as *)
(* its own KEY_PTRS field says, so a wrong bit anywhere in the first     *)
(* word moves every later key of a btree node.                           *)
(*                                                                       *)
(* State: a key in a BKEY_PADDED buffer, the words d[] of a btree node   *)
(* with their count, a cursor moved with bkey_next, a superblock.        *)
(*                                                                       *)
(* Bounds: NodeWords words in the node, MaxEdits calls that put a value. *)
(*************************************************************************)
EXTENDS Integers, Sequences

CONSTANTS NodeWords, MaxEdits, Values, Versions

WORD == 0..63
Word == SUBSET WORD

ASSUME ValuesAssumption == Values \subseteq Word
ASSUME BoundsAssumption == NodeWords \in Nat /\ MaxEdits \in Nat

VARIABLES
    key,      \* the padded buffer: word 0 is high, 1 is low, the rest ptr[]
    d, keys,  \* the node and its number of words
    cur,      \* index of the word under the cursor
    version, flags,  \* the superblock
    edits,    \* values put so far
    starts    \* history: the index at which each key was inserted

vars == <<key, d, keys, cur, version, flags, edits, starts>>

-----------------------------------------------------------------------------
(* BITMASK, KEY_FIELD and PTR_FIELD: the getter and SET_name.            *)

Field(offset, size) == [offset |-> offset, size |-> size]

FieldBits(f) == f.offset..(f.offset + f.size - 1)

Get(w, f) == {b \in 0..(f.size - 1) : b + f.offset \in w}

Put(w, f, v) == (w \ FieldBits(f)) \cup {b + f.offset : b \in {c \in v : c < f.size}}

ShiftLeft(v, n) == {b + n : b \in v} \cap WORD

KEY_SIZE_BITS == 16
PTR_DEV_BITS == 12
BKEY_PAD == 8

KEY_PTRS == Field(60, 3)

\* mutant: one bit lower, over the top bit of KEY_SIZE
DirtyOverSize == [HEADER_SIZE |-> Field(58, 2), KEY_CSUM |-> Field(56, 2),
    KEY_PINNED |-> Field(55, 1), KEY_DIRTY |-> Field(35, 1),
    KEY_SIZE |-> Field(20, KEY_SIZE_BITS), KEY_INODE |-> Field(0, 20)]

KeyFields == [HEADER_SIZE |-> Field(58, 2), KEY_CSUM |-> Field(56, 2),
    KEY_PINNED |-> Field(55, 1), KEY_DIRTY |-> Field(36, 1),
    KEY_SIZE |-> Field(20, KEY_SIZE_BITS), KEY_INODE |-> Field(0, 20)]

PtrFields == [PTR_DEV |-> Field(51, PTR_DEV_BITS), PTR_OFFSET |-> Field(8, 43),
    PTR_GEN |-> Field(0, 8)]

CacheFields == [CACHE_SYNC |-> Field(0, 1), CACHE_DISCARD |-> Field(1, 1),
    CACHE_REPLACEMENT |-> Field(2, 3)]

BdevFields == [BDEV_CACHE_MODE |-> Field(0, 4), BDEV_STATE |-> Field(61, 2)]

\* BCACHE_SB_VERSION_BDEV, _BDEV_WITH_OFFSET, _BDEV_WITH_FEATURES
SB_IS_BDEV == version \in {1, 4, 6}

\* The two kinds of superblock share the low bits of flags.
SbFields == IF SB_IS_BDEV THEN BdevFields ELSE CacheFields

-----------------------------------------------------------------------------
(* The remaining macros and inline functions.                            *)

\* A small number and its bits.
Number(v) == (IF 0 \in v THEN 1 ELSE 0) + (IF 1 \in v THEN 2 ELSE 0) + (IF 2 \in v THEN 4 ELSE 0)
BitsOf(n) == {b \in 0..2 : (n \div <<1, 2, 4>>[b + 1]) % 2 = 1}

KeyPtrs(high) == Number(Get(high, KEY_PTRS))

\* No argument is cut to its field: the callers pass values that fit.
KEY_high(inode, size) == {63} \cup ShiftLeft(size, 20) \cup inode
MAKE_PTR(gen, offset, dev) == ShiftLeft(dev, 51) \cup ShiftLeft(offset, 8) \cup gen

\* Words of the key: struct bkey is two without its pointers.
bkey_u64s(high) == 2 + KeyPtrs(high)

Fits(v, f) == \A b \in v : b < f.size

-----------------------------------------------------------------------------
Init ==
    /\ key = [i \in 0..(BKEY_PAD - 1) |-> IF i = 0 THEN KEY_high({}, {}) ELSE {}]
    /\ d = [i \in 0..(NodeWords - 1) |-> {}] /\ keys = 0 /\ cur = 0
    /\ version \in Versions /\ flags = {}
    /\ edits = 0 /\ starts = <<>>

Edited == edits < MaxEdits /\ edits' = edits + 1

\* *k = KEY(inode, offset, size)
MakeKey(inode, offset, size) ==
    /\ Edited
    /\ Fits(inode, KeyFields.KEY_INODE) /\ Fits(size, KeyFields.KEY_SIZE)
    /\ key' = [key EXCEPT ![0] = KEY_high(inode, size), ![1] = offset]
    /\ UNCHANGED <<d, keys, cur, version, flags, starts>>

\* SET_KEY_DIRTY(k, v) and the like
SetKeyField(f, v) ==
    /\ Edited
    /\ key' = [key EXCEPT ![0] = Put(@, KeyFields[f], v)]
    /\ UNCHANGED <<d, keys, cur, version, flags, starts>>

SET_KEY_OFFSET(v) ==
    /\ Edited
    /\ key' = [key EXCEPT ![1] = v]
    /\ UNCHANGED <<d, keys, cur, version, flags, starts>>

\* k->ptr[n] = MAKE_PTR(gen, offset, dev); SET_KEY_PTRS(k, n + 1), as long as the
\* buffer has room
AddPtr(gen, offset, dev) ==
    /\ Edited
    /\ bkey_u64s(key[0]) < BKEY_PAD
    /\ Fits(gen, PtrFields.PTR_GEN) /\ Fits(offset, PtrFields.PTR_OFFSET)
    /\ Fits(dev, PtrFields.PTR_DEV)
    /\ key' = [key EXCEPT
                 ![0] = Put(@, KEY_PTRS, BitsOf(KeyPtrs(key[0]) + 1)),
                 ![bkey_u64s(key[0])] = MAKE_PTR(gen, offset, dev)]
    /\ UNCHANGED <<d, keys, cur, version, flags, starts>>

\* SET_PTR_GEN(k, i, v) and the like
SetPtrField(i, f, v) ==
    /\ Edited
    /\ i < KeyPtrs(key[0])
    /\ key' = [key EXCEPT ![2 + i] = Put(@, PtrFields[f], v)]
    /\ UNCHANGED <<d, keys, cur, version, flags, starts>>

\* bkey_copy: as many words as the source says it has
bkey_copy(dest, to, src, from) ==
    [i \in DOMAIN dest |-> IF i \in to..(to + bkey_u64s(src[from]) - 1)
                           THEN src[from + i - to] ELSE dest[i]]

\* bkey_copy(bkey_idx(start, keys), k); keys += bkey_u64s(k)
InsertKey ==
    /\ keys + bkey_u64s(key[0]) <= NodeWords
    /\ d' = bkey_copy(d, keys, key, 0)
    /\ keys' = keys + bkey_u64s(key[0])
    /\ starts' = Append(starts, keys)
    /\ UNCHANGED <<key, cur, version, flags, edits>>

\* k = bkey_next(k)
bkey_next ==
    /\ cur < keys
    /\ cur' = cur + bkey_u64s(d[cur])
    /\ UNCHANGED <<key, d, keys, version, flags, edits, starts>>

FirstKey ==
    /\ cur # 0
    /\ cur' = 0
    /\ UNCHANGED <<key, d, keys, version, flags, edits, starts>>

\* bkey_copy(&padded.key, k)
LoadKey ==
    /\ cur < keys
    /\ key' = bkey_copy(key, 0, d, cur)
    /\ UNCHANGED <<d, keys, cur, version, flags, edits, starts>>

\* SET_KEY_DIRTY(k, v) and the like on a key of the node
SetInNode(f, v) ==
    /\ cur < keys
    /\ Edited
    /\ d' = [d EXCEPT ![cur] = Put(@, KeyFields[f], v)]
    /\ UNCHANGED <<key, keys, cur, version, flags, starts>>

\* bkey_copy_key(k, &padded.key)
bkey_copy_key ==
    /\ cur < keys
    /\ d' = [d EXCEPT ![cur] = Put(@, KeyFields.KEY_INODE, Get(key[0], KeyFields.KEY_INODE)),
                      ![cur + 1] = key[1]]
    /\ UNCHANGED <<key, keys, cur, version, flags, edits, starts>>

\* SET_BDEV_STATE(sb, v) and the like
SetSbField(f, v) ==
    /\ Edited
    /\ flags' = Put(flags, SbFields[f], v)
    /\ UNCHANGED <<key, d, keys, cur, version, starts>>

Next ==
    \/ \E inode, offset, size \in Values : MakeKey(inode, offset, size)
    \/ \E f \in DOMAIN KeyFields, v \in Values : SetKeyField(f, v)
    \/ \E v \in Values : SET_KEY_OFFSET(v)
    \/ \E gen, offset, dev \in Values : AddPtr(gen, offset, dev)
    \/ \E i \in 0..(BKEY_PAD - 3), f \in DOMAIN PtrFields, v \in Values : SetPtrField(i, f, v)
    \/ InsertKey
    \/ bkey_next
    \/ FirstKey
    \/ LoadKey
    \/ \E f \in DOMAIN KeyFields, v \in Values : SetInNode(f, v)
    \/ bkey_copy_key
    \/ \E f \in DOMAIN SbFields, v \in Values : SetSbField(f, v)

Spec == Init /\ [][Next]_vars

-----------------------------------------------------------------------------
(* The refinement: the words read back through the getters.              *)

AbstractKey(words, at) ==
    [attr |-> [f \in DOMAIN KeyFields |-> Get(words[at], KeyFields[f])],
     offset |-> words[at + 1],
     ptrs |-> [i \in 1..KeyPtrs(words[at]) |->
                 [f \in DOMAIN PtrFields |-> Get(words[at + 1 + i], PtrFields[f])]]]

CursorKey == IF cur = keys THEN Len(starts) + 1 ELSE CHOOSE n \in DOMAIN starts : starts[n] = cur

\* The field of a name, whichever word it lies in.
Fields == DOMAIN KeyFields \cup DOMAIN PtrFields \cup DOMAIN CacheFields \cup DOMAIN BdevFields
FieldOf(f) == CASE f \in DOMAIN KeyFields -> KeyFields[f]
                [] f \in DOMAIN PtrFields -> PtrFields[f]
                [] f \in DOMAIN CacheFields -> CacheFields[f]
                [] f \in DOMAIN BdevFields -> BdevFields[f]

Abstract == INSTANCE KeyList WITH
    Attributes <- DOMAIN KeyFields,
    PtrAttributes <- DOMAIN PtrFields,
    PolicySets <- {DOMAIN CacheFields, DOMAIN BdevFields},
    Width <- [f \in Fields |-> FieldOf(f).size],
    MaxPtrs <- BKEY_PAD - 2,
    key <- AbstractKey(key, 0),
    list <- [n \in DOMAIN starts |-> AbstractKey(d, starts[n])],
    pos <- CursorKey,
    policy <- [f \in DOMAIN SbFields |-> Get(flags, SbFields[f])]

\* Read back through the getters, the words behave as a list of records: setting one
\* field changes that attribute and no other, of that key and no other, appending and
\* copying keep every attribute and pointer, and bkey_next goes from a key to the next.
KeysAsRecords == Abstract!Spec
=============================================================================
