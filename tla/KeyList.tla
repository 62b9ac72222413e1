------------------------------ MODULE KeyList ------------------------------
(*************************************************************************)
(* What a bcache btree node promises: a list of keys, each a record of   *)
(* attributes and a short list of pointers, one key being built or       *)
(* edited outside the list, a cursor, and the policy of a superblock.    *)
(* No bits, no words.  Bcache.tla shows that the bit fields and the      *)
(* variable-length keys of the header implement it.                      *)
(*************************************************************************)
EXTENDS Naturals, Sequences

CONSTANTS
    Attributes,     \* attributes of a key, the number of pointers aside
    PtrAttributes,  \* attributes of a pointer
    PolicySets,     \* attributes of a superblock, for each kind of it
    Width,          \* attribute -> bits it has
    MaxPtrs,        \* pointers a key may have
    Values          \* what may be put: sets of bit positions

VARIABLES key, list, pos, policy

vars == <<key, list, pos, policy>>

\* A value put in an attribute loses the bits that do not fit.
Fit(a, v) == {b \in v : b < Width[a]}

Make(inode, offset, size) ==
    [attr |-> [a \in Attributes |-> CASE a = "KEY_INODE" -> inode
                                      [] a = "KEY_SIZE" -> size
                                      [] OTHER -> {}],
     offset |-> offset,
     ptrs |-> <<>>]

Init ==
    /\ key = Make({}, {}, {})
    /\ list = <<>>
    /\ pos = 1
    /\ \E P \in PolicySets : policy = [p \in P |-> {}]

Pointer(gen, offset, dev) ==
    [p \in PtrAttributes |-> CASE p = "PTR_GEN" -> gen
                               [] p = "PTR_OFFSET" -> offset
                               [] p = "PTR_DEV" -> dev]

\* The key is made anew, or gets an attribute, a pointer, an attribute of a pointer.
Build ==
    /\ UNCHANGED <<list, pos, policy>>
    /\ key' \in {Make(i, o, s) : i, o, s \in Values}

Edit ==
    /\ UNCHANGED <<list, pos, policy>>
    /\ \E a \in Attributes, v \in Values : key' = [key EXCEPT !.attr[a] = Fit(a, v)]

EditOffset ==
    /\ UNCHANGED <<list, pos, policy>>
    /\ \E v \in Values : key' = [key EXCEPT !.offset = v]

AddPointer ==
    /\ UNCHANGED <<list, pos, policy>>
    /\ Len(key.ptrs) < MaxPtrs
    /\ LET pointers == {Pointer(g, o, d) : g, o, d \in Values}
       IN  key' \in {[key EXCEPT !.ptrs = Append(@, p)] : p \in pointers}

EditPointer ==
    /\ UNCHANGED <<list, pos, policy>>
    /\ \E i \in DOMAIN key.ptrs, p \in PtrAttributes, v \in Values :
          key' = [key EXCEPT !.ptrs[i][p] = Fit(p, v)]

\* The key goes to the end of the list.
Insert ==
    /\ list' = Append(list, key)
    /\ UNCHANGED <<key, pos, policy>>

Advance ==
    /\ pos <= Len(list)
    /\ pos' = pos + 1
    /\ UNCHANGED <<key, list, policy>>

Rewind == pos' = 1 /\ UNCHANGED <<key, list, policy>>

Fetch ==
    /\ pos <= Len(list)
    /\ key' = list[pos]
    /\ UNCHANGED <<list, pos, policy>>

EditInPlace ==
    /\ UNCHANGED <<key, pos, policy>>
    /\ pos <= Len(list)
    /\ \E a \in Attributes, v \in Values : list' = [list EXCEPT ![pos].attr[a] = Fit(a, v)]

\* The position of the key in the list, its inode and offset, is replaced.
MoveTo ==
    /\ UNCHANGED <<key, pos, policy>>
    /\ pos <= Len(list)
    /\ list' = [list EXCEPT ![pos].attr["KEY_INODE"] = key.attr["KEY_INODE"],
                            ![pos].offset = key.offset]

SetPolicy ==
    /\ UNCHANGED <<key, list, pos>>
    /\ \E p \in DOMAIN policy, v \in Values : policy' = [policy EXCEPT ![p] = Fit(p, v)]

Next == Build \/ Edit \/ EditOffset \/ AddPointer \/ EditPointer \/ Insert \/ Advance \/ Rewind
          \/ Fetch \/ EditInPlace \/ MoveTo \/ SetPolicy

Spec == Init /\ [][Next]_vars
=============================================================================
