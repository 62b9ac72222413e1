----------------------------- MODULE UapiLayout -----------------------------
(*************************************************************************)
(* How the two compilers of this device lay out a C structure.  The      *)
(* device is built for arm64 with arm as second architecture             *)
(* (BoardConfig.mk), so a header under src/include is compiled twice:    *)
(* a 32-bit process and the 64-bit kernel each have their own idea of a  *)
(* structure.  A C type is a function from the ABI to its size, its      *)
(* alignment and its cells, the places <<offset, width>> of its scalars  *)
(* in declaration order.  An array shows its first and its last element, *)
(* a flexible array the first one behind the structure.                  *)
(*************************************************************************)
EXTENDS Integers, Sequences, SequencesExt

Kernel == "arm64"
ABIs == {"arm64", "arm"}

Scalar(n) == [a \in ABIs |-> [size |-> n, align |-> n, cells |-> <<<<0, n>>>>]]
U8 == Scalar(1)
U16 == Scalar(2)
U32 == Scalar(4)
U64 == Scalar(8)
Enum == U32
\* long, size_t, off_t and pointers are one machine word.
Long == [a \in ABIs |-> (IF a = "arm64" THEN U64 ELSE U32)[a]]
Ptr == Long
None == [a \in ABIs |-> [size |-> 0, align |-> 1, cells |-> <<>>]]

RoundUp(x, align) == ((x + align - 1) \div align) * align

Shift(cells, off) == [k \in DOMAIN cells |-> <<cells[k][1] + off, cells[k][2]>>]
Larger(x, y) == IF x > y THEN x ELSE y

\* One more member, at the next offset its alignment allows.
PutMember(acc, t) ==
    LET off == RoundUp(acc.size, t.align)
    IN  [size |-> off + t.size, align |-> Larger(acc.align, t.align),
         cells |-> acc.cells \o Shift(t.cells, off)]

Overlay(acc, t) ==
    [size |-> Larger(acc.size, t.size), align |-> Larger(acc.align, t.align), cells |-> acc.cells \o t.cells]

Abut(acc, t) ==
    [size |-> acc.size + t.size, align |-> 1, cells |-> acc.cells \o Shift(t.cells, acc.size)]

Whole(l) == [l EXCEPT !.size = RoundUp(l.size, l.align)]
MembersOf(fields, a) == [k \in DOMAIN fields |-> fields[k][2][a]]

\* A structure, a union, and a structure with __attribute__((packed)), from their
\* members <<name, type>>.
Struct(fields) == [a \in ABIs |-> Whole(FoldLeft(PutMember, None[a], MembersOf(fields, a)))]
Union(fields) == [a \in ABIs |-> Whole(FoldLeft(Overlay, None[a], MembersOf(fields, a)))]
Packed(fields) == [a \in ABIs |-> FoldLeft(Abut, None[a], MembersOf(fields, a))]

Arr(t, n) ==
    [a \in ABIs |-> [size |-> n * t[a].size, align |-> t[a].align,
                     cells |-> IF n = 1 THEN t[a].cells
                               ELSE t[a].cells \o Shift(t[a].cells, (n - 1) * t[a].size)]]
Flex(t) == [a \in ABIs |-> [t[a] EXCEPT !.size = 0]]
\* Bytes whose number depends on the ABI.
PadBytes(n64, n32) ==
    [a \in ABIs |-> [size |-> IF a = "arm64" THEN n64 ELSE n32, align |-> 1, cells |-> <<>>]]

\* A word and the padding declared behind it, which its writer leaves zero: read
\* as eight bytes it has the same value.
PaddedTo64(t) == [a \in ABIs |-> [size |-> 8, align |-> t[a].align, cells |-> <<<<0, 8>>>>]]

-----------------------------------------------------------------------------
\* An ioctl command: direction, type, number, the type whose size becomes part of
\* the request number, and the type of what the argument points to.  Most
\* interfaces name the structure itself (Val), msm_ipa.h a pointer to it (Ref).
Val(t) == [code |-> t, arg |-> t, byName |-> TRUE]
Ref(t) == [code |-> Ptr, arg |-> t, byName |-> FALSE]
IOC(dir, type, nr, t) ==
    [dir |-> dir, type |-> type, nr |-> nr, code |-> t.code, arg |-> t.arg, byName |-> t.byName]
IO(type, nr) == IOC({}, type, nr, Val(None))
IOR(type, nr, t) == IOC({"R"}, type, nr, t)
IOW(type, nr, t) == IOC({"W"}, type, nr, t)
IOWR(type, nr, t) == IOC({"R", "W"}, type, nr, t)

\* The request number, as the compiler of that ABI builds it.
Request(a, cmd) == [dir |-> cmd.dir, type |-> cmd.type, nr |-> cmd.nr, size |-> cmd.code[a].size]
=============================================================================
