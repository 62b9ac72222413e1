----------------------------- MODULE KgslFlags -----------------------------
(*************************************************************************)
(* The flag words of msm_kgsl.h on their way between a GPU client and    *)
(* the driver.  A client builds the word of a buffer, a context or a     *)
(* command batch by or-ing the header's constants, passes it in the      *)
(* flags member of an ioctl structure, 32 or 64 bits wide, and the       *)
(* driver (external) takes it apart with the masks; of a buffer it marks *)
(* where the memory came from and gives the word back to whoever asks.   *)
(* A word is the set of its one bits.                                    *)
(*                                                                       *)
(* Bound: MaxItems items are asked for.                                  *)
(*************************************************************************)
EXTENDS MsmKgsl, FiniteSets

CONSTANT MaxItems

VARIABLES
    kind,    \* whose word it is
    phase,   \* "client", "driver", "returned"
    word,    \* the word where it is now
    asked,   \* item -> number the client asked for
    user,    \* number of the kgsl_user_mem_type, or -1 for memory the driver allocated
    narrow   \* the word went through a 32-bit member

vars == <<kind, phase, word, asked, user, narrow>>

-----------------------------------------------------------------------------
(* The constants.  An item is a mask, a shift and the numbers the header *)
(* names for it; a flag is an item of one bit.                           *)

\* The one bits of a number below 256.
Bits(n) == {b \in 0..7 : (n \div <<1, 2, 4, 8, 16, 32, 64, 128>>[b + 1]) % 2 = 1}
Flag(bit) == [mask |-> {bit}, shift |-> bit, numbers |-> {1}]
Masked(mask, shift, numbers) == [mask |-> mask, shift |-> shift, numbers |-> numbers]

KGSL_CONTEXT_SUBMIT_IB_LIST == Flag(2)
KGSL_CONTEXT_CTX_SWITCH == Flag(3)
KGSL_CONTEXT_END_OF_FRAME == Flag(8)
KGSL_CONTEXT_SYNC == Flag(10)
KGSL_CONTEXT_PWR_CONSTRAINT == Flag(11)

ContextItems ==
    [SAVE_GMEM |-> Flag(0), NO_GMEM_ALLOC |-> Flag(1),
     SUBMIT_IB_LIST |-> KGSL_CONTEXT_SUBMIT_IB_LIST, CTX_SWITCH |-> KGSL_CONTEXT_CTX_SWITCH,
     PREAMBLE |-> Flag(4), TRASH_STATE |-> Flag(5),
     PER_CONTEXT_TS |-> Flag(6), USER_GENERATED_TS |-> Flag(7),
     END_OF_FRAME |-> KGSL_CONTEXT_END_OF_FRAME, NO_FAULT_TOLERANCE |-> Flag(9),
     SYNC |-> KGSL_CONTEXT_SYNC, PWR_CONSTRAINT |-> KGSL_CONTEXT_PWR_CONSTRAINT,
     PRIORITY |-> Masked(12..15, 12, {1, 15}),
     IFH_NOP |-> Flag(16), SECURE |-> Flag(17),
     NO_SNAPSHOT |-> Flag(18), SPARSE |-> Flag(19),
     TYPE |-> Masked(20..24, 20, (1..5) \cup {30}),
     PREEMPT_STYLE |-> Masked(25..27, 25, {1, 2}),
     INVALIDATE_ON_FAULT |-> Flag(28), LPAC |-> Flag(29),
     FAULT_INFO |-> Flag(30)]

CmdbatchItems ==
    [MEMLIST |-> Flag(0), MARKER |-> Flag(1),
     SUBMIT_IB_LIST |-> KGSL_CONTEXT_SUBMIT_IB_LIST, CTX_SWITCH |-> KGSL_CONTEXT_CTX_SWITCH,
     PROFILING |-> Flag(4), PROFILING_KTIME |-> Flag(5),
     END_OF_FRAME |-> KGSL_CONTEXT_END_OF_FRAME, SYNC |-> KGSL_CONTEXT_SYNC,
     PWR_CONSTRAINT |-> KGSL_CONTEXT_PWR_CONSTRAINT, SPARSE |-> Flag(12),
     START_RECURRING |-> Flag(20), STOP_RECURRING |-> Flag(21)]

\* mutant: a mask one bit too wide, over KGSL_MEMFLAGS_USE_CPU_MAP
WideCacheMode == Masked(26..28, 26, 1..3)

CacheMode == Masked(26..27, 26, 1..3)

\* KGSL_MEMTYPE_*: 0 is OBJECTANY
MemoryType == Masked(8..15, 8, (1..20) \cup {255})

\* The alignment as an exponent: none, a page, 64k, and the largest number.
MemoryAlign == Masked(16..23, 16, {12, 16, 255})

\* enum kgsl_user_mem_type: PMEM, ASHMEM, ADDR, ION, which DMABUF is another name of
kgsl_user_mem_type == 0..3
USERMEM == Masked(5..7, 5, {})

\* Zero stands for memory that is not the user's, so the type is counted from one.
KGSL_USERMEM_FLAG(x) == {b + USERMEM.shift : b \in Bits(x + 1)}

-----------------------------------------------------------------------------
MemoryItems ==
    [SECURE |-> Flag(3), GPUREADONLY |-> Flag(24), GPUWRITEONLY |-> Flag(25),
     CACHEMODE |-> CacheMode, USE_CPU_MAP |-> Flag(28), SPARSE_PHYS |-> Flag(29),
     SPARSE_VIRT |-> Flag(30), IOCOHERENT |-> Flag(31), FORCE_32BIT |-> Flag(32),
     GUARD_PAGE |-> Flag(33), VBO |-> Flag(34), MEMTYPE |-> MemoryType, MEMALIGN |-> MemoryAlign]

Items == [memory |-> MemoryItems, context |-> ContextItems, cmdbatch |-> CmdbatchItems][kind]

\* Bits of a flags member, by its type; its structure is in the comment.
Width(t) == 8 * t[Kernel].size

\* Widths of the members that carry the word to the driver.
Down == [memory |-> {Width(U32), Width(U64)},    \* kgsl_gpumem_alloc, _alloc_id; kgsl_gpuobj_alloc
         context |-> {Width(U32)},               \* kgsl_drawctxt_create
         cmdbatch |-> {Width(U32), Width(U64)}   \* kgsl_submit_commands; kgsl_gpu_command
        ][kind]
\* ... of those that carry it along with user memory, kgsl_map_user_mem and
\* kgsl_gpuobj_import, and of those that bring it back, kgsl_gpumem_get_info and
\* kgsl_gpuobj_info.
Import == {Width(U32), Width(U64)}
Up == {Width(U32), Width(U64)}

\* An item taken out of a word, as the bits of its number.
Read(w, item) == {b - item.shift : b \in w \cap item.mask}

-----------------------------------------------------------------------------
Init ==
    /\ kind \in {"memory", "context", "cmdbatch"} /\ phase = "client"
    /\ word = {} /\ asked = << >> /\ user = -1 /\ narrow = FALSE

\* flags |= number << shift
Ask(name, number) ==
    /\ phase = "client" /\ name \notin DOMAIN asked /\ Cardinality(DOMAIN asked) < MaxItems
    /\ word' = word \cup {b + Items[name].shift : b \in Bits(number)}
    /\ asked' = [n \in DOMAIN asked \cup {name} |-> IF n = name THEN number ELSE asked[n]]
    /\ UNCHANGED <<kind, phase, user, narrow>>

\* The word in a member of that many bits.
Pass(width) ==
    /\ word' = word \cap (0..(width - 1))
    /\ narrow' = (narrow \/ width = 32)

\* The ioctl that creates the buffer or the context, or submits the batch.
Submit(width) ==
    /\ phase = "client"
    /\ Pass(width) /\ phase' = "driver"
    /\ UNCHANGED <<kind, asked, user>>

\* The client's own memory: the driver adds what it is.
MapUserMemory(width, type) ==
    /\ phase = "client" /\ kind = "memory"
    /\ word' = (word \cap (0..(width - 1))) \cup KGSL_USERMEM_FLAG(type)
    /\ narrow' = (narrow \/ width = 32)
    /\ phase' = "driver" /\ user' = type
    /\ UNCHANGED <<kind, asked>>

\* Somebody asks for the buffer's flags.
GetInfo(width) ==
    /\ phase = "driver" /\ kind = "memory"
    /\ Pass(width) /\ phase' = "returned"
    /\ UNCHANGED <<kind, asked, user>>

Finish ==
    /\ phase = "returned" \/ (phase = "driver" /\ kind # "memory")
    /\ phase' = "client" /\ kind' \in {"memory", "context", "cmdbatch"}
    /\ word' = {} /\ asked' = << >> /\ user' = -1 /\ narrow' = FALSE

Next ==
    \/ \E name \in DOMAIN Items : \E number \in Items[name].numbers : Ask(name, number)
    \/ \E width \in Down : Submit(width)
    \/ \E width \in Import, type \in kgsl_user_mem_type : MapUserMemory(width, type)
    \/ \E width \in Up : GetInfo(width)
    \/ Finish

Spec == Init /\ [][Next]_vars

-----------------------------------------------------------------------------
\* Wherever the word is, every item reads as the number that was asked for, and as
\* zero when none was: no constant reaches into another item's bits, with one
\* exception, that the flags above bit 31 are gone once a 32-bit member carried them.
\* The driver's own mark tells user memory from memory it allocated, and of which type
\* it is, after any way there and back.
ReadsAsAsked ==
    /\ \A name \in DOMAIN Items :
           LET number == IF name \in DOMAIN asked THEN asked[name] ELSE 0
           IN  \/ Read(word, Items[name]) = Bits(number)
               \/ narrow /\ Items[name].mask \cap (0..31) = {} /\ Read(word, Items[name]) = {}
    /\ kind = "memory" => Read(word, USERMEM) = IF user = -1 THEN {} ELSE Bits(user + 1)
=============================================================================
