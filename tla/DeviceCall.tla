----------------------------- MODULE DeviceCall -----------------------------
(*************************************************************************)
(* A process calls a driver through an ioctl header.  Process and kernel *)
(* share nothing but the header, each compiled for its own ABI: the      *)
(* process passes a request number and memory, the kernel compares the   *)
(* number with its own, copies as many bytes as its own structure has,   *)
(* reads the fields where its own layout has them, and writes its answer *)
(* back the same way.  Driver and system call are external; everything   *)
(* they know, the Table, is the header's.                                *)
(*************************************************************************)
EXTENDS UapiLayout, FiniteSets

CONSTANTS
    Table,        \* command name -> command, the ioctls of one header
    SameCommand,  \* pairs of names known to share one number
    OwnCompat     \* commands for which the driver must know a 32-bit structure

Commands == DOMAIN Table

VARIABLES
    phase,     \* "user", "trap", "driver", "back"
    abi,       \* of the calling process
    cmd,       \* the command the process means
    request,   \* the request number in the register
    handler,   \* the command the kernel takes it for, or "none"
    misread,   \* fields (cells) the kernel saw elsewhere than the process put them
    overrun    \* bytes the kernel touched behind the process's structure

vars == <<phase, abi, cmd, request, handler, misread, overrun>>

Rest ==
    [phase |-> "user", abi |-> Kernel, cmd |-> "none", request |-> [dir |-> {}, type |-> 0, nr |-> 0, size |-> 0],
     handler |-> "none", misread |-> {}, overrun |-> 0]

Init ==
    /\ phase = Rest.phase /\ abi = Rest.abi /\ cmd = Rest.cmd /\ request = Rest.request
    /\ handler = Rest.handler /\ misread = Rest.misread /\ overrun = Rest.overrun

-----------------------------------------------------------------------------
Call(a, c) ==
    /\ phase = "user"
    /\ phase' = "trap" /\ abi' = a /\ cmd' = c /\ request' = Request(a, Table[c])
    /\ UNCHANGED <<handler, misread, overrun>>

Native(r) == {c \in Commands : Request(Kernel, Table[c]) = r}

\* Where the number holds the size of a pointer, a driver with a 32-bit entry
\* compares it with the number of a 32-bit pointer.
Translated(r) ==
    {c \in Commands : ~Table[c].byName /\ Request("arm", Table[c]) = r}

Matches == IF Native(request) # {} THEN Native(request)
           ELSE IF abi # Kernel THEN Translated(request) ELSE {}

\* The driver's switch: any case label that equals the number.
Enter ==
    /\ phase = "trap" /\ Matches # {}
    /\ \E c \in Matches : handler' = c
    /\ phase' = "driver"
    /\ UNCHANGED <<abi, cmd, request, misread, overrun>>

\* No label matches: ENOTTY, before any byte is copied.
Refuse ==
    /\ phase = "trap" /\ Matches = {}
    /\ phase' = "back"
    /\ UNCHANGED <<abi, cmd, request, handler, misread, overrun>>

Theirs == Table[cmd].arg[abi]
Ours == Table[handler].arg[Kernel]

\* The cells the two sides put at different places.
Misplaced(theirs, ours) ==
    {k \in DOMAIN ours.cells : k \notin DOMAIN theirs.cells \/ theirs.cells[k] # ours.cells[k]}

\* Copy in, handle, copy out.
Serve ==
    /\ phase = "driver"
    /\ misread' = Misplaced(Theirs, Ours)
    /\ overrun' = Larger(Ours.size - Theirs.size, 0)
    /\ phase' = "back"
    /\ UNCHANGED <<abi, cmd, request, handler>>

Return ==
    /\ phase = "back"
    /\ phase' = Rest.phase /\ abi' = Rest.abi /\ cmd' = Rest.cmd /\ request' = Rest.request
    /\ handler' = Rest.handler /\ misread' = Rest.misread /\ overrun' = Rest.overrun

Next ==
    \/ \E a \in ABIs, c \in Commands : Call(a, c)
    \/ Enter
    \/ Refuse
    \/ Serve
    \/ Return

Spec == Init /\ [][Next]_vars

-----------------------------------------------------------------------------
\* What the kernel carries out is what the process asked for, whichever compiler
\* made the number: no two commands of the header share one, no size reaches into
\* the direction bits of the number, no field is silently read at another place than
\* it was written, and no byte behind the argument is touched.  Where the two layouts
\* differ, the numbers differ too and the call is refused.
ServedAsAsked ==
    /\ request.size < 2 ^ 14
    /\ handler \in {"none", cmd} \/ {handler, cmd} \in SameCommand
    /\ handler = cmd /\ cmd \notin OwnCompat => misread = {} /\ overrun = 0
=============================================================================
