-------------------------- MODULE DriverInterfaces --------------------------
(*************************************************************************)
(* The four ways in which a driver header is used, together: a process   *)
(* that calls any driver (DeviceCall), the flag words of the GPU driver  *)
(* inside such calls (KgslFlags), the IPA driver with its pipes and      *)
(* events (IpaDriver), and its messages to the modem (IpaQmi).  They     *)
(* share the headers and no state, so that an interleaving of two shows  *)
(* nothing the two alone do not: a behaviour has one partner.            *)
(*                                                                       *)
(* The names that share a number: IPA_IOC_NAT_DMA is declared as another *)
(* name of IPA_IOC_TABLE_DMA_CMD; the three spellings of SYNC_PTR are    *)
(* one command; KGSL's CFF_USER_EVENT and TIMESTAMP_EVENT_OLD are two,   *)
(* which collided when the structures reached the same size.             *)
(*                                                                       *)
(* For the commands of OwnCompat the driver needs a structure of its own *)
(* for 32-bit callers, and nothing in the request number tells it: three *)
(* of the IPA pass off_t or size_t behind a pointer, the control         *)
(* elements of the sound devices keep longs in a structure of one size,  *)
(* and their 64-bit SYNC_PTR has its padding on the wrong side.          *)
(*************************************************************************)
EXTENDS MsmIpa, MsmKgsl, Asound, MiDisp

CONSTANTS MaxDeviations, MaxItems, MaxOpen, MaxQueue

ASSUME BoundsAssumption == {MaxDeviations, MaxItems, MaxOpen, MaxQueue} \subseteq Nat

AllIoctls == IpaIoctls @@ KgslIoctls @@ SoundIoctls @@ MI_DISP_IOCTL

SameCommand == {{"IPA_IOC_NAT_DMA", "IPA_IOC_TABLE_DMA_CMD"},
                {"CFF_USER_EVENT", "TIMESTAMP_EVENT_OLD"},
                {"__PCM_SYNC_PTR", "PCM_SYNC_PTR"}, {"__PCM_SYNC_PTR", "__PCM_SYNC_PTR64"},
                {"PCM_SYNC_PTR", "__PCM_SYNC_PTR64"}}

HiddenBehindPointer == {"IPA_IOC_ALLOC_NAT_MEM", "IPA_IOC_ALLOC_NAT_TABLE", "IPA_IOC_ALLOC_IPV6CT_TABLE"}
LongsInOneSize == {"CTL_ELEM_INFO", "CTL_ELEM_ADD", "CTL_ELEM_REPLACE"}
OwnCompat == HiddenBehindPointer \cup LongsInOneSize \cup {"__PCM_SYNC_PTR64"}

VARIABLES
    partner,                                                \* whom the behaviour is about
    call, abi, cmd, request, handler, misread, overrun,     \* DeviceCall
    kind, flags, word, asked, user, narrow,                 \* KgslFlags
    opened, pipes, refused, modem, paused, queue,           \* IpaDriver
    transfer, msg, fill, next, want, wire, len, got         \* IpaQmi

Calls == INSTANCE DeviceCall WITH Table <- AllIoctls, phase <- call
Gpu == INSTANCE KgslFlags WITH phase <- flags
Ipa == INSTANCE IpaDriver
Modem == INSTANCE IpaQmi WITH phase <- transfer

callVars == <<call, abi, cmd, request, handler, misread, overrun>>
gpuVars == <<kind, flags, word, asked, user, narrow>>
ipaVars == <<opened, pipes, refused, modem, paused, queue>>
qmiVars == <<transfer, msg, fill, next, want, wire, len, got>>
vars == <<partner, callVars, gpuVars, ipaVars, qmiVars>>

Init ==
    /\ partner \in {"device", "gpu", "ipa", "modem"}
    /\ Calls!Init /\ Gpu!Init /\ Ipa!Init /\ Modem!Init
    /\ partner # "gpu" => kind = "memory"

Next ==
    \/ partner = "device" /\ Calls!Next /\ UNCHANGED <<partner, gpuVars, ipaVars, qmiVars>>
    \/ partner = "gpu" /\ Gpu!Next /\ UNCHANGED <<partner, callVars, ipaVars, qmiVars>>
    \/ partner = "ipa" /\ Ipa!Next /\ UNCHANGED <<partner, callVars, gpuVars, qmiVars>>
    \/ partner = "modem" /\ Modem!Next /\ UNCHANGED <<partner, callVars, gpuVars, ipaVars>>

Spec == Init /\ [][Next]_vars

-----------------------------------------------------------------------------
\* ioctl: the command carried out is the command asked for, with every field in place.
ServedAsAsked == Calls!ServedAsAsked

\* KGSL: every item of a flag word reads as it was asked for.
ReadsAsAsked == Gpu!ReadsAsAsked

\* IPA: a client's number tells its direction and is its own.
ClientsByNumber == Ipa!ClientsByNumber

\* IPA: a message reads as the event that was posted and as no other.
ReadAsPosted == Ipa!ReadAsPosted

\* IPA: a restart of the modem closes no pipe that was not silenced before, and leaves
\* none of the modem's: the six macros, lists kept by hand, agree with each other and
\* with the clients.  The one exception is in the header: IPA_CLIENT_IS_Q6_PROD does
\* not know IPA_CLIENT_Q6_DL_NLO_ETH_DATA_PROD.
ModemSweptOnRestart ==
    [][modem = "stopping" /\ modem' = "down" =>
           /\ pipes \ pipes' \subseteq paused
           /\ opened' \cap Ipa!ModemClients \subseteq {"Q6_DL_NLO_ETH_DATA_PROD"}]_vars

\* QMI: every message arrives as it was passed, but for those named.
ArrivesAsPassed == Modem!ArrivesAsPassed

\* QMI: every declared maximum is the length of the full message.
DeclaredLengthIsExact == Modem!DeclaredLengthIsExact
=============================================================================
