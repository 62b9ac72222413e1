----------------------------- MODULE IpaDriver -----------------------------
(*************************************************************************)
(* The IPA driver (external) as far as msm_ipa.h fixes what it does: it  *)
(* keeps one pipe per client number, finds the pipes of the modem with   *)
(* the IPA_CLIENT_IS_ macros when the modem restarts, and hands events   *)
(* to a daemon that reads /dev/ipa, each as a number in the one-byte     *)
(* msg_type of struct ipa_msg_meta.                                      *)
(*                                                                       *)
(* Bounds: MaxOpen pipes, MaxQueue unread messages.                      *)
(*************************************************************************)
EXTENDS MsmIpaNames, FiniteSets

CONSTANTS MaxOpen, MaxQueue

VARIABLES
    opened,   \* clients that have a pipe
    pipes,    \* numbers of the pipes in use
    refused,  \* the last client that was refused a pipe, or "none"
    modem,    \* "up", "stopping", "down"
    paused,   \* pipes the driver has silenced for the restart
    queue     \* unread messages: the msg_type and, as history, the event meant

vars == <<opened, pipes, refused, modem, paused, queue>>

Init ==
    /\ opened = {} /\ pipes = {} /\ refused = "none"
    /\ modem = "up" /\ paused = {}
    /\ queue = <<>>

\* The modem's clients need the modem.
CanConnect(c) == c \in ModemClients => modem = "up"

Connect(c) ==
    /\ c \notin opened /\ CanConnect(c) /\ Cardinality(opened) < MaxOpen
    /\ ipa_client_type[c] \notin pipes
    /\ opened' = opened \cup {c}
    /\ pipes' = pipes \cup {ipa_client_type[c]}
    /\ refused' = "none"
    /\ UNCHANGED <<modem, paused, queue>>

\* The pipe of that number is in use.
ConnectRefused(c) ==
    /\ c \notin opened /\ CanConnect(c)
    /\ ipa_client_type[c] \in pipes
    /\ refused' = c
    /\ UNCHANGED <<opened, pipes, modem, paused, queue>>

Disconnect(c) ==
    /\ c \in opened /\ modem # "stopping"
    /\ opened' = opened \ {c}
    /\ pipes' = pipes \ {ipa_client_type[c]}
    /\ refused' = "none"
    /\ UNCHANGED <<modem, paused, queue>>

-----------------------------------------------------------------------------
\* What the reader gets of the number of an event.
msg_type(n) == n % 256

EventNumber(e) == IF e \in DOMAIN ipa_peripheral_event THEN ipa_peripheral_event[e] ELSE Number(e)

Enqueue(e) ==
    /\ Len(queue) < MaxQueue
    /\ queue' = Append(queue, [msg_type |-> msg_type(EventNumber(e)), event |-> e])

\* Any driver posts any event.
Posts == Events \cup DOMAIN ipa_peripheral_event

Post(e) ==
    /\ Enqueue(e)
    /\ UNCHANGED <<opened, pipes, refused, modem, paused>>

ReadMessage ==
    /\ queue # <<>>
    /\ queue' = Tail(queue)
    /\ UNCHANGED <<opened, pipes, refused, modem, paused>>

-----------------------------------------------------------------------------
(* A restart of the modem: its pipes are silenced while it still runs,   *)
(* the two kinds one after the other, and closed when it has stopped.    *)

Uncompressed == IPA_CLIENT_IS_Q6_NON_ZIP_CONS \cup IPA_CLIENT_IS_Q6_NON_ZIP_PROD
Compressed == IPA_CLIENT_IS_Q6_ZIP_CONS \cup IPA_CLIENT_IS_Q6_ZIP_PROD

\* All clients there are, as the driver loops over them.
AllNumbers == 0..(IPA_CLIENT_MAX - 1)

BeforeShutdown ==
    /\ modem = "up"
    /\ Enqueue("IPA_SSR_BEFORE_SHUTDOWN")
    /\ modem' = "stopping"
    /\ paused' = {n \in pipes \cap AllNumbers : n \in Uncompressed \/ n \in Compressed}
    /\ UNCHANGED <<opened, pipes, refused>>

AfterShutdown ==
    /\ modem = "stopping"
    /\ modem' = "down" /\ paused' = {}
    /\ LET gone == {n \in pipes \cap AllNumbers : n \in IPA_CLIENT_IS_Q6_CONS \cup IPA_CLIENT_IS_Q6_PROD}
       IN  /\ pipes' = pipes \ gone
           /\ opened' = {c \in opened : ipa_client_type[c] \notin gone}
    /\ UNCHANGED <<refused, queue>>

AfterPowerup ==
    /\ modem = "down"
    /\ Enqueue("IPA_SSR_AFTER_POWERUP")
    /\ modem' = "up"
    /\ UNCHANGED <<opened, pipes, refused, paused>>

Next ==
    \/ \E c \in DOMAIN ipa_client_type : Connect(c) \/ ConnectRefused(c) \/ Disconnect(c)
    \/ \E e \in Posts : Post(e)
    \/ ReadMessage
    \/ BeforeShutdown
    \/ AfterShutdown
    \/ AfterPowerup

Spec == Init /\ [][Next]_vars

-----------------------------------------------------------------------------
\* A client and its pipe are one number.  "PROD clients are always even, and CONS
\* clients are always odd": the number of an open pipe tells its direction.  No client
\* is refused because of another one's pipe; two producers have a second name, one in
\* the enumeration and one by a #define after it, and these share their pipe.
ClientsByNumber ==
    /\ \A c \in opened : (ipa_client_type[c] % 2 = 0) <=> (c \in DOMAIN Producers)
    /\ refused # "none" =>
           \A c \in opened : ipa_client_type[c] = ipa_client_type[refused] =>
               {c, refused} \in {{"APPS_WAN_PROD", "APPS_LAN_WAN_PROD"},
                                {"A5_WLAN_AMPDU_PROD", "WLAN2_PROD"}}

\* A message reads as the event that was posted and as no other: the enums continue
\* each other without overlap, all fit the byte of msg_type and stay below
\* IPA_EVENT_MAX, the size of the reader's table.  Only the two events
\* of ipa_peripheral_event read as those they are declared to be.
ReadAsPosted ==
    \A i \in DOMAIN queue :
        /\ queue[i].msg_type < IPA_EVENT_MAX
        /\ {e \in Events : Number(e) = queue[i].msg_type} =
               {CASE queue[i].event = "IPA_PERIPHERAL_CONNECT" -> "ECM_CONNECT"
                  [] queue[i].event = "IPA_PERIPHERAL_DISCONNECT" -> "ECM_DISCONNECT"
                  [] OTHER -> queue[i].event}
=============================================================================
