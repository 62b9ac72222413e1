------------------------------- MODULE IpaQmi -------------------------------
(*************************************************************************)
(* One QMI message of the IPA service on its way from one driver to the  *)
(* other.  The sender fills the structure of the message, the encoder    *)
(* (external: the kernel's QMI library) writes it element by element     *)
(* into a buffer of the declared MAX_MSG_LEN and refuses what does not   *)
(* fit, the receiver reads it from a buffer of QMI_IPA_MAX_MSG_LEN bytes *)
(* and decodes it by the kind and the identifier of the message.         *)
(*                                                                       *)
(* Bound: a structure is empty or full but for MaxDeviations elements.   *)
(*************************************************************************)
EXTENDS IpaQmiTypes, Integers, FiniteSets

CONSTANT MaxDeviations

VARIABLES
    phase,   \* where the message is
    msg,     \* its name
    fill,    \* "full" or "empty": what the sender does with most elements
    next,    \* the element the encoder is at
    want,    \* what the sender put in: pairs <<element, count>>
    wire,    \* what the encoder wrote: pairs <<element, count>>
    len,     \* bytes written
    got      \* what the receiver decoded

vars == <<phase, msg, fill, next, want, wire, len, got>>

Names == DOMAIN Body
Nothing == [msg |-> "none", elements |-> {}]

\* mutant: the identifier alone
IdentifierOnly(m) == CASE m \in DOMAIN RequestId -> RequestId[m]
                       [] m \in DOMAIN ResponseId -> ResponseId[m]
                       [] m \in DOMAIN IndicationId -> IndicationId[m]

\* A message is known to its receiver by its kind and its identifier.
Key(m) == CASE m \in DOMAIN RequestId -> <<"request", RequestId[m]>>
            [] m \in DOMAIN ResponseId -> <<"response", ResponseId[m]>>
            [] m \in DOMAIN IndicationId -> <<"indication", IndicationId[m]>>

-----------------------------------------------------------------------------
\* Type (1 byte) and length (2 bytes) before the value of every element.
TLV_HEADER == 3

\* A variable-sized array is preceded by its count, in one byte when that is enough.
CountWidth(max) == IF max > 255 THEN 2 ELSE 1

\* Bytes that n values of element e take.
TlvSize(e, n) == TLV_HEADER + (IF e.array THEN CountWidth(e.max) ELSE 0) + n * e.elem

\* The count as the receiver reads it.
CountOnWire(e, n) == IF e.array THEN n % <<256, 65536>>[CountWidth(e.max)] ELSE n

Element == Body[msg][next]

\* What the sender may do with an element: leave an optional one out (no count),
\* pass a value, or pass some of the values of an array.
Counts(e) == IF e.array THEN {0, 1, e.max} ELSE {1}

\* The elements behind the encoder that break the rule of fill.
Deviations == Cardinality({i \in 1..(next - 1) :
                  IF fill = "full" THEN <<i, Body[msg][i].max>> \notin want
                  ELSE Body[msg][i].optional /\ \E p \in want : p[1] = i})

-----------------------------------------------------------------------------
Init ==
    /\ phase = "idle" /\ msg = "none" /\ fill = "full" /\ next = 1
    /\ want = {} /\ wire = {} /\ len = 0 /\ got = Nothing

\* A driver starts a message.
Begin(m, f) ==
    /\ phase = "idle"
    /\ phase' = "encoding" /\ msg' = m /\ fill' = f
    /\ UNCHANGED <<next, want, wire, len, got>>

\* The x_valid member of an optional element is not set: the encoder skips it.
SkipElement ==
    /\ phase = "encoding" /\ next <= Len(Body[msg])
    /\ Element.optional
    /\ fill = "full" => Deviations < MaxDeviations
    /\ next' = next + 1
    /\ UNCHANGED <<phase, msg, fill, want, wire, len, got>>

\* The element is passed with n values, and written if the buffer has room.
EncodeElement(n) ==
    /\ phase = "encoding" /\ next <= Len(Body[msg])
    /\ n \in Counts(Element)
    /\ (IF fill = "full" THEN n # Element.max ELSE Element.optional)
          => Deviations < MaxDeviations
    /\ want' = want \cup {<<next, n>>}
    /\ IF len + TlvSize(Element, n) <= MAX_MSG_LEN[msg]
         THEN /\ wire' = wire \cup {<<next, CountOnWire(Element, n)>>}
              /\ len' = len + TlvSize(Element, n)
              /\ next' = next + 1
              /\ phase' = phase
         ELSE /\ phase' = "refused"
              /\ UNCHANGED <<wire, len, next>>
    /\ UNCHANGED <<msg, fill, got>>

Send ==
    /\ phase = "encoding" /\ next > Len(Body[msg])
    /\ phase' = "sent"
    /\ UNCHANGED <<msg, fill, next, want, wire, len, got>>

\* The receiver's socket buffer is too small for the message.
Overrun ==
    /\ phase = "sent" /\ len > QMI_IPA_MAX_MSG_LEN
    /\ phase' = "lost"
    /\ UNCHANGED <<msg, fill, next, want, wire, len, got>>

\* The receiver decodes the message as m, one with the same kind and identifier.
Decode(m) ==
    /\ phase = "sent" /\ len <= QMI_IPA_MAX_MSG_LEN
    /\ Key(m) = Key(msg)
    /\ got' = [msg |-> m, elements |-> wire]
    /\ phase' = "decoded"
    /\ UNCHANGED <<msg, fill, next, want, wire, len>>

Done ==
    /\ phase \in {"decoded", "lost", "refused"}
    /\ phase' = "idle" /\ msg' = "none" /\ fill' = "full" /\ next' = 1
    /\ want' = {} /\ wire' = {} /\ len' = 0 /\ got' = Nothing

Next ==
    \/ \E m \in Names, f \in {"full", "empty"} : Begin(m, f)
    \/ SkipElement
    \/ \E n \in 0..QMI_IPA_MAX_FILTERS_EX2_V01 : EncodeElement(n)
    \/ Send
    \/ Overrun
    \/ \E m \in Names : Decode(m)
    \/ Done

Spec == Init /\ [][Next]_vars

-----------------------------------------------------------------------------
Passed(x) == \E p \in want : Body[msg][p[1]].name = x

\* What is decoded is what was passed: no two messages of a kind share an
\* identifier, and every count survives its width on the wire, the 256 rule
\* identifiers of FILTER_INSTALLED_NOTIF_REQ included.  The encoder finds room for
\* every legal message but an INDICATION_REGISTER_REQ that registers for more than
\* four indications, of which its MAX_MSG_LEN still counts the first four.  The receive
\* buffer, "the largest MAX_MSG_LEN we have for all the messages we expect to
\* receive", is too small only for a filter request that carries one of the lists added
\* last, the extended type 2 rules or the uplink firewall indices.
ArrivesAsPassed ==
    /\ phase = "decoded" => got = [msg |-> msg, elements |-> want]
    /\ phase = "refused" => msg = "INDICATION_REGISTER_REQ" /\ Cardinality(want) > 4
    /\ phase = "lost" =>
           /\ msg \in {"INSTALL_FILTER_RULE_REQ", "INSTALL_FILTER_RULE_EX_REQ"}
           /\ Passed("filter_spec_ex2_list") \/ Passed("ul_firewall_indices_list")

\* Every declared maximum is the length of the full message, to the byte: the
\* constants and the structures agree (MOVE_NAT_REQ declares one byte too many).
DeclaredLengthIsExact ==
    phase = "sent" /\ (\A i \in 1..Len(Body[msg]) : <<i, Body[msg][i].max>> \in want)
        => len = MAX_MSG_LEN[msg] - (IF msg = "MOVE_NAT_REQ" THEN 1 ELSE 0)
=============================================================================
