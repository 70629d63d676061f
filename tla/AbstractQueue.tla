---------------------------- MODULE AbstractQueue ----------------------------
(***************************************************************************)
(* What the SQS executor promises its source queue, with no slots, polls,  *)
(* visibility timeouts or caches: an at-least-once consumer.  A message is *)
(* removed from the source queue only when it is safe to forget it (its    *)
(* payload was decoded and every event it carries reached S3, it was       *)
(* copied to the dead-letter queue, or its payload no longer exists); only *)
(* a message's own events are published; and every message is eventually  *)
(* removed.                                                                *)
(***************************************************************************)
EXTENDS FiniteSets, Sequences, SequencesExt

CONSTANTS
    Msgs,      \* messages of the source queue
    Ids,       \* event identities
    Content,   \* Content[m]: the lines of m's payload
    Body       \* Body[m]: "ok", "missing" or "malformed"

VARIABLES
    done,        \* messages removed from the source queue
    dlq,         \* messages copied to the dead-letter queue
    published    \* identities that reached S3

avars == <<done, dlq, published>>

\* The events m carries.
Events(m) == Range(Content[m]) \cap Ids

\* Forgetting m loses nothing.
SafeToRemove(m) ==
    \/ m \in dlq
    \/ Body[m] = "missing"
    \/ Body[m] = "ok" /\ Events(m) \subseteq published

Init ==
    /\ done = {}
    /\ dlq = {}
    /\ published = {}

\* Some of the events of a message reach S3.  A copy being processed may
\* finish after another copy removed the message (at-least-once), so the
\* message need not still be in the queue.
Publish(m) ==
    /\ published \subseteq published'
    /\ published' \subseteq published \cup Events(m)
    /\ UNCHANGED <<done, dlq>>

\* A message is copied to the dead-letter queue (again, possibly after
\* another copy removed it).
DeadLetter(m) ==
    /\ dlq' = dlq \cup {m}
    /\ UNCHANGED <<done, published>>

\* A message is removed from the source queue.
Consume(m) ==
    /\ m \notin done
    /\ SafeToRemove(m)
    /\ done' = done \cup {m}
    /\ UNCHANGED <<dlq, published>>

Next == \E m \in Msgs : Publish(m) \/ DeadLetter(m) \/ Consume(m)

SafetySpec == Init /\ [][Next]_avars

\* A message that may be removed is removed.
Spec == SafetySpec /\ \A m \in Msgs : WF_avars(Consume(m))
=============================================================================
