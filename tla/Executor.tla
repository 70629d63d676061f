------------------------------ MODULE Executor ------------------------------
(***************************************************************************)
(* The generic SQS executor of sqs-executor/src/lib.rs (process_loop,      *)
(* _process_loop, process_message) driving the Sysmon subgraph generator   *)
(* (sysmon-subgraph-generator/src/generator.rs) as its event handler.      *)
(*                                                                         *)
(* Each executor process x in Execs owns the slots <<x, 1>> .. <<x, N>>   *)
(* (the make_ten copies of every stage); the processes share the source    *)
(* queue, the dead-letter queue, the cache and S3, as replicas of one      *)
(* service do.  A poll hands up to MaxBatch messages to the process's      *)
(* slots (the zip of _process_loop) and the slots then run process_message *)
(* concurrently until the join_all barrier: every await of process_message *)
(* is a step of its own.  A panic (the expect on serialize/emit) unwinds   *)
(* the whole inner loop of that process, dropping every sibling future     *)
(* wherever it was; the outer loop then restarts it.  The source queue keeps each message visible,    *)
(* in flight (received, visibility timeout running) or deleted.            *)
(*                                                                         *)
(* Data is abstracted to what the properties tell apart: a decoded batch   *)
(* is a sequence of event lines, each an identity (a Sysmon event whose    *)
(* subgraph can be derived), a line that fails to parse, a line whose      *)
(* subgraph derivation fails, or a line the EventID filter drops; a        *)
(* published subgraph is the set of identities merged into it.             *)
(***************************************************************************)
EXTENDS Naturals, FiniteSets, Sequences, SequencesExt

CONSTANTS
    Msgs,          \* SQS messages of the source queue
    Execs,         \* executor processes consuming the source queue
    N,             \* execution slots per process (10 in the code)
    MaxBatch,      \* most messages one receive returns
    Ids,           \* Sysmon events that derive a subgraph (their identities)
    BadXml,        \* a line Event::from_str rejects
    BadGraph,      \* an event Graph::try_from rejects
    Ignored,       \* a line without EventID 1, 3 or 11
    Content,       \* Content[m]: the lines of the object m points at
    Body,          \* Body[m]: "ok", "missing" (object gone) or "malformed"
    NoMsg,         \* what an idle slot holds
    MaxTransient,  \* bound on Transient faults (IO errors, failed deletes)
    MaxPanics      \* bound on panics of the inner loop

\* Slot <<x, i>> is the i-th make_ten copy of process x.
Slots == Execs \X (1..N)
SlotsOf(x) == {s \in Slots : s[1] = x}
Line == Ids \cup {BadXml, BadGraph, Ignored}

ASSUME
    /\ N \in Nat \ {0}
    /\ MaxBatch \in Nat \ {0}
    /\ Content \in [Msgs -> Seq(Line)]
    /\ Body \in [Msgs -> {"ok", "missing", "malformed"}]
    /\ NoMsg \notin Msgs
    /\ MaxTransient \in Nat /\ MaxPanics \in Nat

VARIABLES
    queue,       \* queue[m]: "visible", "inflight" or "deleted"
    dlq,         \* messages copied to the dead-letter queue
    published,   \* identities contained in some subgraph emitted to S3
    cache,       \* identities stored in the dedup cache
    pc,          \* pc[s]: the await slot s is at
    held,        \* held[s]: the message slot s processes
    graph,       \* graph[s]: identities merged into the handler's output
    completed,   \* completed[s]: completed.identities not yet drained
    onDone,      \* onDone[s]: "ack" (Ok) or "deadletter" (Persistent partial)
    detached,    \* deletes issued without await (Ok(None) path)
    transients,  \* Transient faults so far
    panics       \* panics so far

vars == <<queue, dlq, published, cache, pc, held, graph, completed, onDone,
          detached, transients, panics>>

PC == {"idle", "retrieve", "handle", "emit", "store", "dlq_send", "dlq_delete"}

TypeOK ==
    /\ queue \in [Msgs -> {"visible", "inflight", "deleted"}]
    /\ dlq \subseteq Msgs
    /\ published \subseteq Ids
    /\ cache \subseteq Ids
    /\ pc \in [Slots -> PC]
    /\ held \in [Slots -> Msgs \cup {NoMsg}]
    /\ graph \in [Slots -> SUBSET Ids]
    /\ completed \in [Slots -> SUBSET Ids]
    /\ onDone \in [Slots -> {"ack", "deadletter"}]
    /\ detached \subseteq Msgs
    /\ transients \in 0..MaxTransient
    /\ panics \in 0..MaxPanics

Init ==
    /\ queue = [m \in Msgs |-> "visible"]
    /\ dlq = {}
    /\ published = {}
    /\ cache = {}
    /\ pc = [s \in Slots |-> "idle"]
    /\ held = [s \in Slots |-> NoMsg]
    /\ graph = [s \in Slots |-> {}]
    /\ completed = [s \in Slots |-> {}]
    /\ onDone = [s \in Slots |-> "ack"]
    /\ detached = {}
    /\ transients = 0
    /\ panics = 0

-----------------------------------------------------------------------------
(* The handler (SysmonSubgraphGenerator)                                   *)

\* The split/filter of handle_event: keep the lines with EventID 1, 3, 11.
SysmonLines(lines) == SelectSeq(lines, LAMBDA l : l # Ignored)

\* One iteration of process_events over the accumulator [ids, failed]:
\* a parse failure or a derivation failure becomes last_failure and the
\* loop continues; a cache hit is skipped; otherwise the event is pushed
\* to identities and its subgraph merged.
ProcessEvent(hits, acc, e) ==
    IF e = BadXml THEN [acc EXCEPT !.failed = TRUE]
    ELSE IF e \in hits THEN acc
    ELSE IF e = BadGraph THEN [acc EXCEPT !.failed = TRUE]
    ELSE [acc EXCEPT !.ids = @ \cup {e}]

\* process_events: a left fold of ProcessEvent over the batch.
ProcessEvents(hits, lines) ==
    FoldLeft(LAMBDA acc, e : ProcessEvent(hits, acc, e),
             [ids |-> {}, failed |-> FALSE], lines)

\* Mutant: a cache error read as a hit, so the event is skipped.
CacheHitsErrorAsHit(errs) == cache \cup errs

\* cache.get: Hit for a stored identity unless the call errs; an error is
\* logged and the event treated as a miss.
CacheHits(errs) == cache \ errs

-----------------------------------------------------------------------------
(* The executor loop                                                       *)

AllIdle(x) == \A s \in SlotsOf(x) : pc[s] = "idle"

\* process_message returns: its locals (the CompletedEvents, the output)
\* are dropped.
Release(s) ==
    /\ pc' = [pc EXCEPT ![s] = "idle"]
    /\ held' = [held EXCEPT ![s] = NoMsg]
    /\ graph' = [graph EXCEPT ![s] = {}]
    /\ completed' = [completed EXCEPT ![s] = {}]
    /\ onDone' = [onDone EXCEPT ![s] = "ack"]

\* Mutant: the batch is paired with slots without the zip's truncation,
\* so a batch longer than N addresses slots that do not exist.
PollUnzipped(x) ==
    /\ AllIdle(x)
    /\ \E batch \in SUBSET {m \in Msgs : queue[m] = "visible"} :
        /\ batch # {}
        /\ Cardinality(batch) <= MaxBatch
        /\ LET order == SetToSeq(batch)
           IN /\ queue' = [m \in Msgs |-> IF m \in batch THEN "inflight"
                                                        ELSE queue[m]]
              /\ held' = [s \in Slots \cup ({x} \X DOMAIN order) |->
                             IF s[1] # x THEN held[s]
                             ELSE IF s[2] \in DOMAIN order THEN order[s[2]]
                             ELSE NoMsg]
              /\ pc' = [s \in Slots \cup ({x} \X DOMAIN order) |->
                             IF s[1] # x THEN pc[s]
                             ELSE IF s[2] \in DOMAIN order THEN "retrieve"
                             ELSE "idle"]
    /\ UNCHANGED <<dlq, published, cache, graph, completed, onDone,
                   detached, transients, panics>>

\* _process_loop: receive a batch once every slot is back from join_all,
\* zip it with the slots (messages beyond N are left in flight) and start
\* process_message on each pair.
Poll(x) ==
    /\ AllIdle(x)
    /\ \E batch \in SUBSET {m \in Msgs : queue[m] = "visible"} :
        /\ batch # {}
        /\ Cardinality(batch) <= MaxBatch
        /\ LET order == SetToSeq(batch)
               taken == [s \in 1..Min({N, Len(order)}) |-> order[s]]
           IN /\ queue' = [m \in Msgs |-> IF m \in batch THEN "inflight"
                                                        ELSE queue[m]]
              /\ held' = [s \in Slots |->
                             IF s[1] # x THEN held[s]
                             ELSE IF s[2] \in DOMAIN taken THEN taken[s[2]]
                             ELSE NoMsg]
              /\ pc' = [s \in Slots |->
                             IF s[1] # x THEN pc[s]
                             ELSE IF s[2] \in DOMAIN taken THEN "retrieve"
                             ELSE "idle"]
    /\ UNCHANGED <<dlq, published, cache, graph, completed, onDone,
                   detached, transients, panics>>

\* An empty receive: the loop continues.
EmptyPoll(x) ==
    /\ AllIdle(x)
    /\ \A m \in Msgs : queue[m] # "visible"
    /\ UNCHANGED vars

\* Mutant: a Persistent retrieve error handled like Ok(None), the message
\* deleted without a dead-letter copy.
RetrievePersistentDropped(s) ==
    /\ pc[s] = "retrieve"
    /\ LET m == held[s] IN
       \/ /\ Body[m] \in {"missing", "malformed"}
          /\ detached' = detached \cup {m}
          /\ Release(s)
          /\ UNCHANGED transients
       \/ /\ Body[m] = "ok"
          /\ pc' = [pc EXCEPT ![s] = "handle"]
          /\ UNCHANGED <<held, graph, completed, onDone, detached, transients>>
       \/ /\ transients < MaxTransient
          /\ transients' = transients + 1
          /\ Release(s)
          /\ UNCHANGED detached
    /\ UNCHANGED <<queue, dlq, published, cache, panics>>

\* retrieve_event and the match on its result.
Retrieve(s) ==
    /\ pc[s] = "retrieve"
    /\ LET m == held[s] IN
       \/ /\ Body[m] = "missing"          \* Ok(None): delete, not awaited
          /\ detached' = detached \cup {m}
          /\ Release(s)
          /\ UNCHANGED transients
       \/ /\ Body[m] = "malformed"        \* Persistent: move to dead letter
          /\ pc' = [pc EXCEPT ![s] = "dlq_send"]
          /\ UNCHANGED <<held, graph, completed, onDone, detached, transients>>
       \/ /\ Body[m] = "ok"               \* Ok(Some(events))
          /\ pc' = [pc EXCEPT ![s] = "handle"]
          /\ UNCHANGED <<held, graph, completed, onDone, detached, transients>>
       \/ /\ transients < MaxTransient    \* Transient: leave the message
          /\ transients' = transients + 1
          /\ Release(s)
          /\ UNCHANGED detached
    /\ UNCHANGED <<queue, dlq, published, cache, panics>>

\* handle_event with a fresh CompletedEvents: Ok(graph) or, with a
\* last_failure (always Persistent for Sysmon), Err(Ok((partial, e))).
Handle(s) ==
    /\ pc[s] = "handle"
    /\ \E errs \in SUBSET Ids :
        LET r == ProcessEvents(CacheHits(errs), SysmonLines(Content[held[s]]))
        IN /\ graph' = [graph EXCEPT ![s] = r.ids]
           /\ completed' = [completed EXCEPT ![s] = r.ids]
           /\ onDone' = [onDone EXCEPT ![s] = IF r.failed THEN "deadletter"
                                                          ELSE "ack"]
    /\ pc' = [pc EXCEPT ![s] = "emit"]
    /\ UNCHANGED <<queue, dlq, published, cache, held, detached, transients,
                   panics>>

\* Err(Err(e)) of a generic handler: Persistent goes to the dead letter
\* queue, Transient leaves the message for redelivery.
HandleFails(s) ==
    /\ pc[s] = "handle"
    /\ \/ /\ pc' = [pc EXCEPT ![s] = "dlq_send"]
          /\ UNCHANGED <<held, transients>>
       \/ /\ transients < MaxTransient
          /\ transients' = transients + 1
          /\ Release(s)
    /\ UNCHANGED <<queue, dlq, published, cache, graph, completed, onDone,
                   detached, panics>>

\* serialize_completed_events and emit_event, both succeeding.
Emit(s) ==
    /\ pc[s] = "emit"
    /\ published' = published \cup graph[s]
    /\ pc' = [pc EXCEPT ![s] = "store"]
    /\ UNCHANGED <<queue, dlq, cache, held, graph, completed, onDone,
                   detached, transients, panics>>

\* serialize or emit fails: the expect panics, the panic unwinds join_all
\* and drops every slot's future; the outer loop restarts the inner loop.
Panic(s) ==
    /\ pc[s] = "emit"
    /\ panics < MaxPanics
    /\ panics' = panics + 1
    /\ LET dropped == SlotsOf(s[1]) IN
       /\ pc' = [t \in Slots |-> IF t \in dropped THEN "idle" ELSE pc[t]]
       /\ held' = [t \in Slots |-> IF t \in dropped THEN NoMsg ELSE held[t]]
       /\ graph' = [t \in Slots |-> IF t \in dropped THEN {} ELSE graph[t]]
       /\ completed' = [t \in Slots |-> IF t \in dropped THEN {} ELSE completed[t]]
       /\ onDone' = [t \in Slots |-> IF t \in dropped THEN "ack" ELSE onDone[t]]
    /\ UNCHANGED <<queue, dlq, published, cache, detached, transients>>

\* Mutant: the identities are stored while the subgraph is still being
\* emitted (the store loop moved ahead of emit_event).
StoreIdentityBeforeEmit(s) ==
    /\ pc[s] \in {"emit", "store"}
    /\ \E i \in completed[s] :
        /\ completed' = [completed EXCEPT ![s] = @ \ {i}]
        /\ \/ cache' = cache \cup {i}
           \/ UNCHANGED cache
    /\ UNCHANGED <<queue, dlq, published, pc, held, graph, onDone, detached,
                   transients, panics>>

\* One iteration of completed.identities.drain(..): cache.store, whose
\* error is only logged.
StoreIdentity(s) ==
    /\ pc[s] = "store"
    /\ \E i \in completed[s] :
        /\ completed' = [completed EXCEPT ![s] = @ \ {i}]
        /\ \/ cache' = cache \cup {i}
           \/ UNCHANGED cache
    /\ UNCHANGED <<queue, dlq, published, pc, held, graph, onDone, detached,
                   transients, panics>>

\* Mutant: the delete_message future of the Ok path is dropped unawaited.
AckNotAwaited(s) ==
    /\ pc[s] = "store"
    /\ completed[s] = {}
    /\ onDone[s] = "ack"
    /\ Release(s)
    /\ UNCHANGED <<queue, dlq, published, cache, detached, transients, panics>>

\* Ok path after the drain: delete_message, awaited.
Ack(s) ==
    /\ pc[s] = "store"
    /\ completed[s] = {}
    /\ onDone[s] = "ack"
    /\ queue' = [queue EXCEPT ![held[s]] = "deleted"]
    /\ Release(s)
    /\ UNCHANGED <<dlq, published, cache, detached, transients, panics>>

\* move_to_dead_letter, first step: send the body to the dead letter queue.
DeadLetterSend(s) ==
    /\ \/ pc[s] = "dlq_send"
       \/ pc[s] = "store" /\ completed[s] = {} /\ onDone[s] = "deadletter"
    /\ dlq' = dlq \cup {held[s]}
    /\ pc' = [pc EXCEPT ![s] = "dlq_delete"]
    /\ UNCHANGED <<queue, published, cache, held, graph, completed, onDone,
                   detached, transients, panics>>

\* move_to_dead_letter, second step: delete the source message; a delete
\* that fails leaves a copy in both queues.
DeadLetterDelete(s) ==
    /\ pc[s] = "dlq_delete"
    /\ \/ /\ queue' = [queue EXCEPT ![held[s]] = "deleted"]
          /\ UNCHANGED transients
       \/ /\ transients < MaxTransient
          /\ transients' = transients + 1
          /\ UNCHANGED queue
    /\ Release(s)
    /\ UNCHANGED <<dlq, published, cache, detached, panics>>

-----------------------------------------------------------------------------
(* The environment: SQS and the detached delete                            *)

\* The visibility timeout of an in-flight message runs out.
VisibilityTimeout(m) ==
    /\ queue[m] = "inflight"
    /\ queue' = [queue EXCEPT ![m] = "visible"]
    /\ UNCHANGED <<dlq, published, cache, pc, held, graph, completed, onDone,
                   detached, transients, panics>>

\* The delete issued on the Ok(None) path completes on its own.
DetachedDelete(m) ==
    /\ m \in detached
    /\ queue' = [queue EXCEPT ![m] = "deleted"]
    /\ detached' = detached \ {m}
    /\ UNCHANGED <<dlq, published, cache, pc, held, graph, completed, onDone,
                   transients, panics>>

SlotStep(s) ==
    \/ Retrieve(s) \/ Handle(s) \/ HandleFails(s) \/ Emit(s)
    \/ StoreIdentity(s) \/ Ack(s) \/ DeadLetterSend(s) \/ DeadLetterDelete(s)

Next ==
    \/ \E x \in Execs : Poll(x) \/ EmptyPoll(x)
    \/ \E s \in Slots : SlotStep(s) \/ Panic(s)
    \/ \E m \in Msgs : VisibilityTimeout(m) \/ DetachedDelete(m)

\* Every slot future is polled to completion by the runtime, SQS expires
\* visibility timeouts and the spawned delete runs; faults (Panic and the
\* Transient branches) are bounded by MaxTransient and MaxPanics.
Fairness ==
    /\ \A x \in Execs : WF_vars(Poll(x))
    /\ \A s \in Slots : WF_vars(SlotStep(s))
    /\ \A m \in Msgs : WF_vars(VisibilityTimeout(m)) /\ WF_vars(DetachedDelete(m))

Spec == Init /\ [][Next]_vars /\ Fairness

-----------------------------------------------------------------------------
(* Properties                                                              *)

GoodEvents(m) == Range(Content[m]) \cap Ids

\* Publish-before-cache (process_message stores the identities only after
\* emit_event returned): an identity in the dedup cache is in a published
\* subgraph, whatever panics or concurrent slots did in between; otherwise a
\* redelivery would skip an event that never reached S3.
PublishBeforeCache == cache \subseteq published

\* No event is lost: a message deleted from the source queue without a
\* dead-letter copy had every one of its events published, through this
\* delivery or through an earlier one whose identities the handler then
\* found in the cache.
NoEventLost ==
    \A m \in Msgs :
        (queue[m] = "deleted" /\ m \notin dlq /\ Body[m] = "ok")
            => GoodEvents(m) \subseteq published

\* Every message eventually leaves the source queue (acknowledged, dead
\* lettered or dropped as missing) once Transient faults and panics stop.
AllMessagesDeleted == <>(\A m \in Msgs : queue[m] = "deleted")
-----------------------------------------------------------------------------
(* Refinement: the executor is an at-least-once consumer                   *)

Abstract == INSTANCE AbstractQueue
                WITH done <- {m \in Msgs : queue[m] = "deleted"}

\* The executor implements the safety of AbstractQueue under the mapping
\* that forgets the slots, the cache and visibility: every step of
\* process_message, of a panic and of SQS is a step of the abstract
\* consumer or leaves its state alone.  A message is removed only once it
\* is safe to forget (its events published, or dead lettered, or its
\* payload gone), and only a message's own events are published.  With
\* several processes a copy may be published or dead lettered after
\* another process removed the message.  AllMessagesDeleted gives the
\* abstract fairness: a message that is eventually removed satisfies
\* WF(Consume(m)).
ImplementsAbstractQueue == Abstract!SafetySpec

\* The executor implements the whole of AbstractQueue, its fairness
\* included: a message that stays safe to remove from the source queue
\* (dead lettered, its payload gone, or every event published) is
\* eventually deleted by some process, whatever the other processes,
\* panics and expired visibility timeouts do meanwhile.
ImplementsAbstractQueueSpec == Abstract!Spec
=============================================================================
