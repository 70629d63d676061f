-------------------------- MODULE IpConnectionMerge --------------------------
(***************************************************************************)
(* IpConnection.merge of graph-descriptions/src/ip_connection.rs, folded   *)
(* left to right over a batch of nodes the way a generator merges each     *)
(* event's subgraph into its running aggregate.                            *)
(*                                                                         *)
(* agg is the aggregate node, inputs the nodes merge accepted so far (the  *)
(* first node of the batch among them).  A node keeps the fields merge     *)
(* reads or writes, plus src_ip_address standing for the identifying       *)
(* attributes (src/dst address, protocol) that merge never compares.       *)
(***************************************************************************)
EXTENDS Naturals, Sequences, SequencesExt

CONSTANTS
    Keys,      \* node_key values
    Addrs,     \* src_ip_address values
    TS,        \* timestamp values, 0 (unset) among them
    MaxBatch   \* most nodes in one batch

ASSUME 0 \in TS /\ TS \subseteq Nat /\ MaxBatch \in Nat \ {0}

Node == [node_key: Keys, src_ip_address: Addrs, created_timestamp: TS,
         terminated_timestamp: TS, last_seen_timestamp: TS]

VARIABLES agg, inputs, steps

vars == <<agg, inputs, steps>>

\* created_timestamp: taken from other when self's is unset or later.
LowerCreated(s, o) == IF s = 0 \/ o < s THEN o ELSE s

\* Mutant: an upper-bound timestamp only filled when unset (File's rule).
RaiseTimestampFillOnly(s, o) == IF s = 0 THEN o ELSE s

\* terminated_timestamp and last_seen_timestamp: taken from other when
\* self's is unset or earlier.
RaiseTimestamp(s, o) == IF s = 0 \/ o > s THEN o ELSE s

\* IpConnection::merge: refuse a differing node_key, otherwise merge the
\* three timestamps; the identifying attributes are left as they are.
Merge(self, other) ==
    IF self.node_key # other.node_key THEN self
    ELSE [self EXCEPT
            !.created_timestamp =
                LowerCreated(self.created_timestamp, other.created_timestamp),
            !.terminated_timestamp =
                RaiseTimestamp(self.terminated_timestamp, other.terminated_timestamp),
            !.last_seen_timestamp =
                RaiseTimestamp(self.last_seen_timestamp, other.last_seen_timestamp)]

TypeOK ==
    /\ agg \in Node
    /\ inputs \subseteq Node
    /\ steps \in 1..MaxBatch

Init ==
    /\ agg \in Node
    /\ inputs = {agg}
    /\ steps = 1

\* One iteration of the fold: merge the next node of the batch.
MergeNext ==
    /\ steps < MaxBatch
    /\ \E n \in Node :
        /\ agg' = Merge(agg, n)
        /\ inputs' = IF n.node_key = agg.node_key THEN inputs \cup {n}
                                                 ELSE inputs
    /\ steps' = steps + 1

Next == MergeNext

Spec == Init /\ [][Next]_vars

-----------------------------------------------------------------------------
(* Reference rules of the graph-fragment model (spec section 3)            *)

Field(f) == {n[f] : n \in inputs}

NonZero(S) == S \ {0}

\* Minimum of the non-zero values, 0 when there are none.
MinNonZero(S) == IF NonZero(S) = {} THEN 0 ELSE Min(NonZero(S))

\* Upper-bound timestamps (terminated, last_seen) are the maximum of every
\* node merged in, whatever the order of the batch: merge raises them and a
\* zero never wins over a set value.
UpperBoundsAreMax ==
    /\ agg.terminated_timestamp = Max(Field("terminated_timestamp"))
    /\ agg.last_seen_timestamp = Max(Field("last_seen_timestamp"))

\* The created timestamp of the aggregate is the minimum of the non-zero
\* created timestamps merged in (spec: created-family timestamps take the
\* MINIMUM of non-zero values).
CreatedIsMinNonZero ==
    agg.created_timestamp = MinNonZero(Field("created_timestamp"))

\* Every node merge accepted carries the aggregate's identifying attributes
\* (spec: for connection-shaped nodes a mismatch aborts the merge).
IdentifyingAttributesAgree ==
    \A n \in inputs : n.src_ip_address = agg.src_ip_address
=============================================================================
