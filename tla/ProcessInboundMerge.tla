------------------------- MODULE ProcessInboundMerge -------------------------
(***************************************************************************)
(* ProcessInboundConnection.merge of graph-descriptions/src/               *)
(* process_inbound_connection.rs, folded left to right over a batch of     *)
(* nodes.  agg is the aggregate node and inputs the sequence of nodes      *)
(* merge accepted, the batch's first node first.  asset_id stands for both *)
(* optional fields (asset_id, hostname), which merge treats alike.         *)
(***************************************************************************)
EXTENDS Naturals, Sequences, SequencesExt

CONSTANTS
    Keys,      \* node_key values
    Addrs,     \* ip_address values
    Assets,    \* asset_id values
    None,      \* an absent asset_id
    TS,        \* timestamp values, 0 (unset) among them
    MaxBatch   \* most nodes in one batch

ASSUME 0 \in TS /\ TS \subseteq Nat /\ None \notin Assets /\ MaxBatch \in Nat \ {0}

Node == [node_key: Keys, ip_address: Addrs, asset_id: Assets \cup {None},
         created_timestamp: TS, terminated_timestamp: TS,
         last_seen_timestamp: TS]

VARIABLES agg, inputs, steps

vars == <<agg, inputs, steps>>

\* Mutant: other's asset_id overwrites a present one.
FillOptionalOverwrite(s, o) == IF o # None THEN o ELSE s

\* asset_id / hostname: copied from other only when absent in self.
FillOptional(s, o) == IF s = None /\ o # None THEN o ELSE s

\* created_timestamp: lowered to other's when self's is set and later.
LowerSetCreated(s, o) == IF s # 0 /\ s > o THEN o ELSE s

\* terminated/last_seen_timestamp: raised to other's when self's is set
\* and earlier.
RaiseSetTimestamp(s, o) == IF s # 0 /\ s < o THEN o ELSE s

\* Both keys must agree: a differing node_key or ip_address refuses the
\* merge.
Mergeable(self, other) ==
    self.node_key = other.node_key /\ self.ip_address = other.ip_address

\* ProcessInboundConnection::merge (merge_into calls it).
Merge(self, other) ==
    IF ~Mergeable(self, other) THEN self
    ELSE [self EXCEPT
            !.asset_id = FillOptional(self.asset_id, other.asset_id),
            !.created_timestamp =
                LowerSetCreated(self.created_timestamp, other.created_timestamp),
            !.terminated_timestamp =
                RaiseSetTimestamp(self.terminated_timestamp, other.terminated_timestamp),
            !.last_seen_timestamp =
                RaiseSetTimestamp(self.last_seen_timestamp, other.last_seen_timestamp)]

TypeOK ==
    /\ agg \in Node
    /\ inputs \in Seq(Node)
    /\ steps \in 1..MaxBatch

Init ==
    /\ agg \in Node
    /\ inputs = <<agg>>
    /\ steps = 1

\* One iteration of the fold: merge the next node of the batch.
MergeNext ==
    /\ steps < MaxBatch
    /\ \E n \in Node :
        /\ agg' = Merge(agg, n)
        /\ inputs' = IF Mergeable(agg, n) THEN Append(inputs, n) ELSE inputs
    /\ steps' = steps + 1

Next == MergeNext

Spec == Init /\ [][Next]_vars

-----------------------------------------------------------------------------
(* Reference rules of the graph-fragment model (spec sections 3 and 8)     *)

Field(f) == {inputs[i][f] : i \in DOMAIN inputs}

NonZero(S) == S \ {0}

MinNonZero(S) == IF NonZero(S) = {} THEN 0 ELSE Min(NonZero(S))

\* The first present value of the optional field along the batch.
FirstPresent(f) ==
    LET present == SelectSeq([i \in DOMAIN inputs |-> inputs[i][f]],
                             LAMBDA v : v # None)
    IN IF present = <<>> THEN None ELSE Head(present)

\* Merge monotonicity (spec property 1): the aggregate's asset_id is the
\* first present asset_id of the nodes merged in, in batch order; a later
\* node never overwrites it.
OptionalIsFirstPresent == agg.asset_id = FirstPresent("asset_id")

\* Timestamp min/max (spec property 2): created is the minimum of the
\* non-zero created timestamps, last_seen and terminated the maximum.
TimestampsAreMinMax ==
    /\ agg.created_timestamp = MinNonZero(Field("created_timestamp"))
    /\ agg.terminated_timestamp = Max(Field("terminated_timestamp"))
    /\ agg.last_seen_timestamp = Max(Field("last_seen_timestamp"))

\* Idempotence under redelivery (spec section 3, "merge is idempotent", on
\* which at-least-once delivery relies): merging once more any node the
\* fold already accepted, as a duplicate event of the batch or a
\* redelivered fragment does, leaves every field of the aggregate as it is.
RemergeIsIdempotent ==
    \A i \in DOMAIN inputs : Merge(agg, inputs[i]) = agg
=============================================================================
