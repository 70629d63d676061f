-------------------------------- MODULE MCMerges --------------------------------
(***************************************************************************)
(* The four merge folds in one model: each behaviour picks one node        *)
(* variant and folds that variant's merge over a batch, so the state space *)
(* is the disjoint union of the four.  Bounds as in each variant's own MC  *)
(* module: two node keys, two values per identifying or text field,        *)
(* timestamps 0..2, 2-bit inodes, batches of three.                        *)
(***************************************************************************)
EXTENDS Naturals

CONSTANTS k1, k2, a1, a2, h1, h2, n1, n2, p1, p2, v1, v2, None, Empty, Absent

VARIABLES variant, agg, inputs, steps

Keys == {k1, k2}
TS == 0..2

Ip == INSTANCE IpConnectionMerge
        WITH Addrs <- {a1, a2}, MaxBatch <- 3
Inbound == INSTANCE ProcessInboundMerge
        WITH Addrs <- {a1, a2}, Assets <- {h1, h2}, MaxBatch <- 3
File == INSTANCE FileMerge
        WITH Names <- {n1, n2}, Inodes <- {0, 1, 3}, Width <- 2, MaxBatch <- 3
Dynamic == INSTANCE DynamicNodeMerge
        WITH Names <- {p1, p2}, Vals <- {v1, v2}, Assets <- {h1}, MaxBatch <- 3

Variants == {"ip", "inbound", "file", "dynamic"}

Init ==
    /\ variant \in Variants
    /\ CASE variant = "ip"      -> Ip!Init
         [] variant = "inbound" -> Inbound!Init
         [] variant = "file"    -> File!Init
         [] variant = "dynamic" -> Dynamic!Init

Next ==
    /\ UNCHANGED variant
    /\ CASE variant = "ip"      -> Ip!Next
         [] variant = "inbound" -> Inbound!Next
         [] variant = "file"    -> File!Next
         [] variant = "dynamic" -> Dynamic!Next

Spec == Init /\ [][Next]_<<variant, agg, inputs, steps>>

\* IpConnection: terminated and last_seen are the maximum of every node
\* merged in, whatever the order of the batch.
IpUpperBoundsAreMax == variant = "ip" => Ip!UpperBoundsAreMax

\* ProcessInboundConnection: asset_id keeps the first present value of the
\* batch; merge never overwrites it.
InboundOptionalIsFirstPresent ==
    variant = "inbound" => Inbound!OptionalIsFirstPresent

\* File: file_name keeps the first non-empty name of the batch.
FileNameIsFirstNonEmpty == variant = "file" => File!NameIsFirstNonEmpty

\* DynamicNode: each property is the value the last node of the batch that
\* has it gave it.
DynamicLastWriteWins == variant = "dynamic" => Dynamic!LastWriteWins

\* ProcessInboundConnection and File: merging again a node the batch
\* already merged in (a duplicate event, or a redelivered fragment) changes
\* nothing.  IpConnection and DynamicNode do not have this property; see
\* their CreatedIsMinNonZero and LastWriteWins.
RemergeIsIdempotent ==
    /\ variant = "inbound" => Inbound!RemergeIsIdempotent
    /\ variant = "file" => File!RemergeIsIdempotent
=============================================================================
