------------------------------ MODULE FileMerge ------------------------------
(***************************************************************************)
(* File.merge of graph-descriptions/src/file.rs, folded left to right over *)
(* a batch of nodes.  agg is the aggregate node and inputs the sequence of *)
(* nodes merge accepted, the batch's first node first.                     *)
(*                                                                         *)
(* Of the sixteen scalar fields one of each rule is kept: file_name for    *)
(* the text and Option fields (fill when empty), file_inode for the two    *)
(* integer fields written `self.x == 0 && !other.x != 0` (file_inode,      *)
(* file_hard_links), and created/last_seen for the three timestamps.       *)
(* Integers have Width bits so that the all-ones value is reachable: `!`   *)
(* on a u64 is the bitwise complement.                                     *)
(***************************************************************************)
EXTENDS Naturals, Sequences, SequencesExt

CONSTANTS
    Keys,      \* node_key values
    Names,     \* non-empty file_name values
    Empty,     \* the empty string
    Inodes,    \* file_inode values, 0 and 2^Width - 1 among them
    TS,        \* timestamp values, 0 (unset) among them
    Width,     \* bit width standing for u64
    MaxBatch   \* most nodes in one batch

AllOnes == 2^Width - 1

ASSUME /\ Empty \notin Names /\ 0 \in TS /\ TS \subseteq Nat
       /\ Inodes \subseteq 0..AllOnes /\ MaxBatch \in Nat \ {0}

Node == [node_key: Keys, file_name: Names \cup {Empty}, file_inode: Inodes,
         created_timestamp: TS, last_seen_timestamp: TS]

VARIABLES agg, inputs, steps

vars == <<agg, inputs, steps>>

\* `!x` on an unsigned integer of Width bits.
BitNot(x) == AllOnes - x

\* Mutant: other's non-empty text overwrites self's.
FillEmptyOverwrite(s, o) == IF o # Empty THEN o ELSE s

\* Text fields: copied from other when self's is empty and other's is not.
FillEmpty(s, o) == IF s = Empty /\ o # Empty THEN o ELSE s

\* file_inode / file_hard_links: `self.x == 0 && !other.x != 0`.
FillInode(s, o) == IF s = 0 /\ BitNot(o) # 0 THEN o ELSE s

\* Mutant: a timestamp takes other's value whenever it is set.
FillTimestampLatest(s, o) == IF o # 0 THEN o ELSE s

\* Timestamps: `if self.t == 0 { self.t = other.t }`.
FillTimestamp(s, o) == IF s = 0 THEN o ELSE s

\* File::merge (merge_into repeats it field for field).
Merge(self, other) ==
    IF self.node_key # other.node_key THEN self
    ELSE [self EXCEPT
            !.file_name = FillEmpty(self.file_name, other.file_name),
            !.file_inode = FillInode(self.file_inode, other.file_inode),
            !.created_timestamp =
                FillTimestamp(self.created_timestamp, other.created_timestamp),
            !.last_seen_timestamp =
                FillTimestamp(self.last_seen_timestamp, other.last_seen_timestamp)]

TypeOK ==
    /\ agg \in Node
    /\ inputs \in Seq(Node)
    /\ steps \in 1..MaxBatch

Init ==
    /\ agg \in Node
    /\ inputs = <<agg>>
    /\ steps = 1

\* One iteration of the fold: merge the next node of the batch.
MergeNext ==
    /\ steps < MaxBatch
    /\ \E n \in Node :
        /\ agg' = Merge(agg, n)
        /\ inputs' = IF n.node_key = agg.node_key THEN Append(inputs, n)
                                                 ELSE inputs
    /\ steps' = steps + 1

Next == MergeNext

Spec == Init /\ [][Next]_vars

-----------------------------------------------------------------------------
(* Reference rules of the graph-fragment model (spec sections 3, 8, 9)     *)

Field(f) == {inputs[i][f] : i \in DOMAIN inputs}

NonZero(S) == S \ {0}

MinNonZero(S) == IF NonZero(S) = {} THEN 0 ELSE Min(NonZero(S))

\* The first value of field f along the batch that is not `unset`.
FirstSet(f, unset) ==
    LET set == SelectSeq([i \in DOMAIN inputs |-> inputs[i][f]],
                         LAMBDA v : v # unset)
    IN IF set = <<>> THEN unset ELSE Head(set)

\* Merge monotonicity (spec property 1): the aggregate's file_name is the
\* first non-empty name of the nodes merged in; a later node never
\* overwrites it.
NameIsFirstNonEmpty == agg.file_name = FirstSet("file_name", Empty)

\* The intended rule for file_inode (spec 9: "fill if self is zero and
\* other is non-zero"): the aggregate's inode is the first non-zero inode
\* of the nodes merged in.
InodeIsFirstNonZero == agg.file_inode = FirstSet("file_inode", 0)

\* Timestamp min/max (spec property 2): created is the minimum of the
\* non-zero created timestamps and last_seen the maximum.
TimestampsAreMinMax ==
    /\ agg.created_timestamp = MinNonZero(Field("created_timestamp"))
    /\ agg.last_seen_timestamp = Max(Field("last_seen_timestamp"))

\* Idempotence under redelivery (spec section 3, "merge is idempotent", on
\* which at-least-once delivery relies): merging once more any node the
\* fold already accepted leaves every field of the aggregate as it is,
\* the complemented inode test and the timestamp fill included.
RemergeIsIdempotent ==
    \A i \in DOMAIN inputs : Merge(agg, inputs[i]) = agg
=============================================================================
