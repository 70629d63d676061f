-------------------------- MODULE DynamicNodeMerge --------------------------
(***************************************************************************)
(* DynamicNode.merge of graph-descriptions/src/dynamic_node.rs, folded     *)
(* left to right over a batch of nodes.  A node's properties map is a      *)
(* function from property names to a value or Absent; agg is the           *)
(* aggregate and inputs the sequence of nodes merge accepted, the batch's  *)
(* first node first.                                                       *)
(***************************************************************************)
EXTENDS Naturals, Sequences, SequencesExt

CONSTANTS
    Keys,      \* node_key values
    Names,     \* property names
    Vals,      \* property values (int, uint or string NodeProperty)
    Absent,    \* a name not in the map
    Assets,    \* asset_id values
    None,      \* an absent asset_id
    MaxBatch   \* most nodes in one batch

ASSUME Absent \notin Vals /\ None \notin Assets /\ MaxBatch \in Nat \ {0}

Node == [node_key: Keys, asset_id: Assets \cup {None},
         properties: [Names -> Vals \cup {Absent}]]

VARIABLES agg, inputs, steps

vars == <<agg, inputs, steps>>

\* Mutant: an existing property is kept (insert only when missing).
InsertIfMissing(mine, theirs) ==
    [p \in Names |-> IF mine[p] = Absent THEN theirs[p] ELSE mine[p]]

\* `for (key, prop) in other.properties { self.properties.insert(key, prop) }`:
\* every property of other replaces self's.
InsertAll(mine, theirs) ==
    [p \in Names |-> IF theirs[p] # Absent THEN theirs[p] ELSE mine[p]]

\* DynamicNode::merge (merge_into is the same loop over an owned map):
\* refuse a differing node_key; only the properties map changes.
Merge(self, other) ==
    IF self.node_key # other.node_key THEN self
    ELSE [self EXCEPT !.properties = InsertAll(self.properties, other.properties)]

TypeOK ==
    /\ agg \in Node
    /\ inputs \in Seq(Node)
    /\ steps \in 1..MaxBatch

Init ==
    /\ agg \in Node
    /\ inputs = <<agg>>
    /\ steps = 1

\* One iteration of the fold: merge the next node of the batch.
MergeNext ==
    /\ steps < MaxBatch
    /\ \E n \in Node :
        /\ agg' = Merge(agg, n)
        /\ inputs' = IF n.node_key = agg.node_key THEN Append(inputs, n)
                                                 ELSE inputs
    /\ steps' = steps + 1

Next == MergeNext

Spec == Init /\ [][Next]_vars

-----------------------------------------------------------------------------
(* Reference rules of the graph-fragment model (spec sections 3 and 4.H)   *)

\* The values property p takes along the batch, absent ones dropped.
Present(p) == SelectSeq([i \in DOMAIN inputs |-> inputs[i].properties[p]],
                        LAMBDA v : v # Absent)

\* Overwrite rule (spec 4.H): each property of the aggregate is the value
\* the last node of the batch that has it gave it, and a property no node
\* has stays absent.
LastWriteWins ==
    \A p \in Names :
        agg.properties[p] = IF Present(p) = <<>> THEN Absent ELSE Last(Present(p))

\* Monotone fill of scalar fields (spec section 3, "must hold across every
\* variant"): an absent asset_id is filled from a node merged in.
AssetIdFilled ==
    agg.asset_id = None => \A i \in DOMAIN inputs : inputs[i].asset_id = None
=============================================================================
