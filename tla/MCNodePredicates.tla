------------------------- MODULE MCNodePredicates -------------------------
(***************************************************************************)
(* NodePredicates for TLC: one node key (so every predicate of every       *)
(* materialised node can collide); an empty and a non-empty string; the    *)
(* u64 values 0 and 1, below the sign bit; DynamicNode property names "p"  *)
(* and "p:q" with the Strprop values "q:1" and "1" and the number 1, so    *)
(* a name and a value can both carry the separator; two nodes.             *)
(***************************************************************************)
EXTENDS NodePredicates

CONSTANTS k1, h1

MCKeys == {k1}
MCStrs == {<<>>, <<"x">>}
MCNums == {0, 1}
MCPropNames == {<<"p">>, <<"p", ":", "q">>}
MCStrProps == {<<"q", ":", "1">>, <<"1">>}
MCIntProps == {1}
MCAssets == {h1}

\* Every field of IpConnection and ProcessInboundConnection; of File the
\* fields whose name or guard differs (created_timestamp, file_inode), one
\* text field and one other number.
MCVaried == [ip |-> Fields["ip"], inbound |-> Fields["inbound"],
             file |-> {"file_name", "file_inode", "created_timestamp",
                       "last_seen_timestamp"}]
=============================================================================
