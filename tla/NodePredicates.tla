--------------------------- MODULE NodePredicates ---------------------------
(***************************************************************************)
(* The two NodeT operations that turn a node of a graph fragment into what *)
(* the downstream merger uses: attach_predicates_to_mutation_unit, the     *)
(* (node_key, predicate, value) triples written to DGraph, and             *)
(* get_cache_identities_for_predicates, the strings                        *)
(* format!("{}:{}:{}", node_key, predicate, value) that key the predicate  *)
(* cache.  mutation holds the triples written for the nodes materialised   *)
(* so far and cache their identities.                                      *)
(*                                                                         *)
(* Strings are sequences of characters (a node_key or a fixed predicate    *)
(* name, which contain no ':', is one token).  Numbers are written as      *)
(* MutationPredicateValue::Number(x as i64) and shown in an identity with  *)
(* `{}`, in decimal.  Every field of the fixed-schema variants is a row of *)
(* its variant's tables; the fields in Varied[v] take every value of Strs  *)
(* or Nums, the others keep their default.                                 *)
(***************************************************************************)
EXTENDS Naturals, Integers, Sequences, FiniteSets

CONSTANTS
    Keys,       \* node_key values
    Strs,       \* values of the fixed string fields, <<>> among them
    Nums,       \* values of the fixed u64 fields, 0 among them
    Width,      \* bit width standing for 64
    PropNames,  \* DynamicNode property names (strings)
    StrProps,   \* Strprop values (strings)
    IntProps,   \* Intprop / Uintprop values
    Assets,     \* asset_id values
    None,       \* an absent asset_id
    Absent,     \* a property name not in the map
    Varied,     \* Varied[v]: the fields of variant v that take every value
    MaxNodes    \* most nodes materialised

ASSUME <<>> \in Strs /\ 0 \in Nums /\ Width \in Nat \ {0} /\ MaxNodes \in Nat

\* A MutationPredicateValue, or a field value: a number or a string.
Num(x) == [type |-> "num", n |-> x, s |-> <<>>]
Str(x) == [type |-> "str", n |-> 0, s |-> x]

\* `x as i64` for an unsigned integer of Width bits.
AsI64(x) == IF x >= 2^(Width - 1) THEN x - 2^Width ELSE x

\* `format!("{}", n)`: the decimal digits of n, with a sign if negative.
RECURSIVE Decimal(_)
Decimal(n) ==
    IF n < 0 THEN <<"-">> \o Decimal(-n)
    ELSE IF n < 10 THEN <<<<"0", "1", "2", "3", "4", "5", "6", "7", "8", "9">>[n + 1]>>
    ELSE Decimal(n \div 10) \o Decimal(n % 10)

\* `format!("{}:{}:{}", node_key, name, value)`.
Identity(key, name, text) == <<key>> \o <<":">> \o name \o <<":">> \o text

-----------------------------------------------------------------------------
(* The fixed-schema variants: one row per field the operation handles,     *)
(* with the predicate name it uses and its guard                           *)

Row(f, name, kind) == [field |-> f, name |-> <<name>>, kind |-> kind]

\* Fields handled alike: the predicate is named after the field.
Rows(kind, fields) == {Row(f, f, kind) : f \in fields}

IpText == {"src_ip_address", "dst_ip_address", "protocol"}
Bounds == {"created_timestamp", "terminated_timestamp", "last_seen_timestamp"}
FileText == {"file_name", "file_path", "file_extension", "file_mime_type",
             "file_version", "file_description", "file_product",
             "file_company", "file_directory", "md5_hash", "sha1_hash",
             "sha256_hash"}
FileNumbers == {"file_size", "file_inode", "file_hard_links",
                "deleted_timestamp", "last_seen_timestamp"}

\* IpConnection::attach_predicates_to_mutation_unit
IpAttach == Rows("always", IpText) \cup Rows("nonzero", Bounds)

\* IpConnection::get_cache_identities_for_predicates
IpIdentities == Rows("always", IpText) \cup Rows("nonzero", Bounds)

\* ProcessInboundConnection::attach_predicates_to_mutation_unit
InboundAttach == Rows("always", {"protocol", "port"}) \cup Rows("nonzero", Bounds)

\* ProcessInboundConnection::get_cache_identities_for_predicates
InboundIdentities ==
    Rows("always", {"protocol", "port"}) \cup Rows("nonzero", Bounds)

\* File::attach_predicates_to_mutation_unit: created_timestamp is written
\* under the name created_time.
FileAttach ==
    Rows("nonempty", FileText) \cup Rows("nonzero", FileNumbers)
    \cup {Row("created_timestamp", "created_time", "nonzero")}

\* File::get_cache_identities_for_predicates
FileIdentities ==
    Rows("nonempty", FileText)
    \cup Rows("nonzero", FileNumbers \cup {"created_timestamp"})

AttachRows == [ip |-> IpAttach, inbound |-> InboundAttach, file |-> FileAttach]
IdentityRows == [ip |-> IpIdentities, inbound |-> InboundIdentities,
                 file |-> FileIdentities]
TypeName == [ip |-> "IpConnection", inbound |-> "ProcessInboundConnection",
             file |-> "File"]

\* The struct fields of a variant, and those holding strings.
Fields == [v \in DOMAIN AttachRows |->
              {r.field : r \in AttachRows[v] \cup IdentityRows[v]}]
StrFields == IpText \cup FileText

\* The guards: `if !self.x.is_empty()`, `if self.x != 0`, or none.
Present(kind, x) ==
    CASE kind = "always"   -> TRUE
      [] kind = "nonempty" -> x.s # <<>>
      [] kind = "nonzero"  -> x.n # 0

\* The value a field is written with (`x as i64` for a number), and how
\* an identity shows it (`{}`).  The Intprop/Uintprop/Strprop match of
\* DynamicNode does the same.
Written(x) == IF x.type = "num" THEN Num(AsI64(x.n)) ELSE x
Shown(x) == IF x.type = "num" THEN Decimal(x.n) ELSE x.s

FieldVals == {Num(x) : x \in Nums} \cup {Str(x) : x \in Strs}

\* A field's default, and the values it takes when varied.
Default(f) == IF f \in StrFields THEN Str(<<>>) ELSE Num(0)
Vals(f) == IF f \in StrFields THEN {Str(x) : x \in Strs} ELSE {Num(x) : x \in Nums}

\* The structs of variant v: the fields in Varied[v] take every value, the
\* others keep their default.
FixedNodes(v) ==
    {[variant |-> v, key |-> k,
      fields |-> [f \in Fields[v] |-> IF f \in Varied[v] THEN g[f] ELSE Default(f)]] :
        k \in Keys,
        g \in {g \in [Varied[v] -> FieldVals] : \A f \in Varied[v] : g[f] \in Vals(f)}}

-----------------------------------------------------------------------------
(* DynamicNode                                                             *)

PropVals == {Num(i) : i \in IntProps} \cup {Str(x) : x \in StrProps}

DynamicNodes ==
    [variant: {"dynamic"}, key: Keys, seen_at: Nums, asset_id: Assets \cup {None},
     node_type: {"DynamicNode"}, properties: [PropNames -> PropVals \cup {Absent}]]


Props(n) == {q \in PropNames : n.properties[q] # Absent}

\* DynamicNode::attach_predicates_to_mutation_unit
DynamicAttach(n) ==
    {[key |-> n.key, name |-> <<"seen_at">>, val |-> Num(AsI64(n.seen_at))],
     [key |-> n.key, name |-> <<"dgraph.type">>, val |-> Str(<<n.node_type>>)]}
    \cup (IF n.asset_id = None THEN {}
          ELSE {[key |-> n.key, name |-> <<"asset_id">>, val |-> Str(<<n.asset_id>>)]})
    \cup {[key |-> n.key, name |-> q, val |-> Written(n.properties[q])] :
            q \in Props(n)}

\* DynamicNode::get_cache_identities_for_predicates
DynamicIdentities(n) ==
    {Identity(n.key, q, Shown(n.properties[q])) : q \in Props(n)}

-----------------------------------------------------------------------------
(* Both operations on any node                                             *)

Nodes == UNION {FixedNodes(v) : v \in DOMAIN Fields} \cup DynamicNodes

\* The triples attach_predicates_to_mutation_unit writes: node_key, then
\* the variant's rows whose guard holds (dgraph.type for fixed variants).
Predicates(n) ==
    {[key |-> n.key, name |-> <<"node_key">>, val |-> Str(<<n.key>>)]} \cup
    IF n.variant = "dynamic" THEN DynamicAttach(n)
    ELSE {[key |-> n.key, name |-> <<"dgraph.type">>,
           val |-> Str(<<TypeName[n.variant]>>)]}
         \cup {[key |-> n.key, name |-> r.name,
                val |-> Written(n.fields[r.field])] :
                 r \in {r \in AttachRows[n.variant] :
                          Present(r.kind, n.fields[r.field])}}

\* The strings get_cache_identities_for_predicates returns.
CacheIdentities(n) ==
    IF n.variant = "dynamic" THEN DynamicIdentities(n)
    ELSE {Identity(n.key, r.name, Shown(n.fields[r.field])) :
            r \in {r \in IdentityRows[n.variant] :
                     Present(r.kind, n.fields[r.field])}}

VARIABLES mutation, cache, count

vars == <<mutation, cache, count>>

Init ==
    /\ mutation = {}
    /\ cache = {}
    /\ count = 0

\* A node of an emitted fragment is materialised: its predicates are
\* attached to the mutation and its predicate identities enumerated.
Materialise(n) ==
    /\ count < MaxNodes
    /\ mutation' = mutation \cup Predicates(n)
    /\ cache' = cache \cup CacheIdentities(n)
    /\ count' = count + 1

Next == \E n \in Nodes : Materialise(n)

Spec == Init /\ [][Next]_vars

-----------------------------------------------------------------------------
(* Properties: an identity stands for one written (node_key, predicate,    *)
(* value) triple (spec: "tuples of node-key, attribute, value")            *)

\* The identity a written triple would have.
IdentityOf(t) == Identity(t.key, t.name, Shown(t.val))

\* Every predicate identity enumerated for a node is the identity of a
\* triple attach_predicates_to_mutation_unit wrote: caching an identity
\* with no written predicate behind it marks as stored a predicate the
\* mutation never carried.
IdentityDenotesWrittenPredicate ==
    \A c \in cache : \E t \in mutation : IdentityOf(t) = c

\* Distinct written predicates have distinct identities: the
\* "{}:{}:{}" encoding never lets one cached identity stand for two
\* different triples, which would make the cache skip the second.
IdentitiesDistinguishPredicates ==
    \A t1, t2 \in mutation :
        IdentityOf(t1) = IdentityOf(t2) /\ IdentityOf(t1) \in cache => t1 = t2
=============================================================================
