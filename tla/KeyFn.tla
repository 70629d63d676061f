-------------------------------- MODULE KeyFn --------------------------------
(***************************************************************************)
(* time_based_key_fn of sqs-executor/src/lib.rs: the S3 key of every       *)
(* emitted payload is "{cur_day}/{cur_ms}-{uuid}" where cur_ms is the      *)
(* wall clock in milliseconds and cur_day = cur_ms - cur_ms % 86400.  The  *)
(* emitter calls it once per payload; between calls the wall clock moves,  *)
(* in either direction (SystemTime is not monotonic).  A key is kept as    *)
(* the record of its two numbers; the uuid only makes keys distinct.       *)
(***************************************************************************)
EXTENDS Naturals, FiniteSets

CONSTANTS
    Instants,  \* wall-clock readings in ms since the epoch
    MaxKeys    \* most payloads emitted

ASSUME Instants \subseteq Nat /\ Instants # {} /\ MaxKeys \in Nat \ {0}

MsPerDay == 86400000

VARIABLES now, keys

vars == <<now, keys>>

\* cur_day: `cur_ms - (cur_ms % 86400)`.
Bucket(ms) == ms - (ms % 86400)

\* time_based_key_fn: the key's bucket and timestamp.
Key(ms) == [bucket |-> Bucket(ms), ms |-> ms]

TypeOK ==
    /\ now \in Instants
    /\ keys \subseteq [bucket: Nat, ms: Instants]

Init ==
    /\ now \in Instants
    /\ keys = {}

\* emit_event names the payload with time_based_key_fn.
EmitKey ==
    /\ Cardinality(keys) < MaxKeys
    /\ keys' = keys \cup {Key(now)}
    /\ UNCHANGED now

\* The wall clock is read again later; it may have moved either way.
ClockMoves ==
    /\ \E t \in Instants \ {now} : now' = t
    /\ UNCHANGED keys

Next == EmitKey \/ ClockMoves

Spec == Init /\ [][Next]_vars

-----------------------------------------------------------------------------

\* The prefix is a UTC day ("day_bucket", "utc_day_epoch_ms"): two keys
\* written within the same UTC day share their prefix.
SameDaySamePrefix ==
    \A k1, k2 \in keys :
        k1.ms \div MsPerDay = k2.ms \div MsPerDay => k1.bucket = k2.bucket
=============================================================================
