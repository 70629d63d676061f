----------------------------- MODULE MCExecutor -----------------------------
(***************************************************************************)
(* Executor instantiated for TLC: one process with two slots (or two     *)
(* processes with one slot each), two Sysmon events and four messages,    *)
(* one of each kind the executor routes differently:                      *)
(*   m1 a clean batch (process create + network connection),              *)
(*   m2 the partial batch of scenario S2 (a line that fails to parse      *)
(*      between two events, one of which m1 also carries),                *)
(*   m3 an object that has expired (Ok(None)),                            *)
(*   m4 a body that is not an S3 event (Persistent retrieval error).      *)
(***************************************************************************)
EXTENDS Executor

CONSTANTS m1, m2, m3, m4, e1, e2, x1, x2

OneProcess == {x1}
TwoProcesses == {x1, x2}

MCMsgs == {m1, m2, m3, m4}
\* Two replicas: the clean, the partial and the malformed message.
ScaledMsgs == {m1, m2, m4}
MCIds == {e1, e2}
MCContent ==
    [m \in Msgs |->
        CASE m = m1 -> <<e1, Ignored, e2>>
          [] m = m2 -> <<e2, BadXml, BadGraph>>
          [] OTHER  -> <<>>]
MCBody ==
    [m \in Msgs |->
        CASE m = m3 -> "missing"
          [] m = m4 -> "malformed"
          [] OTHER  -> "ok"]
=============================================================================
