------------------------------- MODULE MCKeyFn -------------------------------
(* KeyFn for TLC: readings at both edges of an 86_400 ms bucket, the end  *)
(* of the first UTC day and the start of the second; three payloads.      *)
EXTENDS KeyFn

MCInstants == {0, 86399, 86400, MsPerDay - 1, MsPerDay}
=============================================================================
