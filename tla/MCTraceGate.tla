----------------------------- MODULE MCTraceGate -----------------------------
(* The gate of four goroutines with two units: enough for a queue of two   *)
(* behind a full semaphore, and for a unit handed over to the second.      *)
EXTENDS TraceGate, TLC

CONSTANTS c1, c2, c3, c4

MCCallers == {c1, c2, c3, c4}
=============================================================================
