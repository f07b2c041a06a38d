------------------------- MODULE MCExecutionLedger -------------------------
(***************************************************************************)
(* Small instances of ExecutionLedger: two threads of the API process and  *)
(* one of the worker process.                                              *)
(***************************************************************************)
EXTENDS ExecutionLedger

CONSTANTS a1, a2, w1, api, worker

MCActors == {a1, a2, w1}
MCHosts == {api, worker}
MCHostOf == [a \in MCActors |-> IF a = w1 THEN worker ELSE api]

\* Two threads, one per process.
MCPair == {a1, w1}
MCPairHostOf == [a \in MCPair |-> IF a = w1 THEN worker ELSE api]
=============================================================================
