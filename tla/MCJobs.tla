------------------------------- MODULE MCJobs -------------------------------
(***************************************************************************)
(* A small instance of Jobs: the schedulers of the API and of the worker,  *)
(* one pool thread each, a reminder and the briefing.                      *)
(***************************************************************************)
EXTENDS Jobs

CONSTANTS a1, w1, api, worker

MCActors == {a1, w1}
MCHosts == {api, worker}
MCHostOf == [a \in MCActors |-> IF a = w1 THEN worker ELSE api]
=============================================================================
