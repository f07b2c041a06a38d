---------------------------- MODULE MCApprovals ----------------------------
(***************************************************************************)
(* Small instances of Approvals: a thread of the API process and one of    *)
(* the worker process.                                                     *)
(***************************************************************************)
EXTENDS Approvals

CONSTANTS a1, w1, api, worker

MCActors == {a1, w1}
MCHosts == {api, worker}
MCHostOf == [a \in MCActors |-> IF a = w1 THEN worker ELSE api]
Both == {TRUE, FALSE}
\* autoClean on, its default
Cleaning == {TRUE}
Orderly == {TRUE}
Concurrent == {FALSE}
=============================================================================
