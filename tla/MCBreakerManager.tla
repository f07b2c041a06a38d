-------------------------- MODULE MCBreakerManager --------------------------
(***************************************************************************)
(* Small instances of BreakerManager.                                      *)
(***************************************************************************)
EXTENDS BreakerManager

CONSTANTS t1, t2, m1, gmail

\* All threads share the manager of the gmail connector.
Shared == [t \in Threads |-> m1]
OnlyGmail == [t \in Threads |-> {gmail}]
=============================================================================
