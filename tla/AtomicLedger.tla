---------------------------- MODULE AtomicLedger ----------------------------
(***************************************************************************)
(* What the execution ledger promises its callers (the approval service,   *)
(* the rule engine, the scheduled jobs): a table from idempotency key to   *)
(* the latest status recorded for it, changed in single atomic steps.      *)
(*                                                                         *)
(* A caller claims a key (try_start answered True), runs the action the    *)
(* key protects, and settles the key (mark).  A caller may die in between, *)
(* which leaves the key claimed.  The ledger may also forget keys, because *)
(* only the last BENJAMIN_LEDGER_MAX records are kept.                     *)
(*                                                                         *)
(* ExecutionLedger shows that the lock file, the append and the trim of    *)
(* the JSONL file implement this table; Approvals is built on it.          *)
(***************************************************************************)
EXTENDS Naturals, FiniteSets, TLAPS

CONSTANTS Actors,  \* threads that call the ledger
          Keys     \* idempotency keys

VARIABLES status,    \* latest status recorded for each key
          running,   \* callers that claimed a key and run its action
          finished,  \* callers whose action succeeded, not settled yet
          done,      \* ghost: how often the action of each key succeeded
          forgotten  \* ghost: keys whose records were all evicted once

vars == <<status, running, finished, done, forgotten>>

Settled == {"succeeded", "failed"}
Statuses == {"none", "started"} \cup Settled

(***************************************************************************)
(* The ledger's type invariant.                                            *)
(***************************************************************************)
TypeOK ==
    /\ status \in [Keys -> Statuses]
    /\ running \in [Keys -> SUBSET Actors]
    /\ finished \in [Keys -> SUBSET Actors]
    /\ done \in [Keys -> Nat]
    /\ forgotten \subseteq Keys

Init ==
    /\ status = [k \in Keys |-> "none"]
    /\ running = [k \in Keys |-> {}]
    /\ finished = [k \in Keys |-> {}]
    /\ done = [k \in Keys |-> 0]
    /\ forgotten = {}

\* A mistaken form of Claimable: only an action in progress is a duplicate.
ClaimableUnlessStarted(k) == status[k] # "started"

(***************************************************************************)
(* try_start answers True: the latest record of the key is neither started *)
(* nor succeeded.  The answer False changes nothing and is a stuttering    *)
(* step.                                                                   *)
(***************************************************************************)
Claimable(k) == status[k] \notin {"started", "succeeded"}

Claim(a, k) ==
    /\ Claimable(k)
    /\ status' = [status EXCEPT ![k] = "started"]
    /\ running' = [running EXCEPT ![k] = @ \cup {a}]
    /\ UNCHANGED <<finished, done, forgotten>>

\* The caller's action succeeds; the ledger does not know yet.
Succeed(a, k) ==
    /\ a \in running[k]
    /\ running' = [running EXCEPT ![k] = @ \ {a}]
    /\ finished' = [finished EXCEPT ![k] = @ \cup {a}]
    /\ done' = [done EXCEPT ![k] = @ + 1]
    /\ UNCHANGED <<status, forgotten>>

\* mark(key, "succeeded") after a success, mark(key, "failed") otherwise.
MarkSucceeded(a, k) ==
    /\ a \in finished[k]
    /\ finished' = [finished EXCEPT ![k] = @ \ {a}]
    /\ status' = [status EXCEPT ![k] = "succeeded"]
    /\ UNCHANGED <<running, done, forgotten>>

MarkFailed(a, k) ==
    /\ a \in running[k]
    /\ running' = [running EXCEPT ![k] = @ \ {a}]
    /\ status' = [status EXCEPT ![k] = "failed"]
    /\ UNCHANGED <<finished, done, forgotten>>

\* The trim drops every record of the keys K.
Forget(K) ==
    /\ status' = [k \in Keys |-> IF k \in K THEN "none" ELSE status[k]]
    /\ forgotten' = forgotten \cup K
    /\ UNCHANGED <<running, finished, done>>

\* A process dies: what its threads A were doing is never settled.
Die(A) ==
    /\ running' = [k \in Keys |-> running[k] \ A]
    /\ finished' = [k \in Keys |-> finished[k] \ A]
    /\ UNCHANGED <<status, done, forgotten>>

Next ==
    \/ \E a \in Actors, k \in Keys :
          \/ Claim(a, k)
          \/ Succeed(a, k)
          \/ MarkSucceeded(a, k)
          \/ MarkFailed(a, k)
    \/ \E K \in SUBSET Keys : Forget(K)
    \/ \E A \in SUBSET Actors : Die(A)

Spec == Init /\ [][Next]_vars

-----------------------------------------------------------------------------
(***************************************************************************)
(* The action of a key succeeds at most once, unless the ledger has        *)
(* forgotten the key (README, "Idempotency and replay safety").            *)
(***************************************************************************)
AtMostOnce == \A k \in Keys \ forgotten : done[k] <= 1

(***************************************************************************)
(* No two callers are inside the action of the same key at the same time,  *)
(* unless the ledger has forgotten the key.                                *)
(***************************************************************************)
ExclusiveRun ==
    \A k \in Keys \ forgotten, a, b \in Actors :
        a \in running[k] /\ b \in running[k] => a = b

(***************************************************************************)
(* The strengthening that is inductive: a live claim means the key's       *)
(* latest status is started, at most one claim is live, and a key whose    *)
(* action has succeeded is never free again.                               *)
(***************************************************************************)
Claims(k) == running[k] \cup finished[k]

KeyInv(k) ==
    /\ \A a \in Actors : a \in Claims(k) => status[k] = "started"
    /\ \A a, b \in Actors :
          a \in Claims(k) /\ b \in Claims(k) => a = b
    /\ \A a \in Actors : ~(a \in running[k] /\ a \in finished[k])
    /\ done[k] <= 1
    /\ done[k] = 1 => /\ status[k] \in {"started", "succeeded"}
                      /\ \A a \in Actors : a \notin running[k]
    /\ \A a \in Actors : a \in finished[k] => done[k] = 1

IndInv == TypeOK /\ \A k \in Keys \ forgotten : KeyInv(k)

-----------------------------------------------------------------------------
(***************************************************************************)
(* The initial state satisfies the inductive invariant.                    *)
(***************************************************************************)
LEMMA AtomicInit == Init => IndInv
  BY DEF Init, IndInv, TypeOK, KeyInv, Claims, Statuses, Settled

(***************************************************************************)
(* Every step of the ledger preserves the inductive invariant.             *)
(***************************************************************************)
LEMMA AtomicStep == IndInv /\ [Next]_vars => IndInv'
<1> SUFFICES ASSUME IndInv, [Next]_vars PROVE IndInv'
  OBVIOUS
<1> USE DEF IndInv, TypeOK, KeyInv, Claims, Statuses, Settled
<1>1. ASSUME NEW a \in Actors, NEW k \in Keys, Claim(a, k) PROVE IndInv'
  <2>1. TypeOK'
    BY <1>1 DEF Claim
  <2>2. ASSUME NEW j \in Keys \ forgotten' PROVE KeyInv(j)'
    <3>1. CASE j = k
      BY <1>1, <3>1 DEF Claim, Claimable
    <3>2. CASE j # k
      BY <1>1, <3>2 DEF Claim
    <3> QED BY <3>1, <3>2
  <2> QED BY <2>1, <2>2
<1>2. ASSUME NEW a \in Actors, NEW k \in Keys, Succeed(a, k) PROVE IndInv'
  <2>1. TypeOK'
    BY <1>2 DEF Succeed
  <2>2. ASSUME NEW j \in Keys \ forgotten' PROVE KeyInv(j)'
    <3>1. CASE j = k
      BY <1>2, <3>1 DEF Succeed
    <3>2. CASE j # k
      BY <1>2, <3>2 DEF Succeed
    <3> QED BY <3>1, <3>2
  <2> QED BY <2>1, <2>2
<1>3. ASSUME NEW a \in Actors, NEW k \in Keys, MarkSucceeded(a, k)
      PROVE  IndInv'
  BY <1>3 DEF MarkSucceeded
<1>4. ASSUME NEW a \in Actors, NEW k \in Keys, MarkFailed(a, k)
      PROVE  IndInv'
  BY <1>4 DEF MarkFailed
<1>5. ASSUME NEW K \in SUBSET Keys, Forget(K) PROVE IndInv'
  BY <1>5 DEF Forget
<1>6. ASSUME NEW A \in SUBSET Actors, Die(A) PROVE IndInv'
  BY <1>6 DEF Die
<1>7. CASE UNCHANGED vars
  BY <1>7 DEF vars
<1> QED
  BY <1>1, <1>2, <1>3, <1>4, <1>5, <1>6, <1>7 DEF Next

(***************************************************************************)
(* Whatever the callers do, and however they die, the action of a key that *)
(* the ledger has not forgotten succeeds at most once and is never run by  *)
(* two callers at the same time.                                           *)
(***************************************************************************)
THEOREM AtomicSafety == Spec => [](AtMostOnce /\ ExclusiveRun)
<1>1. IndInv => AtMostOnce /\ ExclusiveRun
  BY DEF IndInv, KeyInv, AtMostOnce, ExclusiveRun, Claims
<1> QED
  BY <1>1, AtomicInit, AtomicStep, PTL DEF Spec

=============================================================================
