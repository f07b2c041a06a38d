-------------------------- MODULE ApprovalsProofs --------------------------
(***************************************************************************)
(* Proofs about Approvals, for every number of threads, processes and      *)
(* approvals, in both regimes (orderly or concurrent with crashes) and     *)
(* with and without autoclean.                                             *)
(***************************************************************************)
EXTENDS Approvals, FiniteSetTheorems, TLAPS

-----------------------------------------------------------------------------
(* The workflow uses the ledger only through its operations.               *)

(***************************************************************************)
(* Every step of the workflow is a step of the ledger or leaves it alone.  *)
(***************************************************************************)
LEMMA LedgerStep ==
    req \in [Actors -> Requests] /\ [Next]_vars => [Ledger!Next]_(Ledger!vars)
<1> SUFFICES ASSUME req \in [Actors -> Requests], [Next]_vars
             PROVE  [Ledger!Next]_(Ledger!vars)
  OBVIOUS
<1> USE DEF Requests, Ledger!vars, ledgerVars, Quiet, Move, Goto, Finish, Decide
<1>1. ASSUME NEW a \in Actors, NEW op \in Ops, NEW i \in Ids, Begin(a, op, i)
      PROVE  [Ledger!Next]_(Ledger!vars)
  BY <1>1 DEF Begin, FirstPhase, Ops, RequestOf
<1>2. ASSUME NEW a \in Actors, GetRefused(a) PROVE [Ledger!Next]_(Ledger!vars)
  BY <1>2 DEF GetRefused
<1>3. ASSUME NEW a \in Actors, GetPending(a) PROVE [Ledger!Next]_(Ledger!vars)
  BY <1>3 DEF GetPending
<1>4. ASSUME NEW a \in Actors, ApproveSafeMode(a) PROVE [Ledger!Next]_(Ledger!vars)
  BY <1>4 DEF ApproveSafeMode
<1>5. ASSUME NEW a \in Actors, ApproveNotSafeMode(a) PROVE [Ledger!Next]_(Ledger!vars)
  BY <1>5 DEF ApproveNotSafeMode
<1>6. ASSUME NEW a \in Actors, Expired(a) PROVE [Ledger!Next]_(Ledger!vars)
  BY <1>6 DEF Expired
<1>7. ASSUME NEW a \in Actors, ApproveNotExpired(a) PROVE [Ledger!Next]_(Ledger!vars)
  BY <1>7 DEF ApproveNotExpired
<1>8. ASSUME NEW a \in Actors, RejectNotExpired(a) PROVE [Ledger!Next]_(Ledger!vars)
  BY <1>8 DEF RejectNotExpired
<1>9. ASSUME NEW a \in Actors, ApprovePolicyDenied(a) PROVE [Ledger!Next]_(Ledger!vars)
  BY <1>9 DEF ApprovePolicyDenied
<1>10. ASSUME NEW a \in Actors, ApprovePolicyAllowed(a) PROVE [Ledger!Next]_(Ledger!vars)
  BY <1>10 DEF ApprovePolicyAllowed
<1>11. ASSUME NEW a \in Actors, ApproveClaims(a) PROVE [Ledger!Next]_(Ledger!vars)
  BY <1>11 DEF ApproveClaims, Ledger!Next
<1>12. ASSUME NEW a \in Actors, ApproveDuplicate(a) PROVE [Ledger!Next]_(Ledger!vars)
  BY <1>12 DEF ApproveDuplicate
<1>13. ASSUME NEW a \in Actors, ExecPolicyDenied(a) PROVE [Ledger!Next]_(Ledger!vars)
  BY <1>13 DEF ExecPolicyDenied
<1>14. ASSUME NEW a \in Actors, ExecPolicyAllowed(a) PROVE [Ledger!Next]_(Ledger!vars)
  BY <1>14 DEF ExecPolicyAllowed
<1>15. ASSUME NEW a \in Actors, ExecSafeMode(a) PROVE [Ledger!Next]_(Ledger!vars)
  BY <1>15 DEF ExecSafeMode
<1>16. ASSUME NEW a \in Actors, ExecNotSafeMode(a) PROVE [Ledger!Next]_(Ledger!vars)
  BY <1>16 DEF ExecNotSafeMode
<1>17. ASSUME NEW a \in Actors, SkillSucceeds(a) PROVE [Ledger!Next]_(Ledger!vars)
  BY <1>17 DEF SkillSucceeds, Ledger!Next
<1>18. ASSUME NEW a \in Actors, SkillRaises(a) PROVE [Ledger!Next]_(Ledger!vars)
  BY <1>18 DEF SkillRaises
<1>19. ASSUME NEW a \in Actors, Mark(a) PROVE [Ledger!Next]_(Ledger!vars)
  BY <1>19 DEF Mark, Ledger!Next
<1>20. ASSUME NEW a \in Actors, CreateSafeMode(a) PROVE [Ledger!Next]_(Ledger!vars)
  BY <1>20 DEF CreateSafeMode
<1>21. ASSUME NEW a \in Actors, CreateNotSafeMode(a) PROVE [Ledger!Next]_(Ledger!vars)
  BY <1>21 DEF CreateNotSafeMode
<1>22. ASSUME NEW a \in Actors, CreatePolicyDenied(a) PROVE [Ledger!Next]_(Ledger!vars)
  BY <1>22 DEF CreatePolicyDenied
<1>23. ASSUME NEW a \in Actors, CreatePolicyAllowed(a) PROVE [Ledger!Next]_(Ledger!vars)
  BY <1>23 DEF CreatePolicyAllowed
<1>24. ASSUME NEW a \in Actors, Load(a) PROVE [Ledger!Next]_(Ledger!vars)
  BY <1>24 DEF Load
<1>25. ASSUME NEW a \in Actors, NothingExpired(a) PROVE [Ledger!Next]_(Ledger!vars)
  BY <1>25 DEF NothingExpired
<1>26. ASSUME NEW a \in Actors, Truncate(a) PROVE [Ledger!Next]_(Ledger!vars)
  BY <1>26 DEF Truncate
<1>27. ASSUME NEW a \in Actors, Write(a) PROVE [Ledger!Next]_(Ledger!vars)
  BY <1>27 DEF Write
<1>28. CASE SetSafeMode
  BY <1>28 DEF SetSafeMode, Toggle
<1>29. CASE SetScopes
  BY <1>29 DEF SetScopes, Toggle
<1>30. ASSUME NEW i \in Ids, TimePasses(i) PROVE [Ledger!Next]_(Ledger!vars)
  BY <1>30 DEF TimePasses
<1>31. ASSUME NEW h \in Hosts, Crash(h) PROVE [Ledger!Next]_(Ledger!vars)
  <2>1. ThreadsOf(h) \in SUBSET Actors
    BY DEF ThreadsOf
  <2> QED
    BY <1>31, <2>1 DEF Crash, Ledger!Next
<1>32. CASE UNCHANGED vars
  BY <1>32 DEF vars
<1> QED
  BY <1>1, <1>2, <1>3, <1>4, <1>5, <1>6, <1>7, <1>8, <1>9, <1>10, <1>11,
     <1>12, <1>13, <1>14, <1>15, <1>16, <1>17, <1>18, <1>19, <1>20, <1>21,
     <1>22, <1>23, <1>24, <1>25, <1>26, <1>27, <1>28, <1>29, <1>30, <1>31,
     <1>32
     DEF Next, Handle, Execute, Create, Persist

(***************************************************************************)
(* The types of the requests.                                              *)
(***************************************************************************)
RequestTypes ==
    /\ phase \in [Actors -> Phases]
    /\ req \in [Actors -> Requests]
    /\ barred \in [Actors -> SUBSET Reasons]
    /\ safeMode \in BOOLEAN /\ scopeOn \in BOOLEAN

(***************************************************************************)
(* The requests that threads handle are requests.                          *)
(***************************************************************************)
LEMMA RequestOfType ==
    /\ \A op \in Ops, i \in Ids : RequestOf(op, i) \in Requests
    /\ NoRequest \in Requests /\ NoRequest.op = "list" /\ NoRequest.verdict = "pending"
  BY ApprovalsConstants
     DEF RequestOf, NoRequest, Requests, RecordStatuses, Ops

(***************************************************************************)
(* Every step keeps the types of the requests.                             *)
(***************************************************************************)
LEMMA RequestTypesStep == RequestTypes /\ [Next]_vars => RequestTypes'
<1> SUFFICES ASSUME RequestTypes, [Next]_vars PROVE RequestTypes'
  OBVIOUS
<1> USE RequestOfType
    DEF RequestTypes, Requests, Phases, RecordStatuses, Decisions, Reasons,
        Bars, Quiet, Move, Goto, Finish, Decide, Failed, world
<1>1. ASSUME NEW a \in Actors, NEW op \in Ops, NEW i \in Ids, Begin(a, op, i)
      PROVE  RequestTypes'
  BY <1>1 DEF Begin, FirstPhase, Ops, RequestOf
<1>2. ASSUME NEW a \in Actors, GetRefused(a) PROVE RequestTypes'
  BY <1>2 DEF GetRefused
<1>3. ASSUME NEW a \in Actors, GetPending(a) PROVE RequestTypes'
  BY <1>3 DEF GetPending
<1>4. ASSUME NEW a \in Actors, ApproveSafeMode(a) PROVE RequestTypes'
  BY <1>4 DEF ApproveSafeMode
<1>5. ASSUME NEW a \in Actors, ApproveNotSafeMode(a) PROVE RequestTypes'
  BY <1>5 DEF ApproveNotSafeMode
<1>6. ASSUME NEW a \in Actors, Expired(a) PROVE RequestTypes'
  BY <1>6 DEF Expired
<1>7. ASSUME NEW a \in Actors, ApproveNotExpired(a) PROVE RequestTypes'
  BY <1>7 DEF ApproveNotExpired
<1>8. ASSUME NEW a \in Actors, RejectNotExpired(a) PROVE RequestTypes'
  BY <1>8 DEF RejectNotExpired
<1>9. ASSUME NEW a \in Actors, ApprovePolicyDenied(a) PROVE RequestTypes'
  BY <1>9 DEF ApprovePolicyDenied
<1>10. ASSUME NEW a \in Actors, ApprovePolicyAllowed(a) PROVE RequestTypes'
  BY <1>10 DEF ApprovePolicyAllowed
<1>11. ASSUME NEW a \in Actors, ApproveClaims(a) PROVE RequestTypes'
  BY <1>11 DEF ApproveClaims
<1>12. ASSUME NEW a \in Actors, ApproveDuplicate(a) PROVE RequestTypes'
  BY <1>12 DEF ApproveDuplicate
<1>13. ASSUME NEW a \in Actors, ExecPolicyDenied(a) PROVE RequestTypes'
  <2>1. CASE req[a].op = "approve"
    BY <1>13, <2>1 DEF ExecPolicyDenied
  <2>2. CASE req[a].op # "approve"
    BY <1>13, <2>2 DEF ExecPolicyDenied
  <2> QED
    BY <2>1, <2>2
<1>14. ASSUME NEW a \in Actors, ExecPolicyAllowed(a) PROVE RequestTypes'
  BY <1>14 DEF ExecPolicyAllowed
<1>15. ASSUME NEW a \in Actors, ExecSafeMode(a) PROVE RequestTypes'
  <2>1. CASE req[a].op = "approve"
    BY <1>15, <2>1 DEF ExecSafeMode
  <2>2. CASE req[a].op # "approve"
    BY <1>15, <2>2 DEF ExecSafeMode
  <2> QED
    BY <2>1, <2>2
<1>16. ASSUME NEW a \in Actors, ExecNotSafeMode(a) PROVE RequestTypes'
  BY <1>16 DEF ExecNotSafeMode
<1>17. ASSUME NEW a \in Actors, SkillSucceeds(a) PROVE RequestTypes'
  BY <1>17 DEF SkillSucceeds
<1>18. ASSUME NEW a \in Actors, SkillRaises(a) PROVE RequestTypes'
  BY <1>18 DEF SkillRaises
<1>19. ASSUME NEW a \in Actors, Mark(a) PROVE RequestTypes'
  BY <1>19 DEF Mark
<1>20. ASSUME NEW a \in Actors, CreateSafeMode(a) PROVE RequestTypes'
  BY <1>20 DEF CreateSafeMode
<1>21. ASSUME NEW a \in Actors, CreateNotSafeMode(a) PROVE RequestTypes'
  BY <1>21 DEF CreateNotSafeMode
<1>22. ASSUME NEW a \in Actors, CreatePolicyDenied(a) PROVE RequestTypes'
  BY <1>22 DEF CreatePolicyDenied
<1>23. ASSUME NEW a \in Actors, CreatePolicyAllowed(a) PROVE RequestTypes'
  BY <1>23 DEF CreatePolicyAllowed
<1>24. ASSUME NEW a \in Actors, Load(a) PROVE RequestTypes'
  BY <1>24 DEF Load
<1>25. ASSUME NEW a \in Actors, NothingExpired(a) PROVE RequestTypes'
  BY <1>25 DEF NothingExpired
<1>26. ASSUME NEW a \in Actors, Truncate(a) PROVE RequestTypes'
  BY <1>26 DEF Truncate
<1>27. ASSUME NEW a \in Actors, Write(a) PROVE RequestTypes'
  BY <1>27 DEF Write
<1>28. CASE SetSafeMode
  BY <1>28 DEF SetSafeMode, Toggle
<1>29. CASE SetScopes
  BY <1>29 DEF SetScopes, Toggle
<1>30. ASSUME NEW i \in Ids, TimePasses(i) PROVE RequestTypes'
  BY <1>30 DEF TimePasses
<1>31. ASSUME NEW h \in Hosts, Crash(h) PROVE RequestTypes'
  BY <1>31 DEF Crash
<1>32. CASE UNCHANGED vars
  BY <1>32 DEF vars
<1> QED
  BY <1>1, <1>2, <1>3, <1>4, <1>5, <1>6, <1>7, <1>8, <1>9, <1>10, <1>11,
     <1>12, <1>13, <1>14, <1>15, <1>16, <1>17, <1>18, <1>19, <1>20, <1>21,
     <1>22, <1>23, <1>24, <1>25, <1>26, <1>27, <1>28, <1>29, <1>30, <1>31,
     <1>32
     DEF Next, Handle, Execute, Create, Persist

(***************************************************************************)
(* The requests have their types in every reachable state.                 *)
(***************************************************************************)
THEOREM RequestsTypeCorrect == Spec => []RequestTypes
<1>1. Init => RequestTypes
  BY RequestOfType DEF Init, RequestTypes, Phases
<1> QED
  BY <1>1, RequestTypesStep, PTL DEF Spec

(***************************************************************************)
(* The workflow is a client of the ledger: what it does to the ledger is   *)
(* what the atomic table allows.                                           *)
(***************************************************************************)
THEOREM ApprovalsUseLedger == Spec => Ledger!Spec
<1>1. RequestTypes => req \in [Actors -> Requests]
  BY DEF RequestTypes
<1>2. Init => Ledger!Init
  BY DEF Init
<1> QED
  BY <1>1, <1>2, LedgerStep, RequestsTypeCorrect, PTL DEF Spec, Ledger!Spec

(***************************************************************************)
(* No approval's key is evicted from the ledger in this model.             *)
(***************************************************************************)
LEMMA NothingForgotten == Spec => [](forgotten = {})
<1>1. Init => forgotten = {}
  BY DEF Init, Ledger!Init
<1>2. forgotten = {} /\ [Next]_vars => (forgotten = {})'
  <2> SUFFICES ASSUME forgotten = {}, [Next]_vars PROVE forgotten' = {}
    BY SMTT(30)
  <2>1. [Next]_vars => UNCHANGED forgotten
    BY DEF Next, Begin, Handle, Execute, Create, Persist, vars, ledgerVars,
           GetRefused, GetPending, ApproveSafeMode, ApproveNotSafeMode,
           Expired, ApproveNotExpired, RejectNotExpired, ApprovePolicyDenied,
           ApprovePolicyAllowed, ApproveClaims, ApproveDuplicate,
           ExecPolicyDenied, ExecPolicyAllowed, ExecSafeMode, ExecNotSafeMode,
           SkillSucceeds, SkillRaises, Mark, CreateSafeMode,
           CreateNotSafeMode, CreatePolicyDenied, CreatePolicyAllowed, Load,
           NothingExpired, Truncate, Write, SetSafeMode, SetScopes, Toggle,
           TimePasses, Crash, Quiet, Ledger!Claim, Ledger!Succeed,
           Ledger!MarkSucceeded, Ledger!MarkFailed, Ledger!Die
  <2> QED
    BY <2>1
<1> QED
  BY <1>1, <1>2, PTL DEF Spec

(***************************************************************************)
(* The write tool of an approval succeeds at most once, for any number of  *)
(* threads racing for any number of approvals, whatever rewrite of the     *)
(* store is lost and whenever a process dies.                              *)
(***************************************************************************)
THEOREM ApprovalExecutesAtMostOnce == Spec => []ExecutesAtMostOnce
<1>1. Ledger!Spec => [](Ledger!AtMostOnce /\ Ledger!ExclusiveRun)
  BY Ledger!AtomicSafety
<1>2. forgotten = {} /\ Ledger!AtMostOnce => ExecutesAtMostOnce
  BY DEF Ledger!AtMostOnce, ExecutesAtMostOnce
<1> QED
  BY <1>1, <1>2, ApprovalsUseLedger, NothingForgotten, PTL

-----------------------------------------------------------------------------
(* Safe mode and disabled scopes.                                          *)

Persisting == {"load", "truncate", "write"}

\* How far a request gets while safe mode is on, or the scopes are off.
PathInv(a) ==
    /\ barred[a] \subseteq Bars(safeMode, scopeOn)
    /\ phase[a] = "idle" => barred[a] = {}
    /\ req[a].op = "list" => phase[a] \in {"idle"} \cup Persisting
                             /\ req[a].verdict = "pending"
    /\ req[a].op = "reject" =>
          \/ phase[a] \in {"idle", "get", "expiry"}
          \/ phase[a] \in Persisting /\ req[a].verdict \in {"expired", "rejected"}
    /\ "safe_mode" \in barred[a] =>
          /\ req[a].op = "approve" => phase[a] \in {"get", "safe"}
          /\ req[a].op = "chat" => phase[a] \in {"exec_scope", "exec_safe"}
          /\ req[a].op = "propose" => phase[a] = "create_safe"
    /\ "scope" \in barred[a] =>
          /\ req[a].op = "approve" =>
                \/ phase[a] \in {"get", "safe", "expiry", "policy"}
                \/ phase[a] \in Persisting
                   /\ req[a].verdict \in {"expired", "rejected"}
          /\ req[a].op = "chat" => phase[a] = "exec_scope"
          /\ req[a].op = "propose" => phase[a] \in {"create_safe", "create_scope"}

BarredInv == RequestTypes /\ \A a \in Actors : PathInv(a)

(***************************************************************************)
(* Every step keeps every request on its path.                             *)
(***************************************************************************)
LEMMA BarredStep == BarredInv /\ [Next]_vars => BarredInv'
<1> SUFFICES ASSUME BarredInv, [Next]_vars, RequestTypes'
             PROVE  (\A b \in Actors : PathInv(b))'
  BY RequestTypesStep DEF BarredInv
<1> USE RequestOfType
    DEF BarredInv, PathInv, RequestTypes, Requests, Bars, Persisting, Quiet,
        Move, Goto, Finish, Decide, Failed, world
<1>1. ASSUME NEW a \in Actors, NEW op \in Ops, NEW i \in Ids, Begin(a, op, i)
      PROVE  (\A b \in Actors : PathInv(b))'
  BY <1>1 DEF Begin, FirstPhase, Ops, RequestOf
<1>2. ASSUME NEW a \in Actors, GetRefused(a) PROVE (\A b \in Actors : PathInv(b))'
  BY <1>2 DEF GetRefused
<1>3. ASSUME NEW a \in Actors, GetPending(a) PROVE (\A b \in Actors : PathInv(b))'
  BY <1>3 DEF GetPending
<1>4. ASSUME NEW a \in Actors, ApproveSafeMode(a) PROVE (\A b \in Actors : PathInv(b))'
  BY <1>4 DEF ApproveSafeMode
<1>5. ASSUME NEW a \in Actors, ApproveNotSafeMode(a) PROVE (\A b \in Actors : PathInv(b))'
  BY <1>5 DEF ApproveNotSafeMode
<1>6. ASSUME NEW a \in Actors, Expired(a) PROVE (\A b \in Actors : PathInv(b))'
  BY <1>6 DEF Expired
<1>7. ASSUME NEW a \in Actors, ApproveNotExpired(a) PROVE (\A b \in Actors : PathInv(b))'
  BY <1>7 DEF ApproveNotExpired
<1>8. ASSUME NEW a \in Actors, RejectNotExpired(a) PROVE (\A b \in Actors : PathInv(b))'
  BY <1>8 DEF RejectNotExpired
<1>9. ASSUME NEW a \in Actors, ApprovePolicyDenied(a) PROVE (\A b \in Actors : PathInv(b))'
  BY <1>9 DEF ApprovePolicyDenied
<1>10. ASSUME NEW a \in Actors, ApprovePolicyAllowed(a) PROVE (\A b \in Actors : PathInv(b))'
  BY <1>10 DEF ApprovePolicyAllowed
<1>11. ASSUME NEW a \in Actors, ApproveClaims(a) PROVE (\A b \in Actors : PathInv(b))'
  BY <1>11 DEF ApproveClaims
<1>12. ASSUME NEW a \in Actors, ApproveDuplicate(a) PROVE (\A b \in Actors : PathInv(b))'
  BY <1>12 DEF ApproveDuplicate
<1>13. ASSUME NEW a \in Actors, ExecPolicyDenied(a) PROVE (\A b \in Actors : PathInv(b))'
  <2>1. CASE req[a].op = "approve"
    BY <1>13, <2>1 DEF ExecPolicyDenied
  <2>2. CASE req[a].op # "approve"
    BY <1>13, <2>2 DEF ExecPolicyDenied
  <2> QED
    BY <2>1, <2>2
<1>14. ASSUME NEW a \in Actors, ExecPolicyAllowed(a) PROVE (\A b \in Actors : PathInv(b))'
  BY <1>14 DEF ExecPolicyAllowed
<1>15. ASSUME NEW a \in Actors, ExecSafeMode(a) PROVE (\A b \in Actors : PathInv(b))'
  <2>1. CASE req[a].op = "approve"
    BY <1>15, <2>1 DEF ExecSafeMode
  <2>2. CASE req[a].op # "approve"
    BY <1>15, <2>2 DEF ExecSafeMode
  <2> QED
    BY <2>1, <2>2
<1>16. ASSUME NEW a \in Actors, ExecNotSafeMode(a) PROVE (\A b \in Actors : PathInv(b))'
  BY <1>16 DEF ExecNotSafeMode
<1>17. ASSUME NEW a \in Actors, SkillSucceeds(a) PROVE (\A b \in Actors : PathInv(b))'
  BY <1>17 DEF SkillSucceeds
<1>18. ASSUME NEW a \in Actors, SkillRaises(a) PROVE (\A b \in Actors : PathInv(b))'
  BY <1>18 DEF SkillRaises
<1>19. ASSUME NEW a \in Actors, Mark(a) PROVE (\A b \in Actors : PathInv(b))'
  BY <1>19 DEF Mark
<1>20. ASSUME NEW a \in Actors, CreateSafeMode(a) PROVE (\A b \in Actors : PathInv(b))'
  BY <1>20 DEF CreateSafeMode
<1>21. ASSUME NEW a \in Actors, CreateNotSafeMode(a) PROVE (\A b \in Actors : PathInv(b))'
  BY <1>21 DEF CreateNotSafeMode
<1>22. ASSUME NEW a \in Actors, CreatePolicyDenied(a) PROVE (\A b \in Actors : PathInv(b))'
  BY <1>22 DEF CreatePolicyDenied
<1>23. ASSUME NEW a \in Actors, CreatePolicyAllowed(a) PROVE (\A b \in Actors : PathInv(b))'
  BY <1>23 DEF CreatePolicyAllowed
<1>24. ASSUME NEW a \in Actors, Load(a) PROVE (\A b \in Actors : PathInv(b))'
  BY <1>24 DEF Load
<1>25. ASSUME NEW a \in Actors, NothingExpired(a) PROVE (\A b \in Actors : PathInv(b))'
  BY <1>25 DEF NothingExpired
<1>26. ASSUME NEW a \in Actors, Truncate(a) PROVE (\A b \in Actors : PathInv(b))'
  BY <1>26 DEF Truncate
<1>27. ASSUME NEW a \in Actors, Write(a) PROVE (\A b \in Actors : PathInv(b))'
  BY <1>27 DEF Write
<1>28. CASE SetSafeMode
  BY <1>28 DEF SetSafeMode, Toggle
<1>29. CASE SetScopes
  BY <1>29 DEF SetScopes, Toggle
<1>30. ASSUME NEW i \in Ids, TimePasses(i) PROVE (\A b \in Actors : PathInv(b))'
  BY <1>30 DEF TimePasses
<1>31. ASSUME NEW h \in Hosts, Crash(h) PROVE (\A b \in Actors : PathInv(b))'
  BY <1>31 DEF Crash
<1>32. CASE UNCHANGED vars
  BY <1>32 DEF vars
<1> QED
  BY <1>1, <1>2, <1>3, <1>4, <1>5, <1>6, <1>7, <1>8, <1>9, <1>10, <1>11,
     <1>12, <1>13, <1>14, <1>15, <1>16, <1>17, <1>18, <1>19, <1>20, <1>21,
     <1>22, <1>23, <1>24, <1>25, <1>26, <1>27, <1>28, <1>29, <1>30, <1>31,
     <1>32
     DEF Next, Handle, Execute, Create, Persist

(***************************************************************************)
(* Initially every thread is idle, and no request has met a bar.           *)
(***************************************************************************)
LEMMA BarredStart == Init => BarredInv
<1>1. Init => RequestTypes
  BY RequestOfType DEF Init, RequestTypes, Phases
<1>2. Init => \A a \in Actors : PathInv(a)
  BY RequestOfType DEF Init, PathInv, NoRequest, RequestOf
<1> QED
  BY <1>1, <1>2 DEF BarredInv

(***************************************************************************)
(* A request during which safe mode has been on, or the scopes disabled,   *)
(* from its beginning executes nothing, claims nothing and stores no new   *)
(* approval, whatever the other requests and the operator do.              *)
(***************************************************************************)
THEOREM SafeModeAndScopesBar == Spec => []BarredRequestWritesNothing
<1>1. Init => BarredInv
  BY BarredStart
<1>2. BarredInv => BarredRequestWritesNothing
  <2> SUFFICES ASSUME BarredInv, NEW a \in Actors, barred[a] # {}
               PROVE  /\ phase[a] \notin WritePath
                      /\ phase[a] \in Persisting =>
                            /\ req[a].op \notin {"chat", "propose"}
                            /\ req[a].verdict # "approved"
    BY DEF BarredRequestWritesNothing, Persisting
  <2>1. "safe_mode" \in barred[a] \/ "scope" \in barred[a]
    BY DEF BarredInv, RequestTypes, Reasons
  <2>2. req[a].op \in Ops
    BY DEF BarredInv, RequestTypes, Requests
  <2> QED
    BY <2>1, <2>2 DEF BarredInv, PathInv, Ops, WritePath, Persisting
<1> QED
  BY <1>1, <1>2, BarredStep, PTL DEF Spec

-----------------------------------------------------------------------------
(* The store and its types.                                                *)

\* What RequestTypes leaves of the types.
StoreTypes ==
    /\ store \in Files
    /\ due \subseteq Ids
    /\ snap \in [Actors -> Files]
    /\ requests \in 0..MaxRequests
    /\ toggles \in 0..MaxToggles
    /\ crashes \in 0..MaxCrashes
    /\ orderly \in Regimes /\ autoClean \in AutoCleans
    /\ created \subseteq Ids
    /\ answered \in [Ids -> SUBSET RecordStatuses]

(***************************************************************************)
(* What upsert, delete and cleanup_expired are about to write is a store,  *)
(* and so is whatever mix of two texts a rewrite leaves behind.            *)
(***************************************************************************)
LEMMA StoreTypesStep ==
    RequestTypes /\ StoreTypes /\ [Next]_vars => StoreTypes'
<1> SUFFICES ASSUME RequestTypes, StoreTypes, [Next]_vars PROVE StoreTypes'
  OBVIOUS
<1>0. /\ EmptyFile \in Files
      /\ \A v \in RecordStatuses : Stored(v) \in RecordStatuses \cup {"absent"}
      /\ \A a \in Actors : req[a].id \in Ids /\ req[a].verdict \in RecordStatuses
      /\ MaxRequests \in Nat /\ MaxToggles \in Nat /\ MaxCrashes \in Nat
  BY ApprovalsConstants DEF EmptyFile, Files, Stored, RequestTypes, Requests
<1>f. \A n \in Nat : \A c \in 0..n : c < n => c + 1 \in 0..n
  OBVIOUS
<1>1. ASSUME NEW a \in Actors, NEW op \in Ops, NEW i \in Ids, Begin(a, op, i)
      PROVE  StoreTypes'
  BY <1>0, <1>f, <1>1 DEF Begin, StoreTypes, world, config
<1>2. ASSUME NEW a \in Actors, Handle(a) PROVE StoreTypes'
  BY <1>2 DEF StoreTypes, Handle, GetRefused, GetPending, ApproveSafeMode,
     ApproveNotSafeMode, Expired, ApproveNotExpired, RejectNotExpired,
     ApprovePolicyDenied, ApprovePolicyAllowed, ApproveClaims,
     ApproveDuplicate, Quiet, world, counters, config, ghosts
<1>3. ASSUME NEW a \in Actors, Execute(a) \/ Create(a) PROVE StoreTypes'
  BY <1>3 DEF StoreTypes, Execute, Create, ExecPolicyDenied,
     ExecPolicyAllowed, ExecSafeMode, ExecNotSafeMode, SkillSucceeds,
     SkillRaises, Mark, CreateSafeMode, CreateNotSafeMode,
     CreatePolicyDenied, CreatePolicyAllowed, Quiet, world, counters, config,
     ghosts
<1>4. ASSUME NEW a \in Actors, Load(a) PROVE StoreTypes'
  <2>1. Rewritten(a) \in Files
    <3>1. CASE req[a].op = "list"
      BY <1>0, <3>1 DEF Rewritten, StoreTypes, Files, RecordStatuses, Decisions
    <3>2. CASE req[a].op # "list"
      BY <1>0, <3>2 DEF Rewritten, StoreTypes, Files
    <3> QED
      BY <3>1, <3>2
  <2> QED
    BY <1>4, <2>1 DEF Load, StoreTypes, world, counters, config, ghosts
<1>5. ASSUME NEW a \in Actors, NothingExpired(a) PROVE StoreTypes'
  BY <1>5 DEF NothingExpired, Quiet, StoreTypes, world, counters, config, ghosts
<1>6. ASSUME NEW a \in Actors, Truncate(a) PROVE StoreTypes'
  BY <1>0, <1>6 DEF Truncate, StoreTypes, world, counters, config, ghosts
<1>7. ASSUME NEW a \in Actors, Write(a) PROVE StoreTypes'
  <2>1. store' \in Files
    BY <1>7 DEF Write, StoreTypes, Files
  <2>2. created' \subseteq Ids
    BY <1>0, <1>7 DEF Write, StoreTypes
  <2>3. answered' \in [Ids -> SUBSET RecordStatuses]
    BY <1>0, <1>7 DEF Write, StoreTypes
  <2>4. snap' \in [Actors -> Files]
    BY <1>0, <1>7 DEF Write, StoreTypes
  <2> QED
    BY <1>7, <2>1, <2>2, <2>3, <2>4 DEF Write, StoreTypes, world, counters, config
<1>8. CASE SetSafeMode \/ SetScopes
  BY <1>0, <1>f, <1>8 DEF SetSafeMode, SetScopes, Toggle, StoreTypes, config, ghosts
<1>9. ASSUME NEW i \in Ids, TimePasses(i) PROVE StoreTypes'
  BY <1>9 DEF TimePasses, StoreTypes, counters, config, ghosts
<1>10. ASSUME NEW h \in Hosts, Crash(h) PROVE StoreTypes'
  BY <1>0, <1>f, <1>10 DEF Crash, StoreTypes, world, config, ghosts
<1>11. CASE UNCHANGED vars
  BY <1>11 DEF vars, StoreTypes, world, counters, config, ghosts
<1> QED
  BY <1>1, <1>2, <1>3, <1>4, <1>5, <1>6, <1>7, <1>8, <1>9, <1>10, <1>11
     DEF Next, Persist

(***************************************************************************)
(* Initially the store is empty.                                           *)
(***************************************************************************)
LEMMA StartTypes == Init => RequestTypes /\ StoreTypes
<1>1. Init => RequestTypes
  BY RequestOfType DEF Init, RequestTypes, Phases
<1>2. Init => StoreTypes
  BY ApprovalsConstants DEF Init, StoreTypes, EmptyFile, Files
<1> QED
  BY <1>1, <1>2

(***************************************************************************)
(* Records, requests, the operator's switches and the ledger have the      *)
(* values that service.py, store.py and executor.py give them, in every    *)
(* reachable state.                                                        *)
(***************************************************************************)
THEOREM ApprovalsTypeCorrect == Spec => []TypeOK
<1>1. Ledger!Spec => []Ledger!TypeOK
  <2>1. Ledger!IndInv => Ledger!TypeOK
    BY DEF Ledger!IndInv
  <2> QED
    BY <2>1, Ledger!AtomicInit, Ledger!AtomicStep, PTL DEF Ledger!Spec
<1>2. RequestTypes /\ StoreTypes /\ Ledger!TypeOK => TypeOK
  BY DEF RequestTypes, StoreTypes, TypeOK
<1> QED
  BY <1>1, <1>2, StartTypes, RequestTypesStep, StoreTypesStep,
     ApprovalsUseLedger, PTL DEF Spec

-----------------------------------------------------------------------------
(* Requests that come one at a time.                                       *)

Answering(a) == phase[a] # "idle" /\ req[a].op \in {"approve", "reject"}
Creating(a) == phase[a] # "idle" /\ req[a].op \in {"chat", "propose"}

Untouched(i) == done[i] = 0 /\ status[i] = "none"

\* A text of approvals.jsonl says of an approval what callers were told.
Agrees(f, i) ==
    /\ answered[i] = {} => (f[i] = "pending" \/ i \in due)
    /\ answered[i] # {} => (f[i] = "absent" \/ {f[i]} = answered[i])

\* Effects and answers of an approval that no request is working on.
Consistent(i) ==
    /\ answered[i] = {} => Untouched(i)
    /\ done[i] # 0 => answered[i] = {"approved"}

Alone ==
    \A a, b \in Actors : phase[a] # "idle" /\ phase[b] # "idle" => a = b

ApprovalInv(i) ==
    /\ answered[i] = {} \/ \E v \in Decisions : answered[i] = {v}
    /\ i \notin created => answered[i] = {}
    /\ (\A a \in Actors : ~(Answering(a) /\ req[a].id = i)) => Consistent(i)
    /\ i \in created /\ (\A a \in Actors : phase[a] # "write") => Agrees(store, i)

\* How far the only request in flight has come.
AnswerInv(a) ==
    /\ req[a].id \in created
    /\ phase[a] \notin {"create_safe", "create_scope"}
    /\ phase[a] # "get" => answered[req[a].id] = {}
    /\ phase[a] \in {"get", "safe", "expiry", "policy", "claim"} =>
          Consistent(req[a].id)
    /\ phase[a] \in {"exec_scope", "exec_safe", "skill"} => done[req[a].id] = 0
    /\ phase[a] \in Persisting =>
          /\ req[a].verdict \in Decisions
          /\ done[req[a].id] # 0 => req[a].verdict = "approved"

CreateInv(a) ==
    /\ req[a].id \notin created
    /\ req[a].verdict = "pending"
    /\ phase[a] \in {"exec_scope", "exec_safe", "create_safe", "create_scope"}
                      \cup Persisting

RewriteInv(a) ==
    /\ \A i \in created :
          req[a].op = "list" \/ i # req[a].id => Agrees(snap[a], i)
    /\ req[a].op # "list" => snap[a][req[a].id] = Stored(req[a].verdict)

ThreadInv(a) ==
    /\ Answering(a) => AnswerInv(a)
    /\ Creating(a) => CreateInv(a)
    /\ phase[a] \in {"truncate", "write"} => RewriteInv(a)
    /\ phase[a] = "write" => store = EmptyFile

OrderlyInv ==
    orderly => /\ Alone
               /\ \A i \in Ids : ApprovalInv(i)
               /\ \A a \in Actors : ThreadInv(a)

OrderlyBase == BarredInv /\ StoreTypes /\ Ledger!TypeOK

(***************************************************************************)
(* A step of the only request in flight that touches no approval but its   *)
(* own, and is not its last access to the store, keeps the invariant if    *)
(* it leaves the request in order, or ends it with its approval consistent.*)
(***************************************************************************)
LEMMA OrderlyGoto ==
    ASSUME OrderlyBase, orderly, OrderlyInv, NEW a \in Actors, NEW to,
           phase[a] \notin {"idle", "write"},
           phase' = [phase EXCEPT ![a] = to],
           to # "idle" => req'[a].op = req[a].op /\ req'[a].id = req[a].id,
           to = "write" \/ UNCHANGED store,
           UNCHANGED <<due, created, answered, autoClean>>,
           \A i \in Ids : i # req[a].id \/ ~Answering(a) =>
               done'[i] = done[i] /\ status'[i] = status[i],
           to = "idle" /\ Answering(a) =>
               \A i \in Ids : i = req[a].id => Consistent(i)',
           to # "idle" => ThreadInv(a)'
    PROVE  OrderlyInv'
<1>0. /\ phase \in [Actors -> Phases] /\ \A b \in Actors : req[b].id \in Ids
      /\ \A b \in Actors : b # a => phase[b] = "idle" /\ phase'[b] = "idle"
      /\ phase'[a] = to
  BY DEF OrderlyBase, BarredInv, RequestTypes, Requests, OrderlyInv, Alone
<1>1. Alone'
  BY <1>0 DEF Alone
<1>2. ASSUME NEW i \in Ids PROVE ApprovalInv(i)'
  <2>1. ApprovalInv(i)
    BY DEF OrderlyInv
  <2>2. /\ answered'[i] = {} \/ \E v \in Decisions : answered'[i] = {v}
        /\ i \notin created' => answered'[i] = {}
    BY <2>1 DEF ApprovalInv
  <2>3. ASSUME \A b \in Actors : ~(Answering(b)' /\ req'[b].id = i)
        PROVE  Consistent(i)'
    <3>1. CASE Answering(a) /\ req[a].id = i
      <4>1. to = "idle"
        BY <1>0, <2>3, <3>1 DEF Answering
      <4> QED
        BY <3>1, <4>1
    <3>2. CASE ~(Answering(a) /\ req[a].id = i)
      <4>1. Consistent(i)
        BY <1>0, <2>1, <3>2 DEF ApprovalInv, Answering
      <4>2. done'[i] = done[i] /\ status'[i] = status[i]
        BY <3>2
      <4> QED
        BY <4>1, <4>2 DEF Consistent, Untouched
    <3> QED
      BY <3>1, <3>2
  <2>4. ASSUME i \in created', \A b \in Actors : phase'[b] # "write"
        PROVE  Agrees(store, i)'
    <3>1. to # "write" /\ Agrees(store, i)
      BY <1>0, <2>1, <2>4 DEF ApprovalInv
    <3> QED
      BY <3>1 DEF Agrees
  <2> QED
    BY <2>2, <2>3, <2>4 DEF ApprovalInv
<1>3. ASSUME NEW b \in Actors PROVE ThreadInv(b)'
  <2>1. CASE phase'[b] = "idle"
    BY <2>1 DEF ThreadInv, Answering, Creating
  <2>2. CASE phase'[b] # "idle"
    BY <1>0, <2>2
  <2> QED
    BY <2>1, <2>2
<1> QED
  BY <1>1, <1>2, <1>3 DEF OrderlyInv

(***************************************************************************)
(* A step that leaves the store, the ledger and the answers alone moves    *)
(* its request on to the next check, ends it at a refusal, or decides it.  *)
(***************************************************************************)
LEMMA OrderlyMove ==
    ASSUME OrderlyBase, orderly, OrderlyInv, NEW a \in Actors, NEW to,
           phase[a] \notin {"idle", "write"}, to \notin {"truncate", "write"},
           phase' = [phase EXCEPT ![a] = to],
           to # "idle" => req'[a].op = req[a].op /\ req'[a].id = req[a].id,
           UNCHANGED <<store, due, created, answered, autoClean, done, status>>,
           to = "idle" /\ Answering(a) => Consistent(req[a].id),
           to # "idle" /\ Answering(a) => AnswerInv(a)',
           to # "idle" /\ Creating(a) => CreateInv(a)'
    PROVE  OrderlyInv'
<1>0. phase \in [Actors -> Phases] /\ phase'[a] = to
  BY DEF OrderlyBase, BarredInv, RequestTypes
<1>1. to = "idle" /\ Answering(a) =>
         \A i \in Ids : i = req[a].id => Consistent(i)'
  BY DEF Consistent, Untouched
<1>2. to # "idle" => ThreadInv(a)'
  BY <1>0 DEF ThreadInv, Answering, Creating
<1> QED
  BY <1>1, <1>2, OrderlyGoto

(***************************************************************************)
(* approve and reject, up to their decision.                               *)
(***************************************************************************)
LEMMA OrderlyHandle ==
    ASSUME OrderlyBase, orderly, OrderlyInv, NEW a \in Actors, Handle(a)
    PROVE  OrderlyInv'
<1>0. /\ phase \in [Actors -> Phases] /\ req \in [Actors -> Requests]
      /\ req[a].id \in Ids /\ req[a].op \in Ops
  BY DEF OrderlyBase, BarredInv, RequestTypes, Requests
<1>t. /\ ThreadInv(a) /\ PathInv(a) /\ ApprovalInv(req[a].id)
      /\ \A b \in Actors : b # a /\ phase[a] # "idle" => phase[b] = "idle"
  BY <1>0 DEF OrderlyInv, OrderlyBase, BarredInv, Alone
<1>a. ASSUME phase[a] \in {"get", "safe", "expiry", "policy", "claim"}
      PROVE  /\ Answering(a) /\ AnswerInv(a) /\ ~Creating(a)
             /\ Consistent(req[a].id) /\ Agrees(store, req[a].id)
  BY <1>0, <1>t, <1>a
     DEF ThreadInv, Answering, Creating, AnswerInv, CreateInv, PathInv, Ops,
         Persisting, ApprovalInv
<1>q. Quiet => UNCHANGED <<store, due, created, answered, autoClean, done, status>>
  BY DEF Quiet, world, ghosts, config, ledgerVars
<1>1. CASE GetRefused(a)
  BY <1>1, <1>a, <1>q, OrderlyMove DEF GetRefused, Finish, Goto
<1>2. CASE GetPending(a)
  <2> DEFINE to == IF req[a].op = "approve" THEN "safe" ELSE "expiry"
  <2>1. /\ phase[a] = "get" /\ phase' = [phase EXCEPT ![a] = to] /\ req' = req
        /\ store[req[a].id] = "pending" /\ Quiet
    BY <1>2 DEF GetPending, Move, Goto
  <2>2. answered[req[a].id] = {}
    BY <1>a, <1>t, <2>1 DEF Agrees, ApprovalInv, Decisions
  <2>3. AnswerInv(a)'
    BY <1>0, <1>a, <1>q, <2>1, <2>2 DEF AnswerInv, Consistent, Untouched, Persisting
  <2> QED
    BY <1>a, <1>q, <2>1, <2>3, OrderlyMove
<1>3. CASE ApproveSafeMode(a)
  BY <1>3, <1>a, <1>q, OrderlyMove DEF ApproveSafeMode, Finish, Goto
<1>4. ASSUME NEW from \in {"safe", "expiry", "policy"},
             NEW to \in {"expiry", "policy", "claim"},
             Move(a, from, to), Quiet
      PROVE  OrderlyInv'
  <2>1. phase[a] = from /\ phase' = [phase EXCEPT ![a] = to] /\ req' = req
    BY <1>4 DEF Move, Goto
  <2>2. AnswerInv(a)'
    BY <1>0, <1>4, <1>a, <1>q, <2>1 DEF AnswerInv, Consistent, Untouched, Persisting
  <2> QED
    BY <1>4, <1>a, <1>q, <2>1, <2>2, OrderlyMove
<1>5. ASSUME NEW verdict \in Decisions,
             phase[a] \in {"expiry", "policy", "claim"},
             Decide(a, verdict), Quiet
      PROVE  OrderlyInv'
  <2>1. /\ phase' = [phase EXCEPT ![a] = "load"]
        /\ req'[a].op = req[a].op /\ req'[a].id = req[a].id
        /\ req'[a].verdict = verdict
    BY <1>0, <1>5 DEF Decide, Goto, Requests
  <2>2. answered[req[a].id] = {} /\ done[req[a].id] = 0
    BY <1>5, <1>a DEF AnswerInv, Consistent, Untouched
  <2>3. AnswerInv(a)'
    BY <1>0, <1>5, <1>a, <1>q, <2>1, <2>2
       DEF AnswerInv, Consistent, Untouched, Persisting
  <2> QED
    BY <1>5, <1>a, <1>q, <2>1, <2>3, OrderlyMove
<1>6. CASE ApproveClaims(a)
  <2>1. /\ phase[a] = "claim" /\ phase' = [phase EXCEPT ![a] = "exec_scope"]
        /\ req' = req /\ done' = done
        /\ \A i \in Ids : i # req[a].id => status'[i] = status[i]
        /\ UNCHANGED <<store, due, created, answered, autoClean>>
    BY <1>6 DEF ApproveClaims, Move, Goto, Ledger!Claim, OrderlyBase,
                Ledger!TypeOK, world, ghosts, config
  <2>2. answered[req[a].id] = {} /\ done[req[a].id] = 0
    BY <1>a, <2>1 DEF AnswerInv, Consistent, Untouched
  <2>3. ThreadInv(a)'
    BY <1>0, <1>a, <2>1, <2>2
       DEF ThreadInv, AnswerInv, Answering, Creating, Persisting
  <2> QED
    BY <1>a, <2>1, <2>3, OrderlyGoto
<1> QED
  BY <1>1, <1>2, <1>3, <1>4, <1>5, <1>6
     DEF Handle, ApproveNotSafeMode, Expired, ApproveNotExpired,
         RejectNotExpired, ApprovePolicyDenied, ApprovePolicyAllowed,
         ApproveDuplicate, Decisions

(***************************************************************************)
(* The executor: whatever it refuses, runs or fails to run, an approved    *)
(* step ends in a record marked approved.                                  *)
(***************************************************************************)
LEMMA OrderlyExecute ==
    ASSUME OrderlyBase, orderly, OrderlyInv, NEW a \in Actors, Execute(a)
    PROVE  OrderlyInv'
<1>0. /\ phase \in [Actors -> Phases] /\ req \in [Actors -> Requests]
      /\ req[a].id \in Ids /\ req[a].op \in Ops
  BY DEF OrderlyBase, BarredInv, RequestTypes, Requests
<1>t. ThreadInv(a) /\ PathInv(a)
  BY <1>0 DEF OrderlyInv, OrderlyBase, BarredInv
<1>a. ASSUME phase[a] \in {"exec_scope", "exec_safe", "skill", "mark"}
      PROVE  /\ Answering(a) \/ Creating(a)
             /\ Answering(a) <=> req[a].op = "approve"
             /\ Answering(a) => AnswerInv(a) /\ ~Creating(a)
             /\ Creating(a) => CreateInv(a) /\ phase[a] \in {"exec_scope", "exec_safe"}
  BY <1>0, <1>t, <1>a
     DEF ThreadInv, Answering, Creating, CreateInv, PathInv, Ops, Persisting
<1>q. Quiet => UNCHANGED <<store, due, created, answered, autoClean, done, status>>
  BY DEF Quiet, world, ghosts, config, ledgerVars
<1>1. ASSUME phase[a] \in {"exec_scope", "exec_safe", "skill"},
             Failed(a), Quiet
      PROVE  OrderlyInv'
  <2>1. CASE req[a].op = "approve"
    <3>1. phase' = [phase EXCEPT ![a] = "mark"] /\ req' = req
      BY <1>1, <2>1 DEF Failed, Move, Goto
    <3>2. AnswerInv(a)' /\ ~Creating(a)'
      BY <1>0, <1>1, <1>a, <1>q, <2>1, <3>1
         DEF AnswerInv, Persisting, Answering, Creating
    <3> QED
      BY <1>1, <1>a, <1>q, <2>1, <3>1, <3>2, OrderlyMove
  <2>2. CASE req[a].op # "approve"
    <3>1. phase' = [phase EXCEPT ![a] = "idle"] /\ ~Answering(a)
      BY <1>1, <1>a, <2>2 DEF Failed, Finish, Goto
    <3> QED
      BY <1>1, <1>q, <3>1, OrderlyMove
  <2> QED
    BY <2>1, <2>2
<1>2. CASE ExecPolicyAllowed(a)
  <2>1. /\ phase[a] = "exec_scope" /\ phase' = [phase EXCEPT ![a] = "exec_safe"]
        /\ req' = req /\ Quiet
    BY <1>2 DEF ExecPolicyAllowed, Move, Goto
  <2>2. /\ Answering(a) => AnswerInv(a)'
        /\ Creating(a) => CreateInv(a)'
    BY <1>0, <1>a, <1>q, <2>1 DEF AnswerInv, CreateInv, Persisting
  <2> QED
    BY <1>q, <2>1, <2>2, OrderlyMove
<1>3. CASE ExecNotSafeMode(a)
  <2> DEFINE to == IF req[a].op = "approve" THEN "skill" ELSE "create_safe"
  <2>1. /\ phase[a] = "exec_safe" /\ phase' = [phase EXCEPT ![a] = to]
        /\ req' = req /\ Quiet
    BY <1>3 DEF ExecNotSafeMode, Move, Goto
  <2>2. /\ Answering(a) => AnswerInv(a)'
        /\ Creating(a) => CreateInv(a)'
    BY <1>0, <1>a, <1>q, <2>1 DEF AnswerInv, CreateInv, Persisting
  <2> QED
    BY <1>q, <2>1, <2>2, OrderlyMove
<1>4. CASE SkillSucceeds(a)
  <2>1. /\ phase[a] = "skill" /\ phase' = [phase EXCEPT ![a] = "mark"]
        /\ req'[a].op = req[a].op /\ req'[a].id = req[a].id
        /\ \A i \in Ids : i # req[a].id => done'[i] = done[i]
        /\ UNCHANGED <<store, due, created, answered, autoClean, status>>
    BY <1>0, <1>4 DEF SkillSucceeds, Goto, Ledger!Succeed, OrderlyBase,
                      Ledger!TypeOK, Requests, world, ghosts, config
  <2>2. ThreadInv(a)'
    BY <1>0, <1>a, <2>1
       DEF ThreadInv, AnswerInv, Answering, Creating, Persisting
  <2> QED
    BY <1>a, <2>1, <2>2, OrderlyGoto
<1>5. CASE Mark(a)
  <2>1. /\ phase[a] = "mark" /\ phase' = [phase EXCEPT ![a] = "load"]
        /\ req'[a].op = req[a].op /\ req'[a].id = req[a].id
        /\ req'[a].verdict = "approved"
        /\ UNCHANGED <<store, due, created, answered, autoClean>>
    BY <1>0, <1>5 DEF Mark, Decide, Goto, Requests, world, ghosts, config
  <2>2. done' = done /\ \A i \in Ids : i # req[a].id => status'[i] = status[i]
    BY <1>5 DEF Mark, Ledger!MarkSucceeded, Ledger!MarkFailed, OrderlyBase,
                Ledger!TypeOK
  <2>3. ThreadInv(a)'
    BY <1>0, <1>a, <2>1, <2>2
       DEF ThreadInv, AnswerInv, Answering, Creating, Persisting, Decisions
  <2> QED
    BY <1>a, <2>1, <2>2, <2>3, OrderlyGoto
<1>6. CASE SkillRaises(a)
  <2>1. phase[a] = "skill" /\ Failed(a) /\ Quiet
    BY <1>6, <1>a DEF SkillRaises, Failed, Move
  <2> QED
    BY <1>1, <2>1
<1> QED
  BY <1>1, <1>2, <1>3, <1>4, <1>5, <1>6
     DEF Execute, ExecPolicyDenied, ExecSafeMode

(***************************************************************************)
(* create_pending: a new approval reaches the store as pending or not at   *)
(* all.                                                                    *)
(***************************************************************************)
LEMMA OrderlyCreate ==
    ASSUME OrderlyBase, orderly, OrderlyInv, NEW a \in Actors, Create(a)
    PROVE  OrderlyInv'
<1>0. /\ phase \in [Actors -> Phases] /\ req \in [Actors -> Requests]
      /\ req[a].op \in Ops
  BY DEF OrderlyBase, BarredInv, RequestTypes, Requests
<1>a. ASSUME phase[a] \in {"create_safe", "create_scope"}
      PROVE  Creating(a) /\ CreateInv(a) /\ ~Answering(a)
  BY <1>0, <1>a
     DEF OrderlyInv, OrderlyBase, BarredInv, ThreadInv, Answering, Creating,
         AnswerInv, PathInv, Ops, Persisting
<1>q. Quiet => UNCHANGED <<store, due, created, answered, autoClean, done, status>>
  BY DEF Quiet, world, ghosts, config, ledgerVars
<1>1. CASE CreateSafeMode(a) \/ CreatePolicyDenied(a)
  BY <1>1, <1>a, <1>q, OrderlyMove
     DEF CreateSafeMode, CreatePolicyDenied, Finish, Goto
<1>2. ASSUME NEW from \in {"create_safe", "create_scope"},
             NEW to \in {"create_scope", "load"}, Move(a, from, to), Quiet
      PROVE  OrderlyInv'
  <2>1. phase[a] = from /\ phase' = [phase EXCEPT ![a] = to] /\ req' = req
    BY <1>2 DEF Move, Goto
  <2>2. CreateInv(a)'
    BY <1>0, <1>2, <1>a, <1>q, <2>1 DEF CreateInv, Persisting
  <2> QED
    BY <1>2, <1>a, <1>q, <2>1, <2>2, OrderlyMove
<1> QED
  BY <1>1, <1>2 DEF Create, CreateNotSafeMode, CreatePolicyAllowed

(***************************************************************************)
(* The rewrite of the store: what is written is what was read, but for the *)
(* approval of the request (or what has expired); only then is the caller  *)
(* answered.                                                               *)
(***************************************************************************)
LEMMA OrderlyPersist ==
    ASSUME OrderlyBase, orderly, OrderlyInv, NEW a \in Actors, Persist(a)
    PROVE  OrderlyInv'
<1>0. /\ phase \in [Actors -> Phases] /\ req \in [Actors -> Requests]
      /\ req[a].id \in Ids /\ req[a].op \in Ops /\ req[a].verdict \in RecordStatuses
      /\ store \in Files /\ snap \in [Actors -> Files] /\ created \subseteq Ids
      /\ answered \in [Ids -> SUBSET RecordStatuses]
  BY DEF OrderlyBase, BarredInv, RequestTypes, Requests, StoreTypes
<1>t. /\ ThreadInv(a)
      /\ \A b \in Actors : b # a /\ phase[a] # "idle" => phase[b] = "idle"
  BY <1>0 DEF OrderlyInv, Alone
<1>1. CASE Load(a)
  <2>1. /\ phase[a] = "load" /\ phase' = [phase EXCEPT ![a] = "truncate"]
        /\ req' = req /\ snap'[a] = Rewritten(a)
        /\ UNCHANGED <<store, due, created, answered, autoClean, done, status>>
    BY <1>0, <1>1 DEF Load, Goto, world, ghosts, config, ledgerVars
  <2>2. ASSUME NEW i \in created PROVE Agrees(store, i) /\ ApprovalInv(i)
    <3>1. \A b \in Actors : phase[b] # "write"
      BY <1>t, <2>1
    <3> QED
      BY <1>0, <3>1 DEF OrderlyInv, ApprovalInv
  <2>3. ASSUME NEW i \in created, req[a].op = "list" \/ i # req[a].id
        PROVE  Agrees(Rewritten(a), i)
    <3>1. CASE req[a].op = "list" /\ store[i] = "pending" /\ i \in due
      <4>1. answered[i] = {}
        BY <2>2, <3>1 DEF Agrees, ApprovalInv, Decisions
      <4> QED
        BY <3>1, <4>1 DEF Agrees
    <3>2. CASE ~(req[a].op = "list" /\ store[i] = "pending" /\ i \in due)
      <4>1. i \in Ids /\ Rewritten(a)[i] = store[i]
        BY <1>0, <2>3, <3>2 DEF Rewritten, Files
      <4> QED
        BY <2>2, <4>1 DEF Agrees
    <3> QED
      BY <3>1, <3>2
  <2>4. req[a].op # "list" => Rewritten(a)[req[a].id] = Stored(req[a].verdict)
    BY <1>0 DEF Rewritten, Files
  <2>5. RewriteInv(a)'
    BY <1>0, <2>1, <2>3, <2>4 DEF RewriteInv, Agrees, Stored
  <2>6. ThreadInv(a)'
    BY <1>0, <1>t, <2>1, <2>5
       DEF ThreadInv, Answering, Creating, AnswerInv, CreateInv, Persisting
  <2> QED
    BY <2>1, <2>6, OrderlyGoto
<1>2. CASE NothingExpired(a)
  <2>1. /\ phase[a] = "load" /\ phase' = [phase EXCEPT ![a] = "idle"]
        /\ ~Answering(a)
        /\ UNCHANGED <<store, due, created, answered, autoClean, done, status>>
    BY <1>2 DEF NothingExpired, Finish, Goto, Quiet, Answering, world, ghosts,
                config, ledgerVars
  <2> QED
    BY <2>1, OrderlyMove
<1>3. CASE Truncate(a)
  <2>1. /\ phase[a] = "truncate" /\ phase' = [phase EXCEPT ![a] = "write"]
        /\ req' = req /\ snap' = snap /\ store' = EmptyFile
        /\ UNCHANGED <<due, created, answered, autoClean, done, status>>
    BY <1>3 DEF Truncate, Move, Goto, world, ghosts, config, ledgerVars
  <2>2. RewriteInv(a)'
    BY <1>t, <2>1 DEF ThreadInv, RewriteInv, Agrees, Stored
  <2>3. ThreadInv(a)'
    BY <1>0, <1>t, <2>1, <2>2
       DEF ThreadInv, Answering, Creating, AnswerInv, CreateInv, Persisting
  <2> QED
    BY <2>1, <2>3, OrderlyGoto
<1>4. CASE Write(a)
  <2>0. PICK i \in Ids : i = req[a].id
    BY <1>0
  <2>1. /\ phase[a] = "write" /\ store = EmptyFile /\ RewriteInv(a)
        /\ \A b \in Actors : phase'[b] = "idle"
    BY <1>0, <1>4, <1>t DEF Write, Finish, Goto, ThreadInv
  <2>2. store' = snap[a]
    <3>1. PICK kept \in SUBSET {j \in Ids : snap[a][j] = "absent" /\ store[j] # "absent"} :
              store' = [j \in Ids |-> IF j \in kept THEN store[j] ELSE snap[a][j]]
      BY <1>4 DEF Write
    <3>2. kept = {}
      BY <2>1, <3>1 DEF EmptyFile
    <3> QED
      BY <1>0, <3>1, <3>2 DEF Files
  <2>3. UNCHANGED <<due, autoClean, done, status>>
    BY <1>4 DEF Write, world, config, ledgerVars
  <2>4. ASSUME NEW j \in Ids, j # i \/ req[a].op = "list" PROVE ApprovalInv(j)'
    <3>1. answered'[j] = answered[j] /\ (j \in created' <=> j \in created)
      BY <1>0, <1>4, <2>0, <2>4 DEF Write
    <3>2. ApprovalInv(j) /\ (j \in created => Agrees(snap[a], j))
      BY <2>0, <2>1, <2>4 DEF OrderlyInv, RewriteInv
    <3>3. Consistent(j)
      BY <1>t, <2>0, <2>1, <2>4, <3>2 DEF ApprovalInv, Answering
    <3> QED
      BY <2>2, <2>3, <3>1, <3>2, <3>3
         DEF ApprovalInv, Consistent, Untouched, Agrees
  <2>5. CASE Answering(a)
    <3>1. /\ answered[i] = {} /\ i \in created /\ req[a].verdict \in Decisions
          /\ done[i] # 0 => req[a].verdict = "approved"
          /\ snap[a][i] = Stored(req[a].verdict)
      BY <1>t, <2>0, <2>1, <2>5
         DEF ThreadInv, AnswerInv, RewriteInv, Answering, Persisting
    <3>2. answered'[i] = {req[a].verdict} /\ created' = created
      BY <1>0, <1>4, <2>0, <2>5, <3>1 DEF Write, Answering
    <3>3. Consistent(i)' /\ Agrees(store, i)'
      BY <2>2, <2>3, <3>1, <3>2 DEF Consistent, Untouched, Agrees, Stored
    <3>4. ApprovalInv(i)'
      BY <3>1, <3>2, <3>3 DEF ApprovalInv
    <3> QED
      BY <1>0, <2>1, <2>4, <3>4
         DEF OrderlyInv, Alone, ThreadInv, Answering, Creating
  <2>6. CASE Creating(a)
    <3>1. /\ i \notin created /\ snap[a][i] = "pending"
      BY <1>t, <2>0, <2>1, <2>6
         DEF ThreadInv, CreateInv, RewriteInv, Creating, Stored, Decisions
    <3>2. answered' = answered /\ answered[i] = {} /\ Consistent(i)
      BY <1>0, <1>4, <1>t, <2>0, <2>1, <2>6, <3>1
         DEF Write, Creating, Answering, OrderlyInv, ApprovalInv
    <3>3. Consistent(i)' /\ Agrees(store, i)'
      BY <2>2, <2>3, <3>1, <3>2 DEF Consistent, Untouched, Agrees
    <3>4. ApprovalInv(i)'
      BY <3>2, <3>3 DEF ApprovalInv
    <3> QED
      BY <1>0, <2>1, <2>4, <3>4
         DEF OrderlyInv, Alone, ThreadInv, Answering, Creating
  <2>7. CASE req[a].op = "list"
    BY <2>1, <2>4, <2>7 DEF OrderlyInv, Alone, ThreadInv, Answering, Creating
  <2> QED
    BY <1>0, <2>1, <2>5, <2>6, <2>7 DEF Answering, Creating, Ops
<1> QED
  BY <1>1, <1>2, <1>3, <1>4 DEF Persist

(***************************************************************************)
(* A request begins only when no other is in flight.                       *)
(***************************************************************************)
LEMMA OrderlyBegin ==
    ASSUME OrderlyBase, orderly, OrderlyInv, NEW a \in Actors, NEW op \in Ops,
           NEW i \in Ids, Begin(a, op, i)
    PROVE  OrderlyInv'
<1>0. /\ phase \in [Actors -> Phases] /\ req \in [Actors -> Requests]
  BY DEF OrderlyBase, BarredInv, RequestTypes
<1>1. /\ \A b \in Actors : phase[b] = "idle" /\ (b # a => phase'[b] = "idle")
      /\ phase'[a] = FirstPhase[op]
      /\ req'[a].op = op /\ req'[a].id = i /\ req'[a].verdict = "pending"
      /\ UNCHANGED <<store, due, created, answered, done, status>>
      /\ op \in {"chat", "propose"} => i \notin created
      /\ op \in {"approve", "reject"} => i \in created
  BY <1>0 DEF Begin, AllIdle, RequestOf, Fresh, world, ledgerVars
<1>2. FirstPhase[op] \notin {"truncate", "write"}
  BY DEF FirstPhase, Ops
<1>3. ASSUME NEW j \in Ids PROVE ApprovalInv(j)' /\ Consistent(j)'
  <2>1. ApprovalInv(j) /\ Consistent(j)
    BY <1>1 DEF OrderlyInv, ApprovalInv, Answering
  <2>2. j \in created => Agrees(store, j)
    BY <1>1, <2>1 DEF ApprovalInv
  <2> QED
    BY <1>1, <2>1, <2>2 DEF ApprovalInv, Consistent, Untouched, Agrees
<1>4. ThreadInv(a)'
  <2>1. CASE op \in {"approve", "reject"}
    <3>1. FirstPhase[op] = "get"
      BY <2>1 DEF FirstPhase, Ops
    <3>2. Consistent(req[a].id)'
      BY <1>1, <1>3 DEF Consistent, Untouched
    <3> QED
      BY <1>1, <2>1, <3>1, <3>2
         DEF ThreadInv, AnswerInv, Answering, Creating, Persisting
  <2>2. CASE op \in {"chat", "propose"}
    <3>1. FirstPhase[op] \in {"exec_scope", "create_safe"}
      BY <2>2 DEF FirstPhase, Ops
    <3> QED
      BY <1>1, <2>2, <3>1 DEF ThreadInv, CreateInv, Answering, Creating
  <2>3. CASE op = "list"
    BY <1>1, <1>2, <2>3 DEF ThreadInv, Answering, Creating
  <2> QED
    BY <2>1, <2>2, <2>3 DEF Ops
<1>5. \A b \in Actors : b # a => ThreadInv(b)'
  BY <1>1 DEF ThreadInv, Answering, Creating
<1> QED
  BY <1>1, <1>3, <1>4, <1>5 DEF OrderlyInv, Alone

(***************************************************************************)
(* Every step keeps the order: the operator and the clock do not touch     *)
(* requests, and no process dies.                                          *)
(***************************************************************************)
LEMMA OrderlyStep == OrderlyBase /\ OrderlyInv /\ [Next]_vars => OrderlyInv'
<1> SUFFICES ASSUME OrderlyBase, OrderlyInv, [Next]_vars, orderly' PROVE OrderlyInv'
  BY DEF OrderlyInv
<1>1. orderly
  BY DEF Next, Begin, Handle, Execute, Create, Persist, vars, config, Quiet,
         GetRefused, GetPending, ApproveSafeMode, ApproveNotSafeMode,
         Expired, ApproveNotExpired, RejectNotExpired, ApprovePolicyDenied,
         ApprovePolicyAllowed, ApproveClaims, ApproveDuplicate,
         ExecPolicyDenied, ExecPolicyAllowed, ExecSafeMode, ExecNotSafeMode,
         SkillSucceeds, SkillRaises, Mark, CreateSafeMode,
         CreateNotSafeMode, CreatePolicyDenied, CreatePolicyAllowed, Load,
         NothingExpired, Truncate, Write, SetSafeMode, SetScopes, Toggle,
         TimePasses, Crash
<1>2. CASE /\ UNCHANGED <<store, phase, req, snap, created, answered, autoClean,
                          done, status>>
           /\ due \subseteq due'
  <2> USE <1>1, <1>2
  <2>1. Alone'
    BY DEF OrderlyInv, Alone
  <2>2. ASSUME NEW i \in Ids PROVE ApprovalInv(i)'
    BY DEF OrderlyInv, ApprovalInv, Answering, Consistent, Untouched, Agrees
  <2>3. ASSUME NEW a \in Actors PROVE ThreadInv(a)'
    <3>1. ThreadInv(a)
      BY DEF OrderlyInv
    <3>2. RewriteInv(a) => RewriteInv(a)'
      BY DEF RewriteInv, Agrees, Stored
    <3>3. AnswerInv(a) => AnswerInv(a)'
      BY DEF AnswerInv, Consistent, Untouched
    <3>4. CreateInv(a) => CreateInv(a)'
      BY DEF CreateInv
    <3> QED
      BY <3>1, <3>2, <3>3, <3>4 DEF ThreadInv, Answering, Creating
  <2> QED
    BY <2>1, <2>2, <2>3 DEF OrderlyInv
<1>3. CASE SetSafeMode \/ SetScopes
  BY <1>2, <1>3 DEF SetSafeMode, SetScopes, Toggle, config, ghosts, ledgerVars
<1>4. ASSUME NEW i \in Ids, TimePasses(i) PROVE OrderlyInv'
  BY <1>2, <1>4 DEF TimePasses, config, ghosts, ledgerVars
<1>5. CASE UNCHANGED vars
  BY <1>2, <1>5 DEF vars, world, config, ghosts, ledgerVars
<1>6. ASSUME NEW h \in Hosts, Crash(h) PROVE FALSE
  BY <1>1, <1>6 DEF Crash
<1> QED
  BY <1>1, <1>3, <1>4, <1>5, <1>6, OrderlyHandle, OrderlyExecute,
     OrderlyCreate, OrderlyPersist, OrderlyBegin DEF Next

(***************************************************************************)
(* The orderly invariant holds in every reachable state.                   *)
(***************************************************************************)
LEMMA OrderlyAlways == Spec => [](OrderlyInv /\ StoreTypes)
<1>1. Ledger!Spec => []Ledger!TypeOK
  <2>1. Ledger!IndInv => Ledger!TypeOK
    BY DEF Ledger!IndInv
  <2> QED
    BY <2>1, Ledger!AtomicInit, Ledger!AtomicStep, PTL DEF Ledger!Spec
<1>2. Init => BarredInv
  BY BarredStart
<1>3. Init => OrderlyInv
  <2> SUFFICES ASSUME Init PROVE OrderlyInv
    OBVIOUS
  <2>1. \A a \in Actors : phase[a] = "idle"
    BY DEF Init
  <2>2. ASSUME NEW i \in Ids PROVE ApprovalInv(i)
    BY DEF Init, Ledger!Init, ApprovalInv, Consistent, Untouched
  <2> QED
    BY <2>1, <2>2 DEF OrderlyInv, Alone, ThreadInv, Answering, Creating
<1>4. BarredInv => RequestTypes
  BY DEF BarredInv
<1>5. BarredInv /\ StoreTypes /\ Ledger!TypeOK => OrderlyBase
  BY DEF OrderlyBase
<1> QED
  BY <1>1, <1>2, <1>3, <1>4, <1>5, StartTypes, StoreTypesStep, BarredStep,
     OrderlyStep, ApprovalsUseLedger, PTL DEF Spec

(***************************************************************************)
(* When requests come one at a time, an approval that was created and not  *)
(* yet decided is pending in the store, unless its time has run out, and   *)
(* nothing of it has run or is claimed in the ledger.                      *)
(***************************************************************************)
THEOREM UndecidedStaysPending == Spec => []UndecidedIsPending
<1>1. OrderlyInv /\ StoreTypes => UndecidedIsPending
  <2> SUFFICES ASSUME OrderlyInv, StoreTypes, orderly, AllIdle,
                      NEW i \in created, answered[i] = {}
               PROVE  /\ store[i] = "pending" \/ i \in due
                      /\ done[i] = 0 /\ status[i] = "none"
    BY DEF UndecidedIsPending
  <2>1. i \in Ids /\ ApprovalInv(i)
    BY DEF OrderlyInv, StoreTypes
  <2> QED
    BY <2>1 DEF ApprovalInv, AllIdle, Answering, Agrees, Consistent, Untouched
<1> QED
  BY <1>1, OrderlyAlways, PTL

(***************************************************************************)
(* When requests come one at a time, an approval has at most one decision, *)
(* a decided approval never becomes pending again, and the write tool ran  *)
(* only if the decision was to approve.                                    *)
(***************************************************************************)
THEOREM DecisionsAreFinal == Spec => []DecisionIsFinal
<1>1. OrderlyInv /\ StoreTypes => DecisionIsFinal
  <2> SUFFICES ASSUME OrderlyInv, StoreTypes, orderly, AllIdle,
                      NEW i \in created
               PROVE  /\ Cardinality(answered[i]) <= 1
                      /\ answered[i] # {} =>
                            (store[i] = "absent" \/ {store[i]} = answered[i])
                      /\ done[i] = 1 => answered[i] = {"approved"}
    BY DEF DecisionIsFinal
  <2>1. i \in Ids /\ ApprovalInv(i)
    BY DEF OrderlyInv, StoreTypes
  <2>2. Consistent(i) /\ Agrees(store, i)
    BY <2>1 DEF ApprovalInv, AllIdle, Answering
  <2>3. Cardinality(answered[i]) <= 1
    <3>1. CASE answered[i] = {}
      BY <3>1, FS_EmptySet
    <3>2. ASSUME NEW v, answered[i] = {v} PROVE Cardinality(answered[i]) <= 1
      <4>1. Cardinality({v}) = 1
        BY FS_Singleton
      <4> QED
        BY <3>2, <4>1
    <3> QED
      BY <2>1, <3>1, <3>2 DEF ApprovalInv
  <2> QED
    BY <2>2, <2>3 DEF Consistent, Agrees
<1> QED
  BY <1>1, OrderlyAlways, PTL
=============================================================================
