----------------------------- MODULE Approvals -----------------------------
(***************************************************************************)
(* The approval workflow: the approval service and its JSONL store         *)
(* (core/approvals), the executor that runs the approved step              *)
(* (core/orchestration/executor.py), the safe-mode switch and the scope    *)
(* policy they consult, and the execution ledger, taken as the atomic      *)
(* table that ExecutionLedger implements.                                  *)
(*                                                                         *)
(* A request is cut at every access to shared state: approvals.jsonl is    *)
(* read whole, truncated when it is opened for writing, and written when   *)
(* it is closed, without a lock; safe_mode.json and policy_overrides.json  *)
(* are read anew by every check.  Several requests may be in flight, and a *)
(* process may die at any point.                                           *)
(***************************************************************************)
EXTENDS Naturals, FiniteSets

CONSTANTS
    Actors,       \* threads of the API and worker processes
    Hosts,        \* the processes
    HostOf,       \* the process of each thread
    Ids,          \* approval ids
    AutoCleans,   \* which values of autoClean to consider
    Regimes,      \* which values of orderly to consider
    MaxRequests,  \* bound on the requests
    MaxToggles,   \* bound on the operator's changes of safe mode and scopes
    MaxCrashes    \* bound on the crashes

ASSUME ApprovalsConstants ==
    /\ Ids # {}
    /\ HostOf \in [Actors -> Hosts]
    /\ AutoCleans \subseteq BOOLEAN
    /\ Regimes \subseteq BOOLEAN
    /\ MaxRequests \in Nat /\ MaxToggles \in Nat /\ MaxCrashes \in Nat

VARIABLES
    store,      \* approvals.jsonl: the status of each record, or "absent"
    due,        \* approvals whose expires_at_iso has passed
    safeMode,   \* is_safe_mode_enabled()
    scopeOn,    \* the scopes of the approvals' skills are enabled
    phase,      \* where each thread is inside its request
    req,        \* the request each thread handles
    snap,       \* the records each thread is about to write
    requests, toggles, crashes,  \* used up so far
    autoClean,  \* BENJAMIN_APPROVALS_AUTOCLEAN is not "off"
    orderly,    \* requests come one at a time and no process dies
    created,    \* ghost: approvals that create_pending has stored
    answered,   \* ghost: the decisions reported to callers, per approval
    barred,     \* ghost: what has forbidden writes ever since a request began
    status, running, finished, done, forgotten  \* the ledger (AtomicLedger)

ledgerVars == <<status, running, finished, done, forgotten>>
counters == <<requests, toggles, crashes>>
config == <<orderly, autoClean>>
ghosts == <<created, answered>>
world == <<due, safeMode, scopeOn>>
vars == <<store, world, phase, req, snap, counters, config, ghosts, barred,
          ledgerVars>>

\* The key of an approval (approval_execution_key) is unique to it.
Ledger == INSTANCE AtomicLedger WITH Keys <- Ids

Decisions == {"approved", "rejected", "expired"}
RecordStatuses == {"pending"} \cup Decisions
Files == [Ids -> RecordStatuses \cup {"absent"}]
Ops == {"chat", "propose", "approve", "reject", "list"}
Phases == {"idle", "get", "safe", "expiry", "policy", "claim",
           "exec_scope", "exec_safe", "skill", "mark",
           "create_safe", "create_scope", "load", "truncate", "write"}
Requests == [op : Ops, id : Ids, verdict : RecordStatuses, ok : BOOLEAN]
Reasons == {"safe_mode", "scope"}

EmptyFile == [i \in Ids |-> "absent"]
RequestOf(op, i) == [op |-> op, id |-> i, verdict |-> "pending", ok |-> FALSE]
NoRequest == RequestOf("list", CHOOSE i \in Ids : TRUE)
AllIdle == \A a \in Actors : phase[a] = "idle"

\* What forbids writes now.
Bars(safe, scope) ==
    (IF safe THEN {"safe_mode"} ELSE {}) \cup (IF scope THEN {} ELSE {"scope"})

Init ==
    /\ store = EmptyFile
    /\ due = {}
    /\ safeMode \in BOOLEAN
    /\ scopeOn \in BOOLEAN
    /\ phase = [a \in Actors |-> "idle"]
    /\ req = [a \in Actors |-> NoRequest]
    /\ snap = [a \in Actors |-> EmptyFile]
    /\ requests = 0 /\ toggles = 0 /\ crashes = 0
    /\ orderly \in Regimes
    /\ autoClean \in AutoCleans
    /\ created = {}
    /\ answered = [i \in Ids |-> {}]
    /\ barred = [a \in Actors |-> {}]
    /\ Ledger!Init

-----------------------------------------------------------------------------
(* Steps within a request.                                                 *)

Goto(a, to) ==
    /\ phase' = [phase EXCEPT ![a] = to]
    /\ barred' = IF to = "idle" THEN [barred EXCEPT ![a] = {}] ELSE barred

Finish(a) ==
    /\ Goto(a, "idle")
    /\ req' = [req EXCEPT ![a] = NoRequest]

Move(a, from, to) ==
    /\ phase[a] = from
    /\ Goto(a, to)
    /\ UNCHANGED req

\* The record gets its status and is handed to _persist_or_clean.
Decide(a, verdict) ==
    /\ Goto(a, "load")
    /\ req' = [req EXCEPT ![a].verdict = verdict]

\* Nothing outside the thread changes.
Quiet == UNCHANGED <<store, world, snap, counters, config, ghosts, ledgerVars>>

\* The next id of uuid4 is no earlier one.
Fresh(i) ==
    /\ i \notin created
    /\ \A b \in Actors :
          phase[b] # "idle" /\ req[b].op \in {"chat", "propose"} => req[b].id # i

FirstPhase ==
    [op \in Ops |-> CASE op = "chat" -> "exec_scope"
                      [] op = "propose" -> "create_safe"
                      [] op \in {"approve", "reject"} -> "get"
                      [] op = "list" -> "load"]

Begin(a, op, i) ==
    /\ phase[a] = "idle"
    /\ orderly => AllIdle
    /\ requests < MaxRequests
    /\ op \in {"chat", "propose"} => Fresh(i)
    /\ op \in {"approve", "reject"} => i \in created
    /\ op = "list" => i = NoRequest.id
    /\ requests' = requests + 1
    /\ req' = [req EXCEPT ![a] = RequestOf(op, i)]
    /\ phase' = [phase EXCEPT ![a] = FirstPhase[op]]
    /\ barred' = [barred EXCEPT ![a] = Bars(safeMode, scopeOn)]
    /\ UNCHANGED <<store, world, snap, toggles, crashes, config, created,
                   answered, ledgerVars>>

(* approve and reject.                                                     *)

\* store.get, then 404, the answer to a duplicate, or 400.
GetRefused(a) ==
    /\ phase[a] = "get"
    /\ store[req[a].id] # "pending"
    /\ Finish(a)
    /\ Quiet

\* A mistaken form of GetPending: the status of the record is not looked at.
GetStored(a) ==
    /\ store[req[a].id] # "absent"
    /\ Move(a, "get", IF req[a].op = "approve" THEN "safe" ELSE "expiry")
    /\ Quiet

GetPending(a) ==
    /\ store[req[a].id] = "pending"
    /\ Move(a, "get", IF req[a].op = "approve" THEN "safe" ELSE "expiry")
    /\ Quiet

\* approve: safe mode answers 409 and leaves the record pending.
ApproveSafeMode(a) ==
    /\ phase[a] = "safe"
    /\ safeMode
    /\ Finish(a)
    /\ Quiet

ApproveNotSafeMode(a) ==
    /\ ~safeMode
    /\ Move(a, "safe", "expiry")
    /\ Quiet

Expired(a) ==
    /\ phase[a] = "expiry"
    /\ req[a].id \in due
    /\ Decide(a, "expired")
    /\ Quiet

ApproveNotExpired(a) ==
    /\ req[a].op = "approve"
    /\ req[a].id \notin due
    /\ Move(a, "expiry", "policy")
    /\ Quiet

\* A mistaken form of RejectNotExpired: a status that is not one.
RejectAsDenied(a) ==
    /\ phase[a] = "expiry"
    /\ req[a].op = "reject"
    /\ req[a].id \notin due
    /\ Decide(a, "denied")
    /\ Quiet

RejectNotExpired(a) ==
    /\ phase[a] = "expiry"
    /\ req[a].op = "reject"
    /\ req[a].id \notin due
    /\ Decide(a, "rejected")
    /\ Quiet

ApprovePolicyDenied(a) ==
    /\ phase[a] = "policy"
    /\ ~scopeOn
    /\ Decide(a, "rejected")
    /\ Quiet

ApprovePolicyAllowed(a) ==
    /\ scopeOn
    /\ Move(a, "policy", "claim")
    /\ Quiet

\* ledger.try_start
ApproveClaims(a) ==
    /\ Move(a, "claim", "exec_scope")
    /\ Ledger!Claim(a, req[a].id)
    /\ UNCHANGED <<store, world, snap, counters, config, ghosts>>

ApproveDuplicate(a) ==
    /\ phase[a] = "claim"
    /\ ~Ledger!Claimable(req[a].id)
    /\ Decide(a, "approved")
    /\ Quiet

(* The executor, for an approved step (force_execute_writes) and for a     *)
(* write step of a chat.                                                   *)

Failed(a) == IF req[a].op = "approve" THEN Move(a, phase[a], "mark")
                                      ELSE Finish(a)

ExecPolicyDenied(a) ==
    /\ phase[a] = "exec_scope"
    /\ ~scopeOn
    /\ Failed(a)
    /\ Quiet

ExecPolicyAllowed(a) ==
    /\ scopeOn
    /\ Move(a, "exec_scope", "exec_safe")
    /\ Quiet

ExecSafeMode(a) ==
    /\ phase[a] = "exec_safe"
    /\ safeMode
    /\ Failed(a)
    /\ Quiet

ExecNotSafeMode(a) ==
    /\ ~safeMode
    /\ Move(a, "exec_safe", IF req[a].op = "approve" THEN "skill" ELSE "create_safe")
    /\ Quiet

SkillSucceeds(a) ==
    /\ phase[a] = "skill"
    /\ Goto(a, "mark")
    /\ req' = [req EXCEPT ![a].ok = TRUE]
    /\ Ledger!Succeed(a, req[a].id)
    /\ UNCHANGED <<store, world, snap, counters, config, ghosts>>

SkillRaises(a) ==
    /\ Move(a, "skill", "mark")
    /\ Quiet

\* ledger.mark, then the record becomes "approved", whatever the outcome
Mark(a) ==
    /\ phase[a] = "mark"
    /\ IF req[a].ok THEN Ledger!MarkSucceeded(a, req[a].id)
                    ELSE Ledger!MarkFailed(a, req[a].id)
    /\ Decide(a, "approved")
    /\ UNCHANGED <<store, world, snap, counters, config, ghosts>>

(* create_pending, called by the executor and by the rule engine.          *)

CreateSafeMode(a) ==
    /\ phase[a] = "create_safe"
    /\ safeMode
    /\ Finish(a)
    /\ Quiet

\* A mistaken form of CreateNotSafeMode: safe mode is left to the executor.
CreateInSafeMode(a) ==
    /\ Move(a, "create_safe", "create_scope")
    /\ Quiet

CreateNotSafeMode(a) ==
    /\ ~safeMode
    /\ Move(a, "create_safe", "create_scope")
    /\ Quiet

CreatePolicyDenied(a) ==
    /\ phase[a] = "create_scope"
    /\ ~scopeOn
    /\ Finish(a)
    /\ Quiet

CreatePolicyAllowed(a) ==
    /\ scopeOn
    /\ Move(a, "create_scope", "load")
    /\ Quiet

(* The store: upsert, delete and cleanup_expired each load the whole file  *)
(* and rewrite it.                                                         *)

Stored(verdict) ==
    IF autoClean /\ verdict \in Decisions THEN "absent" ELSE verdict

\* A mistaken form of Rewritten: upsert writes the one record only.
RewrittenAlone(a) ==
    IF req[a].op = "list" THEN store
    ELSE [EmptyFile EXCEPT ![req[a].id] = Stored(req[a].verdict)]

Rewritten(a) ==
    IF req[a].op = "list"
      THEN [i \in Ids |-> IF store[i] = "pending" /\ i \in due
                            THEN Stored("expired") ELSE store[i]]
      ELSE [store EXCEPT ![req[a].id] = Stored(req[a].verdict)]

\* cleanup_expired rewrites only if something expired.
Load(a) ==
    /\ phase[a] = "load"
    /\ req[a].op = "list" => Rewritten(a) # store
    /\ Goto(a, "truncate")
    /\ snap' = [snap EXCEPT ![a] = Rewritten(a)]
    /\ UNCHANGED <<store, world, req, counters, config, ghosts, ledgerVars>>

NothingExpired(a) ==
    /\ phase[a] = "load"
    /\ req[a].op = "list" /\ Rewritten(a) = store
    /\ Finish(a)
    /\ Quiet

\* _rewrite opens the file with mode "w" ...
Truncate(a) ==
    /\ Move(a, "truncate", "write")
    /\ store' = EmptyFile
    /\ UNCHANGED <<world, snap, counters, config, ghosts, ledgerVars>>

\* ... and writes when it closes it.  What another thread has written since
\* then is overwritten from the start of the file; its last lines may
\* outlive a shorter text.
Write(a) ==
    LET i == req[a].id
        op == req[a].op
    IN  /\ phase[a] = "write"
        /\ \E kept \in SUBSET {j \in Ids : snap[a][j] = "absent" /\ store[j] # "absent"} :
              store' = [j \in Ids |-> IF j \in kept THEN store[j] ELSE snap[a][j]]
        /\ created' = IF op \in {"chat", "propose"} THEN created \cup {i} ELSE created
        /\ answered' = IF op \in {"approve", "reject"}
                         THEN [answered EXCEPT ![i] = @ \cup {req[a].verdict}]
                         ELSE answered
        /\ Finish(a)
        /\ snap' = [snap EXCEPT ![a] = EmptyFile]
        /\ UNCHANGED <<world, counters, config, ledgerVars>>

-----------------------------------------------------------------------------
(* The world around the requests.                                          *)

\* The operator switches safe mode or the scopes (routes_ops_safe,
\* routes_security).
Toggle(safe, scope) ==
    /\ toggles < MaxToggles
    /\ <<safe, scope>> # <<safeMode, scopeOn>>
    /\ toggles' = toggles + 1
    /\ safeMode' = safe
    /\ scopeOn' = scope
    /\ barred' = [a \in Actors |-> barred[a] \cap Bars(safe, scope)]
    /\ UNCHANGED <<store, due, phase, req, snap, requests, crashes, config,
                   ghosts, ledgerVars>>

SetSafeMode == Toggle(~safeMode, scopeOn)
SetScopes == Toggle(safeMode, ~scopeOn)

\* The time to live of an approval runs out.
TimePasses(i) ==
    /\ i \in created \ due
    /\ due' = due \cup {i}
    /\ UNCHANGED <<store, safeMode, scopeOn, phase, req, snap, counters,
                   config, ghosts, barred, ledgerVars>>

\* A process dies; its threads vanish, the files stay as they are.
ThreadsOf(h) == {a \in Actors : HostOf[a] = h}

Crash(h) ==
    LET gone(f, v) == [a \in Actors |-> IF HostOf[a] = h THEN v ELSE f[a]]
    IN  /\ ~orderly
        /\ crashes < MaxCrashes
        /\ \E a \in ThreadsOf(h) : phase[a] # "idle"
        /\ crashes' = crashes + 1
        /\ phase' = gone(phase, "idle")
        /\ req' = gone(req, NoRequest)
        /\ snap' = gone(snap, EmptyFile)
        /\ barred' = gone(barred, {})
        /\ Ledger!Die(ThreadsOf(h))
        /\ UNCHANGED <<store, world, requests, toggles, config, ghosts>>

Handle(a) ==
    \/ GetRefused(a) \/ GetPending(a) \/ ApproveSafeMode(a)
    \/ ApproveNotSafeMode(a) \/ Expired(a) \/ ApproveNotExpired(a)
    \/ RejectNotExpired(a) \/ ApprovePolicyDenied(a) \/ ApprovePolicyAllowed(a)
    \/ ApproveClaims(a) \/ ApproveDuplicate(a)

Execute(a) ==
    \/ ExecPolicyDenied(a) \/ ExecPolicyAllowed(a) \/ ExecSafeMode(a)
    \/ ExecNotSafeMode(a) \/ SkillSucceeds(a) \/ SkillRaises(a) \/ Mark(a)

Create(a) ==
    \/ CreateSafeMode(a) \/ CreateNotSafeMode(a) \/ CreatePolicyDenied(a)
    \/ CreatePolicyAllowed(a)

Persist(a) == Load(a) \/ NothingExpired(a) \/ Truncate(a) \/ Write(a)

Next ==
    \/ \E a \in Actors, op \in Ops, i \in Ids : Begin(a, op, i)
    \/ \E a \in Actors : Handle(a) \/ Execute(a) \/ Create(a) \/ Persist(a)
    \/ SetSafeMode \/ SetScopes
    \/ \E i \in Ids : TimePasses(i)
    \/ \E h \in Hosts : Crash(h)

Spec == Init /\ [][Next]_vars

-----------------------------------------------------------------------------
(* Properties.                                                             *)

(***************************************************************************)
(* Records have the statuses of ApprovalStatus, requests and ledger the    *)
(* values that service.py, store.py and executor.py give them.             *)
(***************************************************************************)
TypeOK ==
    /\ store \in Files
    /\ due \subseteq Ids
    /\ safeMode \in BOOLEAN /\ scopeOn \in BOOLEAN
    /\ phase \in [Actors -> Phases]
    /\ req \in [Actors -> Requests]
    /\ snap \in [Actors -> Files]
    /\ requests \in 0..MaxRequests
    /\ toggles \in 0..MaxToggles
    /\ crashes \in 0..MaxCrashes
    /\ orderly \in Regimes /\ autoClean \in AutoCleans
    /\ created \subseteq Ids
    /\ answered \in [Ids -> SUBSET RecordStatuses]
    /\ barred \in [Actors -> SUBSET Reasons]
    /\ Ledger!TypeOK

(***************************************************************************)
(* The write tool of an approval succeeds at most once, whatever requests  *)
(* race for the approval, whichever rewrite of approvals.jsonl is lost and *)
(* whenever a process dies.                                                *)
(***************************************************************************)
ExecutesAtMostOnce == \A i \in Ids : done[i] <= 1

WritePath == {"skill", "mark", "claim"}

(***************************************************************************)
(* A request during which safe mode has been on, or the scopes disabled,   *)
(* from its beginning never reaches the skill, never claims the ledger key *)
(* and never stores a new approval.                                        *)
(***************************************************************************)
BarredRequestWritesNothing ==
    \A a \in Actors : barred[a] # {} =>
        /\ phase[a] \notin WritePath
        /\ phase[a] \in {"load", "truncate", "write"} =>
              req[a].op \notin {"chat", "propose"} /\ req[a].verdict # "approved"

(***************************************************************************)
(* When requests come one at a time, an approval that was created and not  *)
(* yet decided is in the store as pending, and nothing of it has run or is *)
(* claimed in the ledger.                                                  *)
(***************************************************************************)
UndecidedIsPending ==
    orderly /\ AllIdle =>
        \A i \in created : answered[i] = {} =>
            /\ store[i] = "pending" \/ i \in due
            /\ done[i] = 0 /\ status[i] = "none"

(***************************************************************************)
(* When requests come one at a time, an approval has at most one decision, *)
(* a decided approval never becomes pending again, and the write tool ran  *)
(* only if the decision was to approve.                                    *)
(***************************************************************************)
DecisionIsFinal ==
    orderly /\ AllIdle =>
        \A i \in created :
            /\ Cardinality(answered[i]) <= 1
            /\ answered[i] # {} => store[i] = "absent" \/ {store[i]} = answered[i]
            /\ done[i] = 1 => answered[i] = {"approved"}

(***************************************************************************)
(* A rejection that was reported to its caller means that the write tool   *)
(* of the approval does not run (README, "3b) Or reject it").              *)
(***************************************************************************)
RejectedNeverExecuted ==
    \A i \in Ids : "rejected" \in answered[i] => done[i] = 0
=============================================================================
