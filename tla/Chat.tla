-------------------------------- MODULE Chat --------------------------------
(***************************************************************************)
(* A chat request from the planner to the task record (core/orchestration: *)
(* orchestrator, planner, critic, executor), the calls to the language     *)
(* model behind the planner, and what the request is checked against: safe *)
(* mode and the permissions policy with its overrides file, which the      *)
(* operator changes meanwhile.                                             *)
(*                                                                         *)
(* A plan can come from the language model: which steps it has, whether    *)
(* they are marked as needing approval and what their arguments are is     *)
(* anybody's guess.  What becomes of an approval later is the subject of   *)
(* Approvals, what becomes of tasks.jsonl of Doctor.                       *)
(***************************************************************************)
EXTENDS Naturals, Sequences

CONSTANTS
    Actors,        \* threads of the API process
    Skills,        \* names of skills
    WriteSkills,   \* those whose side_effect is "write"
    NoSkill,       \* the skill of a step without one
    ScopeOf,       \* the scope that each skill requires
    ReadScopes,    \* READ_SCOPES
    Commands,      \* messages that are planned without the language model
    Answers,       \* plans with which the language model may answer
    Allowlist,     \* BENJAMIN_SCOPE_MODE is "allowlist"
    EnvScopes,     \* BENJAMIN_SCOPES_ENABLED
    EnvRules,      \* BENJAMIN_RULES_ALLOWED_SCOPES, or the default
    DefaultRules,  \* DEFAULT_RULES_ALLOWED_SCOPES
    NoTask,        \* no task record
    MaxChats,      \* bound on the chat requests
    MaxChanges,    \* bound on changes of safe mode and of the policy
    MaxFaults      \* bound on crashes and failed writes

Scopes == {ScopeOf[s] : s \in Skills}

(* The arguments of a write step: fine; loose, which the critic makes fine *)
(* (a missing timezone, a recipient twice, a time that is past); unclear,  *)
(* about which it asks; broken, JSON that is not an object.                *)
Args == {"fine", "loose", "unclear", "broken"}
Steps == [skill : Skills \cup {NoSkill}, flag : BOOLEAN, args : Args]

\* A task record: what the user was told, and the steps that await approval.
Outcomes == {"question", "safe", "approval", "policy", "output"}
Records == [answer : Outcomes, approvals : SUBSET Nat]

ASSUME ChatConstants ==
    /\ WriteSkills \subseteq Skills
    /\ NoSkill \notin Skills
    /\ ReadScopes \subseteq Scopes
    /\ Commands \subseteq [skill : WriteSkills, flag : {TRUE}, args : Args]
    /\ Answers \subseteq Seq(Steps) /\ <<>> \notin Answers
    /\ Allowlist \in BOOLEAN
    /\ EnvScopes \subseteq Scopes /\ EnvRules \subseteq Scopes
    /\ DefaultRules \subseteq Scopes
    /\ NoTask \notin Records
    /\ MaxChats \in Nat /\ MaxChanges \in Nat /\ MaxFaults \in Nat

VARIABLES
    safe,       \* safe mode
    overrides,  \* policy_overrides.json
    llmOn,      \* planner.llm_enabled
    approvals,  \* the approvals that chat requests have created
    tasks,      \* the task record of each chat request
    phase,      \* where each thread is inside its request
    req,        \* the request of each thread
    chats, changes, faults,  \* used up so far
    excused,    \* ghost: requests that need not have a record (see Recorded)
    wanted,     \* ghost: the policy that the changes asked for, in the order
                \* of their saves
    lost        \* ghost: a change of the policy was saved over another

bounds == <<chats, changes, faults>>
ghosts == <<excused, wanted, lost>>
vars == <<safe, overrides, llmOn, approvals, tasks, phase, req, bounds, ghosts>>

Policies == [saved : BOOLEAN, enabled : SUBSET Scopes, rules : SUBSET Scopes]
NoOverrides == [saved |-> FALSE, enabled |-> {}, rules |-> {}]

\* _apply_overrides: every save stores both lists.
Policy ==
    IF overrides.saved THEN overrides
    ELSE [saved |-> FALSE, enabled |-> EnvScopes, rules |-> EnvRules]

\* is_scope_enabled
ScopeEnabled(scope) ==
    scope \in Policy.enabled \/ (~Allowlist /\ scope \in ReadScopes)

Chatting == {"plan", "review", "step", "safe", "create", "scopes", "upsert",
             "run", "answer", "record"}
Changing == {"policy", "load", "reload", "save"}
Results == {"done", "failed", "policy", "safe", "approval"}
Idle == [op |-> "none", n |-> 0, plan |-> <<>>, tries |-> 0, results |-> <<>>,
         answer |-> "none", scopes |-> {}, policy |-> NoOverrides,
         enabled |-> {}, loaded |-> NoOverrides, stale |-> FALSE]

\* The planner's __init__ asks feature_enabled once; BENJAMIN_LLM_PLANNER is on.
Init ==
    /\ safe \in BOOLEAN
    /\ overrides = NoOverrides
    /\ llmOn = ~safe
    /\ approvals = {}
    /\ tasks = [n \in 1..MaxChats |-> NoTask]
    /\ phase = [a \in Actors |-> "idle"]
    /\ req = [a \in Actors |-> Idle]
    /\ chats = 0 /\ changes = 0 /\ faults = 0
    /\ excused = {}
    /\ wanted = Policy
    /\ lost = FALSE

-----------------------------------------------------------------------------
Goto(a, p, r) ==
    /\ phase' = [phase EXCEPT ![a] = p]
    /\ req' = [req EXCEPT ![a] = r]

Quiet == UNCHANGED <<safe, overrides, llmOn, approvals, tasks, bounds, ghosts>>

\* An exception that nothing catches: the request ends without a record.
Raise(a, blamed) ==
    /\ Goto(a, "idle", Idle)
    /\ excused' = IF blamed THEN excused \cup {req[a].n} ELSE excused

Running == {req[a].n : a \in {a \in Actors : phase[a] \in Chatting}}

-----------------------------------------------------------------------------
(* Planning.                                                               *)

\* _deterministic_plan: a command is its own plan, of one step; free text
\* has none.
BeginChat(a, plan) ==
    /\ phase[a] = "idle"
    /\ chats < MaxChats
    /\ chats' = chats + 1
    /\ Goto(a, IF plan = <<>> THEN "plan" ELSE "review",
            [Idle EXCEPT !.op = "chat", !.n = chats + 1, !.plan = plan])
    /\ UNCHANGED <<safe, overrides, llmOn, approvals, tasks, changes, faults, ghosts>>

NoStep == [skill |-> NoSkill, flag |-> FALSE, args |-> "fine"]

Planned(a, plan) == Goto(a, "review", [req[a] EXCEPT !.plan = plan, !.tries = 0])

\* Analyze, execute: the plan when there is no better one.
FallBack(a) ==
    /\ phase[a] = "plan" /\ ~llmOn
    /\ Planned(a, <<NoStep, NoStep>>)
    /\ Quiet

\* _call makes two attempts, ...
LlmFails(a) ==
    /\ phase[a] = "plan" /\ llmOn
    /\ IF req[a].tries = 0 THEN Goto(a, "plan", [req[a] EXCEPT !.tries = 1])
                           ELSE Planned(a, <<NoStep, NoStep>>)
    /\ Quiet

\* ... unless the breaker refuses; the answer may be of no use, too.
LlmUnusable(a) ==
    /\ phase[a] = "plan" /\ llmOn
    /\ Planned(a, <<NoStep, NoStep>>)
    /\ Quiet

LlmPlans(a, plan) ==
    /\ phase[a] = "plan" /\ llmOn
    /\ Planned(a, plan)
    /\ Quiet

-----------------------------------------------------------------------------
(* PlanCritic.review.                                                      *)

Reviewed(step) == step.skill \in WriteSkills

\* The first step that cannot be passed on decides.
Verdict(plan) ==
    LET stops == {i \in DOMAIN plan : Reviewed(plan[i]) /\ plan[i].args \in {"unclear", "broken"}}
    IN  IF stops = {} THEN "fine"
        ELSE plan[CHOOSE i \in stops : \A j \in stops : i <= j].args

Normalised(step) == IF Reviewed(step) THEN [step EXCEPT !.args = "fine"] ELSE step

ReviewAsks(a) ==
    /\ phase[a] = "review" /\ Verdict(req[a].plan) = "unclear"
    /\ Goto(a, "record", [req[a] EXCEPT !.answer = "question"])
    /\ Quiet

ReviewRaises(a) ==
    /\ phase[a] = "review" /\ Verdict(req[a].plan) = "broken"
    /\ Raise(a, TRUE)
    /\ UNCHANGED <<safe, overrides, llmOn, approvals, tasks, bounds, wanted, lost>>

\* A mistaken form of ReviewPasses: the plan is not normalised.
ReviewPassesAsIs(a) ==
    /\ phase[a] = "review" /\ Verdict(req[a].plan) = "fine"
    /\ Goto(a, "step", req[a])
    /\ Quiet

ReviewPasses(a) ==
    LET plan == req[a].plan
    IN  /\ phase[a] = "review" /\ Verdict(plan) = "fine"
        /\ Goto(a, "step", [req[a] EXCEPT !.plan = [i \in DOMAIN plan |-> Normalised(plan[i])]])
        /\ Quiet

-----------------------------------------------------------------------------
(* Executor.execute_plan: step by step, whatever became of the ones before.*)

Index(a) == Len(req[a].results) + 1
Step(a) == req[a].plan[Index(a)]

Result(a, result) ==
    Goto(a, IF Index(a) = Len(req[a].plan) THEN "answer" ELSE "step",
         [req[a] EXCEPT !.results = Append(@, result)])

\* A mistaken form of RequiresApproval: only the plan decides.
MarkedForApproval(step) == step.flag

RequiresApproval(step) == step.flag \/ step.skill \in WriteSkills

\* The policy is read anew for every step.
CheckScopes(a) ==
    /\ phase[a] = "step"
    /\ IF Step(a).skill = NoSkill THEN Result(a, "done")
       ELSE IF ~ScopeEnabled(ScopeOf[Step(a).skill]) THEN Result(a, "policy")
       ELSE Goto(a, "safe", req[a])
    /\ Quiet

CheckSafeMode(a) ==
    /\ phase[a] = "safe"
    /\ IF Step(a).skill \in WriteSkills /\ safe THEN Result(a, "safe")
       ELSE IF RequiresApproval(Step(a)) THEN Goto(a, "create", req[a])
       ELSE Goto(a, "run", req[a])
    /\ Quiet

\* create_pending checks again and raises: a read skill needs no approval;
\* otherwise the operator must have changed something since.
CreateRaises(a) ==
    /\ \/ phase[a] = "create" /\ (safe \/ Step(a).skill \notin WriteSkills)
       \/ phase[a] = "scopes" /\ ~ScopeEnabled(ScopeOf[Step(a).skill])
    /\ Raise(a, Step(a).skill \notin WriteSkills)
    /\ UNCHANGED <<safe, overrides, llmOn, approvals, tasks, bounds, wanted, lost>>

CreateChecked(a) ==
    /\ \/ /\ phase[a] = "create" /\ ~safe /\ Step(a).skill \in WriteSkills
          /\ Goto(a, "scopes", req[a])
       \/ /\ phase[a] = "scopes" /\ ScopeEnabled(ScopeOf[Step(a).skill])
          /\ Goto(a, "upsert", req[a])
    /\ Quiet

CreatePending(a) ==
    /\ phase[a] = "upsert"
    /\ approvals' = approvals \cup {[n |-> req[a].n, i |-> Index(a), args |-> Step(a).args]}
    /\ Result(a, "approval")
    /\ UNCHANGED <<safe, overrides, llmOn, tasks, bounds, ghosts>>

\* skill.run, whose exceptions are caught
Run(a, ok) ==
    /\ phase[a] = "run"
    /\ Result(a, IF ok THEN "done" ELSE "failed")
    /\ Quiet

-----------------------------------------------------------------------------
(* The answer and the record.                                              *)

Has(a, result) == \E i \in DOMAIN req[a].results : req[a].results[i] = result

\* A mistaken form of Answer: the answer is kept as one more result.
AnswerKept(a) ==
    /\ phase[a] = "answer"
    /\ Goto(a, "record", [req[a] EXCEPT !.answer = "output", !.results = Append(@, "done")])
    /\ Quiet

\* The most important of what happened; then the memory is written.
Answer(a) ==
    /\ phase[a] = "answer"
    /\ Goto(a, "record", [req[a] EXCEPT !.answer =
          IF Has(a, "safe") THEN "safe"
          ELSE IF Has(a, "approval") THEN "approval"
          ELSE IF Has(a, "policy") THEN "policy" ELSE "output"])
    /\ Quiet

\* A mistaken form of Record: only the first approval is listed.
RecordFirst(a) ==
    LET proposed == {i \in DOMAIN req[a].results : req[a].results[i] = "approval"}
    IN  /\ phase[a] = "record"
        /\ tasks' = [tasks EXCEPT ![req[a].n] =
              [answer |-> req[a].answer,
               approvals |-> {i \in proposed : \A j \in proposed : i <= j}]]
        /\ Goto(a, "idle", Idle)
        /\ UNCHANGED <<safe, overrides, llmOn, approvals, bounds, ghosts>>

\* _persist_task_record
Record(a) ==
    /\ phase[a] = "record"
    /\ tasks' = [tasks EXCEPT ![req[a].n] =
          [answer |-> req[a].answer,
           approvals |-> {i \in DOMAIN req[a].results : req[a].results[i] = "approval"}]]
    /\ Goto(a, "idle", Idle)
    /\ UNCHANGED <<safe, overrides, llmOn, approvals, bounds, ghosts>>

\* The disk is full: the audit's episode, the approval, the memory or the
\* task history cannot be written.
WriteRaises(a) ==
    /\ \/ phase[a] \in {"answer", "record", "upsert"}
       \/ phase[a] = "step" /\ Step(a).skill # NoSkill
    /\ faults < MaxFaults
    /\ faults' = faults + 1
    /\ Raise(a, TRUE)
    /\ UNCHANGED <<safe, overrides, llmOn, approvals, tasks, chats, changes, wanted, lost>>

-----------------------------------------------------------------------------
(* The operator: safe mode and the permissions policy.                     *)

ToggleSafeMode ==
    /\ changes < MaxChanges
    /\ changes' = changes + 1
    /\ safe' = ~safe
    /\ excused' = excused \cup Running
    /\ UNCHANGED <<overrides, llmOn, approvals, tasks, phase, req, chats, faults, wanted, lost>>

\* The routes of routes_security and the page of the web interface.
BeginChange(a, op, scopes) ==
    /\ phase[a] = "idle"
    /\ changes < MaxChanges
    /\ changes' = changes + 1
    /\ Goto(a, "policy", [Idle EXCEPT !.op = op,
               !.scopes = IF op = "reset" THEN DefaultRules ELSE scopes])
    /\ UNCHANGED <<safe, overrides, llmOn, approvals, tasks, chats, faults, ghosts>>

\* The page is refused in safe mode and replaces the file without reading it.
\* It posts both lists; here they are the same.
ReadPolicy(a) ==
    /\ phase[a] = "policy"
    /\ IF req[a].op # "page" THEN Goto(a, "load", [req[a] EXCEPT !.policy = Policy])
       ELSE IF safe THEN Goto(a, "idle", Idle)
       ELSE Goto(a, "save", [req[a] EXCEPT !.loaded = [saved |-> TRUE,
                                 enabled |-> req[a].scopes, rules |-> req[a].scopes]])
    /\ Quiet

\* disable reads the file twice.
LoadEnabled(a) ==
    /\ phase[a] = "load" /\ req[a].op = "disable"
    /\ Goto(a, "reload", [req[a] EXCEPT !.enabled =
          IF overrides.saved THEN overrides.enabled ELSE req[a].policy.enabled])
    /\ Quiet

\* A mistaken form of Changed: enabling keeps the new scopes only.
ChangedToNew(a) ==
    LET rules == IF overrides.saved THEN overrides.rules ELSE req[a].policy.rules
        enabled == IF overrides.saved THEN overrides.enabled ELSE req[a].policy.enabled
    IN  CASE req[a].op = "enable" -> [saved |-> TRUE, rules |-> rules, enabled |-> req[a].scopes]
          [] req[a].op = "disable" ->
               [saved |-> TRUE, rules |-> rules, enabled |-> req[a].enabled \ req[a].scopes]
          [] OTHER -> [saved |-> TRUE, rules |-> req[a].scopes, enabled |-> enabled]

\* The file's lists changed; a list the file lacks is that of the policy,
\* except that enabling starts from an empty list.
Changed(a) ==
    LET rules == IF overrides.saved THEN overrides.rules ELSE req[a].policy.rules
        enabled == IF overrides.saved THEN overrides.enabled ELSE req[a].policy.enabled
    IN  CASE req[a].op = "enable" ->
               [saved |-> TRUE, rules |-> rules, enabled |-> overrides.enabled \cup req[a].scopes]
          [] req[a].op = "disable" ->
               [saved |-> TRUE, rules |-> rules, enabled |-> req[a].enabled \ req[a].scopes]
          [] OTHER -> [saved |-> TRUE, rules |-> req[a].scopes, enabled |-> enabled]

LoadOverrides(a) ==
    /\ \/ phase[a] = "load" /\ req[a].op # "disable"
       \/ phase[a] = "reload"
    /\ Goto(a, "save", [req[a] EXCEPT !.loaded = Changed(a)])
    /\ Quiet

\* What the change asks of the policy as it is.  The first list of enabled
\* scopes that is saved by enabling replaces that of the environment.
Intended(op, scopes) ==
    LET enabled == IF op = "enable" /\ ~overrides.saved THEN {} ELSE wanted.enabled
    IN  [saved |-> TRUE,
         enabled |-> CASE op = "enable" -> enabled \cup scopes
                       [] op = "disable" -> enabled \ scopes
                       [] op = "page" -> scopes
                       [] OTHER -> enabled,
         rules |-> IF op \in {"rules", "reset", "page"} THEN scopes ELSE wanted.rules]

SavePolicy(a) ==
    /\ phase[a] = "save"
    /\ overrides' = req[a].loaded
    /\ wanted' = Intended(req[a].op, req[a].scopes)
    /\ lost' = (lost \/ req[a].stale)
    /\ excused' = excused \cup Running
    /\ phase' = [phase EXCEPT ![a] = "idle"]
    /\ req' = [b \in Actors |->
          IF b = a THEN Idle
          ELSE [req[b] EXCEPT !.stale = @ \/ (phase[b] \in {"reload", "save"}
                                              /\ req[b].op # "page")]]
    /\ UNCHANGED <<safe, llmOn, approvals, tasks, bounds>>

-----------------------------------------------------------------------------
\* The process dies; the orchestrator of the next one asks again whether the
\* planner may use the language model.
Crash ==
    /\ faults < MaxFaults
    /\ faults' = faults + 1
    /\ phase' = [a \in Actors |-> "idle"]
    /\ req' = [a \in Actors |-> Idle]
    /\ llmOn' = ~safe
    /\ excused' = excused \cup Running
    /\ UNCHANGED <<safe, overrides, approvals, tasks, chats, changes, wanted, lost>>

Chat(a) ==
    \/ FallBack(a) \/ LlmFails(a) \/ LlmUnusable(a)
    \/ \E plan \in Answers : LlmPlans(a, plan)
    \/ ReviewAsks(a) \/ ReviewRaises(a) \/ ReviewPasses(a)
    \/ CheckScopes(a) \/ CheckSafeMode(a)
    \/ CreateRaises(a) \/ CreateChecked(a) \/ CreatePending(a)
    \/ \E ok \in BOOLEAN : Run(a, ok)
    \/ Answer(a) \/ Record(a) \/ WriteRaises(a)

Change(a) == ReadPolicy(a) \/ LoadEnabled(a) \/ LoadOverrides(a) \/ SavePolicy(a)

Next ==
    \/ \E a \in Actors :
          \/ \E plan \in {<<>>} \cup {<<step>> : step \in Commands} : BeginChat(a, plan)
          \/ \E op \in {"enable", "disable", "rules", "reset", "page"}, s \in Scopes :
                BeginChange(a, op, {s})
          \/ Chat(a) \/ Change(a)
    \/ ToggleSafeMode
    \/ Crash

Spec == Init /\ [][Next]_vars

-----------------------------------------------------------------------------
(* Properties.                                                             *)

(***************************************************************************)
(* The requests, the overrides and the records have the values that the    *)
(* orchestrator, the executor and the routes give them; a request has at   *)
(* most one result for each step.                                          *)
(***************************************************************************)
TypeOK ==
    /\ safe \in BOOLEAN /\ llmOn \in BOOLEAN /\ lost \in BOOLEAN
    /\ overrides \in Policies /\ wanted \in Policies
    /\ phase \in [Actors -> {"idle"} \cup Chatting \cup Changing]
    /\ \A a \in Actors :
         /\ req[a].plan \in Seq(Steps)
         /\ req[a].results \in Seq(Results)
         /\ Len(req[a].results) <= Len(req[a].plan)
    /\ \A p \in approvals : p.n \in 1..MaxChats /\ p.args \in Args
    /\ chats \in 0..MaxChats /\ changes \in 0..MaxChanges /\ faults \in 0..MaxFaults
    /\ excused \subseteq 1..MaxChats

(***************************************************************************)
(* A chat never runs a write skill, whatever the language model says of    *)
(* the step: it asks for approval.                                         *)
(***************************************************************************)
WritesNeedApproval ==
    \A a \in Actors : phase[a] = "run" => Step(a).skill \notin WriteSkills

(***************************************************************************)
(* Nothing is done of a plan about which the critic has a question, not    *)
(* even the steps before the one in question; and what is proposed has     *)
(* been checked and normalised.                                            *)
(***************************************************************************)
OnlyReviewedSteps ==
    \A p \in approvals :
        /\ p.args = "fine"
        /\ tasks[p.n] # NoTask => tasks[p.n].answer # "question"

(***************************************************************************)
(* A finished request has a task record that lists exactly the approvals   *)
(* it created, and tells the user of one if there is one.  The exceptions: *)
(* a crash or a failed write ended it, its arguments were not an object,   *)
(* the plan wanted an approval of a read skill, or safe mode or the policy *)
(* changed while it ran.                                                   *)
(***************************************************************************)
Recorded ==
    \A n \in (1..chats) \ (Running \cup excused) :
        LET proposed == {p.i : p \in {p \in approvals : p.n = n}}
        IN  /\ tasks[n] # NoTask
            /\ tasks[n].approvals = proposed
            /\ proposed # {} => tasks[n].answer = "approval"

(***************************************************************************)
(* The policy in force is what the changes asked for one after the other,  *)
(* in whatever order their reads and saves came, unless one was saved over *)
(* another that it had not read.                                           *)
(***************************************************************************)
PolicyIsWanted ==
    ~lost => Policy.enabled = wanted.enabled /\ Policy.rules = wanted.rules
=============================================================================
