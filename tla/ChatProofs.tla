----------------------------- MODULE ChatProofs -----------------------------
(***************************************************************************)
(* Proofs about Chat, for every number of threads, skills and scopes,      *)
(* every set of commands and of answers of the language model, whatever    *)
(* their length, and every bound.                                          *)
(***************************************************************************)
EXTENDS Chat, TLAPS

-----------------------------------------------------------------------------
(* Types.                                                                  *)

ChangeOps == {"enable", "disable", "rules", "reset", "page"}

Requests ==
    [op : {"none", "chat"} \cup ChangeOps, n : 0..MaxChats, plan : Seq(Steps),
     tries : 0..1, results : Seq(Results), answer : {"none"} \cup Outcomes,
     scopes : SUBSET Scopes, policy : Policies, enabled : SUBSET Scopes,
     loaded : Policies, stale : BOOLEAN]

Types ==
    /\ safe \in BOOLEAN /\ llmOn \in BOOLEAN /\ lost \in BOOLEAN
    /\ overrides \in Policies /\ wanted \in Policies
    /\ approvals \subseteq [n : 1..MaxChats, i : Nat \ {0}, args : Args]
    /\ tasks \in [1..MaxChats -> Records \cup {NoTask}]
    /\ phase \in [Actors -> {"idle"} \cup Chatting \cup Changing]
    /\ req \in [Actors -> Requests]
    /\ chats \in 0..MaxChats /\ changes \in 0..MaxChanges /\ faults \in 0..MaxFaults
    /\ excused \subseteq 1..MaxChats

-----------------------------------------------------------------------------
(* A chat request.                                                         *)

Executing == {"step", "safe", "create", "scopes", "upsert", "run"}

StepOf(w) == w.plan[Len(w.results) + 1]
ProposedBy(w) == {i \in DOMAIN w.results : w.results[i] = "approval"}
Proposed(n) == {p.i : p \in {p \in approvals : p.n = n}}

\* Nothing is executed before the review, and the steps executed are reviewed
\* ones; the executor is at a step of its plan.
LocatedAt(p, w) ==
    /\ Len(w.results) <= Len(w.plan)
    /\ p \in Chatting => w.n \in 1..chats
    /\ p \in {"plan", "review"} => w.results = <<>>
    /\ p = "review" => w.plan # <<>>
    /\ p \in Executing =>
          /\ Len(w.results) < Len(w.plan)
          /\ \A i \in DOMAIN w.plan : Reviewed(w.plan[i]) => w.plan[i].args = "fine"
    /\ p \in Executing \ {"step"} => StepOf(w).skill \in Skills
    /\ p \in {"scopes", "upsert"} => StepOf(w).skill \in WriteSkills
    /\ p = "run" => StepOf(w).skill \notin WriteSkills
    /\ p = "record" => w.answer \in Outcomes
    /\ p = "record" /\ w.answer = "question" => w.results = <<>>

\* While safe mode and the policy stay what they were, what the checks of the
\* request found still holds.
SteadyAt(p, w) ==
    p \in Chatting /\ w.n \notin excused =>
        /\ \A i \in DOMAIN w.results : /\ w.results[i] = "safe" => safe
                                       /\ w.results[i] = "approval" => ~safe
        /\ p \in {"create", "scopes", "upsert"} =>
              (StepOf(w).skill \in WriteSkills => ~safe)
        /\ p \in {"safe", "create", "scopes"} => ScopeEnabled(ScopeOf[StepOf(w).skill])
        /\ p = "record" /\ ProposedBy(w) # {} => w.answer = "approval"

\* The approvals of a request are those its results tell of.
CountedAt(p, w) ==
    p \in Chatting => tasks[w.n] = NoTask /\ Proposed(w.n) = ProposedBy(w)

\* What is left of the requests that have ended and of those to come.
HistoryAt(n) ==
    /\ n > chats => tasks[n] = NoTask /\ Proposed(n) = {}
    /\ n <= chats /\ n \notin Running =>
         /\ n \notin excused => /\ tasks[n] # NoTask
                                /\ tasks[n].approvals = Proposed(n)
                                /\ Proposed(n) # {} => tasks[n].answer = "approval"
         /\ tasks[n] # NoTask /\ tasks[n].answer = "question" => Proposed(n) = {}

ThreadAt(a) ==
    /\ LocatedAt(phase[a], req[a])
    /\ SteadyAt(phase[a], req[a])
    /\ CountedAt(phase[a], req[a])

ThreadInv == \A a \in Actors : ThreadAt(a)

Distinct ==
    \A a, b \in Actors : /\ phase[a] \in Chatting /\ phase[b] \in Chatting
                         /\ req[a].n = req[b].n
                         => a = b

ChatInv ==
    /\ ThreadInv
    /\ Distinct
    /\ \A n \in 1..MaxChats : HistoryAt(n)
    /\ \A p \in approvals : p.args = "fine"

-----------------------------------------------------------------------------
(* A change of the policy.                                                 *)

\* What a change writes is what it asks of the policy that it has read.
ChangeAt(p, w) ==
    /\ p \in {"policy", "load", "reload", "save"} => w.op \in ChangeOps
    /\ p \in {"load", "reload"} => w.op # "page"
    /\ p = "reload" => w.op = "disable"
    /\ p \in {"load", "reload"} /\ ~overrides.saved => w.policy = Policy
    /\ p = "reload" /\ ~w.stale => w.enabled = Policy.enabled
    /\ p = "save" => w.loaded.saved
    /\ p = "save" /\ w.op = "page" => /\ w.loaded.enabled = w.scopes
                                      /\ w.loaded.rules = w.scopes
    /\ p = "save" /\ w.op # "page" /\ ~w.stale =>
          /\ w.loaded.enabled = CASE w.op = "enable" -> overrides.enabled \cup w.scopes
                                  [] w.op = "disable" -> Policy.enabled \ w.scopes
                                  [] OTHER -> Policy.enabled
          /\ w.loaded.rules = IF w.op \in {"rules", "reset"} THEN w.scopes ELSE Policy.rules

PolicyInv ==
    /\ \A a \in Actors : ChangeAt(phase[a], req[a])
    /\ ~overrides.saved => overrides = NoOverrides
    /\ PolicyIsWanted

-----------------------------------------------------------------------------
(***************************************************************************)
(* The requests that begin, the plans that need no language model and the  *)
(* policies that the environment sets have their types.                    *)
(***************************************************************************)
LEMMA StartTypes ==
    /\ Idle \in Requests /\ Idle.results = <<>> /\ Idle.plan = <<>>
    /\ NoOverrides \in Policies
    /\ Answers \subseteq Seq(Steps) /\ <<NoStep, NoStep>> \in Seq(Steps)
    /\ \A step \in Commands : <<step>> \in Seq(Steps)
    /\ Types => Policy \in Policies
<1>1. NoOverrides \in Policies
  BY DEF NoOverrides, Policies
<1>2. <<>> \in Seq(Steps) /\ <<>> \in Seq(Results)
  OBVIOUS
<1>3. Idle \in Requests /\ Idle.results = <<>> /\ Idle.plan = <<>>
  BY <1>1, <1>2, ChatConstants DEF Idle, Requests
<1>4. NoStep \in Steps
  BY DEF NoStep, Steps, Args
<1>5. \A step \in Commands : step \in Steps
  BY ChatConstants DEF Steps
<1>6. Types => Policy \in Policies
  BY ChatConstants DEF Types, Policy, Policies
<1> QED
  BY <1>1, <1>3, <1>4, <1>5, <1>6, ChatConstants

(***************************************************************************)
(* The review changes the arguments of the write steps only, and leaves    *)
(* none that is not fine if it has found none to stop at.                  *)
(***************************************************************************)
LEMMA NormalisedPlan ==
    ASSUME NEW plan \in Seq(Steps)
    PROVE  LET new == [i \in DOMAIN plan |-> Normalised(plan[i])]
           IN  /\ new \in Seq(Steps) /\ Len(new) = Len(plan) /\ DOMAIN new = DOMAIN plan
               /\ \A i \in DOMAIN new : Reviewed(new[i]) => new[i].args = "fine"
<1> DEFINE new == [i \in DOMAIN plan |-> Normalised(plan[i])]
<1>1. \A step \in Steps : /\ Normalised(step) \in Steps
                          /\ Reviewed(Normalised(step)) => Normalised(step).args = "fine"
  BY DEF Normalised, Steps, Args, Reviewed
<1>2. DOMAIN plan = 1..Len(plan) /\ Len(plan) \in Nat
      /\ \A i \in DOMAIN plan : plan[i] \in Steps
  OBVIOUS
<1>3. new \in [1..Len(plan) -> Steps]
  BY <1>1, <1>2
<1>4. new \in Seq(Steps) /\ Len(new) = Len(plan)
  BY <1>2, <1>3
<1>5. \A i \in DOMAIN new : Reviewed(new[i]) => new[i].args = "fine"
  BY <1>1, <1>2
<1> QED
  BY <1>2, <1>4, <1>5

(***************************************************************************)
(* A thread that goes on with a request keeps the types of the threads.    *)
(***************************************************************************)
LEMMA GotoTypes ==
    ASSUME Types, NEW a \in Actors, NEW to \in {"idle"} \cup Chatting \cup Changing,
           NEW work \in Requests, Goto(a, to, work)
    PROVE  /\ phase' \in [Actors -> {"idle"} \cup Chatting \cup Changing]
           /\ req' \in [Actors -> Requests]
  BY DEF Goto, Types

(***************************************************************************)
(* The result of a step is one more result, and the executor goes on to    *)
(* the next step or to the answer.                                         *)
(***************************************************************************)
LEMMA ResultTypes ==
    ASSUME Types, NEW a \in Actors, NEW result \in Results, Result(a, result)
    PROVE  /\ phase' \in [Actors -> {"idle"} \cup Chatting \cup Changing]
           /\ req' \in [Actors -> Requests]
<1> DEFINE results == Append(req[a].results, result)
           work == [req[a] EXCEPT !.results = results]
           to == IF Index(a) = Len(req[a].plan) THEN "answer" ELSE "step"
<1>1. Goto(a, to, work)
  BY DEF Result
<1>2. req[a] \in Requests /\ results \in Seq(Results)
  BY DEF Types, Requests
<1> HIDE DEF results
<1>3. work \in Requests
  BY <1>2 DEF Requests
<1>4. to \in {"idle"} \cup Chatting \cup Changing
  BY DEF Chatting
<1> QED
  BY <1>1, <1>3, <1>4, GotoTypes

(***************************************************************************)
(* Every step keeps the types.                                             *)
(***************************************************************************)
LEMMA TypesStep == Types /\ ThreadInv /\ [Next]_vars => Types'
<1> SUFFICES ASSUME Types, ThreadInv, [Next]_vars PROVE Types'
  OBVIOUS
<1> USE ChatConstants, StartTypes DEF bounds, ghosts, Quiet
<1> DEFINE Threads == /\ phase' \in [Actors -> {"idle"} \cup Chatting \cup Changing]
                      /\ req' \in [Actors -> Requests]
<1>0. ASSUME NEW a \in Actors
      PROVE  /\ req[a] \in Requests /\ LocatedAt(phase[a], req[a])
             /\ phase[a] \in Chatting => req[a].n \in 1..MaxChats
  BY DEF Types, ThreadInv, ThreadAt, LocatedAt
<1>r. Running \in SUBSET (1..MaxChats)
  BY <1>0 DEF Running
<1>i. ASSUME NEW a \in Actors, Goto(a, "idle", Idle) PROVE Threads
  BY <1>i, GotoTypes
<1>1. ASSUME NEW a \in Actors, NEW plan \in {<<>>} \cup {<<step>> : step \in Commands},
             BeginChat(a, plan)
      PROVE  Types'
  <2> DEFINE n == chats + 1
             work == [Idle EXCEPT !.op = "chat", !.n = n, !.plan = plan]
             to == IF plan = <<>> THEN "plan" ELSE "review"
  <2>1. Goto(a, to, work) /\ n \in 1..MaxChats /\ n \in 0..MaxChats
    BY <1>1 DEF BeginChat, Types
  <2>2. plan \in Seq(Steps) /\ to \in Chatting
    <3>1. <<>> \in Seq(Steps)
      OBVIOUS
    <3> QED
      BY <3>1 DEF Chatting
  <2> HIDE DEF n
  <2>3. work \in Requests
    BY <2>1, <2>2 DEF Requests
  <2> HIDE DEF to, work
  <2>4. Threads
    BY <2>1, <2>2, <2>3, GotoTypes
  <2> QED
    BY <1>1, <2>4 DEF BeginChat, Types
<1>2. ASSUME NEW a \in Actors, NEW plan \in Seq(Steps), Planned(a, plan), Quiet
      PROVE  Types'
  <2> DEFINE work == [req[a] EXCEPT !.plan = plan, !.tries = 0]
  <2>1. work \in Requests /\ "review" \in Chatting
    <3>1. \A tries \in 0..1 : [req[a] EXCEPT !.plan = plan, !.tries = tries] \in Requests
      BY <1>0 DEF Requests
    <3> QED
      BY <3>1 DEF Chatting
  <2>2. Threads
    BY <1>2, <2>1, GotoTypes DEF Planned
  <2> QED
    BY <1>2, <2>2 DEF Types
<1>3. ASSUME NEW a \in Actors,
             FallBack(a) \/ LlmFails(a) \/ LlmUnusable(a)
               \/ \E plan \in Answers : LlmPlans(a, plan)
      PROVE  Types'
  <2>1. CASE Goto(a, "plan", [req[a] EXCEPT !.tries = 1]) /\ Quiet
    <3>1. [req[a] EXCEPT !.tries = 1] \in Requests /\ "plan" \in Chatting
      <4>1. \A tries \in 0..1 : [req[a] EXCEPT !.tries = tries] \in Requests
        BY <1>0 DEF Requests
      <4> QED
        BY <4>1 DEF Chatting
    <3>2. Threads
      BY <2>1, <3>1, GotoTypes
    <3> QED
      BY <2>1, <3>2 DEF Types
  <2> QED
    BY <1>2, <1>3, <2>1 DEF FallBack, LlmFails, LlmUnusable, LlmPlans
<1>4. ASSUME NEW a \in Actors, ReviewAsks(a) PROVE Types'
  <2>1. [req[a] EXCEPT !.answer = "question"] \in Requests /\ "record" \in Chatting
    BY <1>0 DEF Requests, Chatting, Outcomes
  <2>2. Threads
    BY <1>4, <2>1, GotoTypes DEF ReviewAsks
  <2> QED
    BY <1>4, <2>2 DEF ReviewAsks, Types
<1>5. ASSUME NEW a \in Actors, ReviewPasses(a) PROVE Types'
  <2> DEFINE plan == [i \in DOMAIN req[a].plan |-> Normalised(req[a].plan[i])]
             work == [req[a] EXCEPT !.plan = plan]
  <2>1. req[a] \in Requests /\ req[a].plan \in Seq(Steps)
    BY <1>0 DEF Requests
  <2>2. plan \in Seq(Steps)
    BY <2>1, NormalisedPlan
  <2>3. Goto(a, "step", work)
    BY <1>5 DEF ReviewPasses
  <2> HIDE DEF plan
  <2>4. work \in Requests /\ "step" \in Chatting
    BY <2>1, <2>2 DEF Requests, Chatting
  <2>5. Threads
    BY <2>3, <2>4, GotoTypes
  <2> QED
    BY <1>5, <2>5 DEF ReviewPasses, Types
<1>6. ASSUME NEW a \in Actors, CheckScopes(a) \/ CheckSafeMode(a) \/ CreateChecked(a)
               \/ \E ok \in BOOLEAN : Run(a, ok)
      PROVE  Types'
  <2>1. Quiet /\ ( \/ \E result \in Results : Result(a, result)
                   \/ \E to \in Chatting : Goto(a, to, req[a]) )
    BY <1>6 DEF CheckScopes, CheckSafeMode, CreateChecked, Run, Results, Chatting
  <2>2. Threads
    BY <1>0, <2>1, GotoTypes, ResultTypes
  <2> QED
    BY <2>1, <2>2 DEF Types
<1>7. ASSUME NEW a \in Actors, CreatePending(a) PROVE Types'
  <2>1. Threads
    BY <1>7, ResultTypes DEF CreatePending, Results
  <2>2. /\ req[a].n \in 1..MaxChats /\ req[a].plan \in Seq(Steps)
        /\ req[a].results \in Seq(Results) /\ Len(req[a].results) < Len(req[a].plan)
    BY <1>0, <1>7 DEF CreatePending, LocatedAt, Requests, Chatting, Executing
  <2>3. Index(a) \in Nat \ {0} /\ Step(a) \in Steps
    BY <2>2 DEF Index, Step
  <2>4. approvals' \subseteq [n : 1..MaxChats, i : Nat \ {0}, args : Args]
    BY <1>7, <2>2, <2>3 DEF CreatePending, Types, Steps
  <2> QED
    BY <1>7, <2>1, <2>4 DEF CreatePending, Types
<1>8. ASSUME NEW a \in Actors, Answer(a) PROVE Types'
  <2>1. PICK answer \in Outcomes :
            Goto(a, "record", [req[a] EXCEPT !.answer = answer])
    BY <1>8 DEF Answer, Outcomes
  <2>2. [req[a] EXCEPT !.answer = answer] \in Requests /\ "record" \in Chatting
    BY <1>0 DEF Requests, Chatting
  <2>3. Threads
    BY <2>1, <2>2, GotoTypes
  <2> QED
    BY <1>8, <2>3 DEF Answer, Types
<1>9. ASSUME NEW a \in Actors, Record(a) PROVE Types'
  <2> DEFINE record == [answer |-> req[a].answer, approvals |-> ProposedBy(req[a])]
  <2>1. /\ req[a].answer \in Outcomes /\ req[a].n \in 1..MaxChats
        /\ req[a].results \in Seq(Results)
    BY <1>0, <1>9 DEF Record, LocatedAt, Chatting, Requests
  <2>2. record \in Records
    BY <2>1 DEF Records, ProposedBy
  <2>3. tasks' = [tasks EXCEPT ![req[a].n] = record]
    BY <1>9 DEF Record, ProposedBy
  <2>4. Threads
    BY <1>9, <1>i DEF Record
  <2> QED
    BY <1>9, <2>1, <2>2, <2>3, <2>4 DEF Record, Types
<1>10. ASSUME NEW a \in Actors, ReviewRaises(a) \/ CreateRaises(a) \/ WriteRaises(a)
       PROVE  Types'
  <2>1. Threads
    BY <1>10, <1>i DEF ReviewRaises, CreateRaises, WriteRaises, Raise
  <2>2. phase[a] \in Chatting
    BY <1>10 DEF ReviewRaises, CreateRaises, WriteRaises, Chatting
  <2>3. excused' \in {excused, excused \cup {req[a].n}}
    BY <1>10 DEF ReviewRaises, CreateRaises, WriteRaises, Raise
  <2>4. excused' \subseteq 1..MaxChats
    BY <1>0, <2>2, <2>3 DEF Types
  <2>5. CASE ReviewRaises(a) \/ CreateRaises(a)
    BY <2>1, <2>4, <2>5 DEF ReviewRaises, CreateRaises, Types
  <2>6. CASE WriteRaises(a)
    BY <2>1, <2>4, <2>6 DEF WriteRaises, Types
  <2> QED
    BY <1>10, <2>5, <2>6
<1>11. ASSUME NEW a \in Actors, NEW op \in ChangeOps, NEW s \in Scopes,
              BeginChange(a, op, {s})
       PROVE  Types'
  <2> DEFINE scopes == IF op = "reset" THEN DefaultRules ELSE {s}
             work == [Idle EXCEPT !.op = op, !.scopes = scopes]
  <2>1. Goto(a, "policy", work)
    BY <1>11 DEF BeginChange
  <2>2. scopes \in SUBSET Scopes
    OBVIOUS
  <2> HIDE DEF scopes
  <2>3. work \in Requests /\ "policy" \in Changing
    BY <2>2 DEF Requests, Changing
  <2>4. Threads
    BY <2>1, <2>3, GotoTypes
  <2> QED
    BY <1>11, <2>4 DEF BeginChange, Types
<1>12. ASSUME NEW a \in Actors, ReadPolicy(a) PROVE Types'
  <2>1. /\ [req[a] EXCEPT !.policy = Policy] \in Requests
        /\ {"load", "save"} \subseteq Changing
    BY <1>0 DEF Requests, Changing
  <2> DEFINE page == [saved |-> TRUE, enabled |-> req[a].scopes, rules |-> req[a].scopes]
  <2>2. [req[a] EXCEPT !.loaded = page] \in Requests
    <3>1. page \in Policies
      BY <1>0 DEF Requests, Policies
    <3> HIDE DEF page
    <3> QED
      BY <1>0, <3>1 DEF Requests
  <2>3. Threads
    BY <1>12, <1>i, <2>1, <2>2, GotoTypes DEF ReadPolicy
  <2> QED
    BY <1>12, <2>3 DEF ReadPolicy, Types
<1>13. ASSUME NEW a \in Actors, LoadEnabled(a) PROVE Types'
  <2> DEFINE enabled == IF overrides.saved THEN overrides.enabled ELSE req[a].policy.enabled
  <2>1. enabled \in SUBSET Scopes
    BY <1>0 DEF Requests, Types, Policies
  <2>2. Goto(a, "reload", [req[a] EXCEPT !.enabled = enabled])
    BY <1>13 DEF LoadEnabled
  <2> HIDE DEF enabled
  <2>3. [req[a] EXCEPT !.enabled = enabled] \in Requests /\ "reload" \in Changing
    BY <1>0, <2>1 DEF Requests, Changing
  <2>4. Threads
    BY <2>2, <2>3, GotoTypes
  <2> QED
    BY <1>13, <2>4 DEF LoadEnabled, Types
<1>14. ASSUME NEW a \in Actors, LoadOverrides(a) PROVE Types'
  <2> DEFINE changed == Changed(a)
  <2>1. changed \in Policies
    BY <1>0 DEF Changed, Requests, Types, Policies
  <2>2. Goto(a, "save", [req[a] EXCEPT !.loaded = changed])
    BY <1>14 DEF LoadOverrides
  <2> HIDE DEF changed
  <2>3. [req[a] EXCEPT !.loaded = changed] \in Requests /\ "save" \in Changing
    BY <1>0, <2>1 DEF Requests, Changing
  <2>4. Threads
    BY <2>2, <2>3, GotoTypes
  <2> QED
    BY <1>14, <2>4 DEF LoadOverrides, Types
<1>15. ASSUME NEW a \in Actors, SavePolicy(a) PROVE Types'
  <2>1. overrides' \in Policies
    BY <1>0, <1>15 DEF SavePolicy, Requests
  <2>2. wanted' \in Policies
    <3>1. req[a].scopes \in SUBSET Scopes
      BY <1>0 DEF Requests
    <3> QED
      BY <1>15, <3>1 DEF SavePolicy, Intended, Types, Policies
  <2>3. req' \in [Actors -> Requests]
    <3>1. ASSUME NEW b \in Actors PROVE req'[b] \in Requests
      <4> DEFINE st == req[b].stale \/ (phase[b] \in {"reload", "save"} /\ req[b].op # "page")
      <4>1. req'[b] \in {Idle, [req[b] EXCEPT !.stale = st]}
        BY <1>15 DEF SavePolicy
      <4>2. st \in BOOLEAN
        BY <1>0 DEF Requests
      <4> HIDE DEF st
      <4> QED
        BY <1>0, <4>1, <4>2 DEF Requests
    <3> QED
      BY <1>15, <3>1 DEF SavePolicy
  <2>4. lost' \in BOOLEAN /\ excused' \subseteq 1..MaxChats
    BY <1>0, <1>15, <1>r DEF SavePolicy, Types, Requests
  <2> QED
    BY <1>15, <2>1, <2>2, <2>3, <2>4 DEF SavePolicy, Types
<1>16. CASE ToggleSafeMode
  BY <1>16, <1>r DEF ToggleSafeMode, Types
<1>17. CASE Crash
  BY <1>17, <1>r DEF Crash, Types
<1>18. CASE UNCHANGED vars
  BY <1>18 DEF vars, Types
<1> QED
  BY <1>1, <1>3, <1>4, <1>5, <1>6, <1>7, <1>8, <1>9, <1>10, <1>11, <1>12, <1>13,
     <1>14, <1>15, <1>16, <1>17, <1>18
     DEF Next, Chat, Change, ChangeOps

-----------------------------------------------------------------------------
(***************************************************************************)
(* What holds of a request in progress goes on to hold while the request   *)
(* and its approvals stay what they are, and either safe mode and the      *)
(* policy do, too, or the request is excused.                              *)
(***************************************************************************)
LEMMA StaysAt ==
    ASSUME Types, ThreadInv, NEW b \in Actors, phase'[b] = phase[b],
           req'[b].n = req[b].n, req'[b].plan = req[b].plan,
           req'[b].results = req[b].results, req'[b].answer = req[b].answer,
           chats' \in {chats, chats + 1}, excused \subseteq excused',
           \/ UNCHANGED <<safe, overrides>> \/ phase[b] \notin Chatting
           \/ req[b].n \in excused',
           phase[b] \in Chatting => /\ tasks'[req[b].n] = tasks[req[b].n]
                                    /\ \A p : p.n = req[b].n =>
                                          (p \in approvals' <=> p \in approvals)
    PROVE  ThreadAt(b)'
<1> USE DEF ThreadInv, ThreadAt
<1>1. LocatedAt(phase[b], req[b])'
  BY DEF LocatedAt, StepOf, Types
<1>2. SteadyAt(phase[b], req[b])'
  <2>1. CASE UNCHANGED <<safe, overrides>>
    BY <2>1 DEF SteadyAt, StepOf, ProposedBy, ScopeEnabled, Policy
  <2>2. CASE phase[b] \notin Chatting \/ req[b].n \in excused'
    BY <2>2 DEF SteadyAt
  <2> QED BY <2>1, <2>2
<1>3. CountedAt(phase[b], req[b])'
  BY DEF CountedAt, Proposed, ProposedBy
<1> QED
  BY <1>1, <1>2, <1>3

(***************************************************************************)
(* What holds of the requests that have ended or have not begun goes on to *)
(* hold when no approval and no record is written and the requests that    *)
(* end meanwhile are excused.                                              *)
(***************************************************************************)
LEMMA HistoryKept ==
    ASSUME Types, ChatInv, NEW n \in 1..MaxChats, UNCHANGED <<chats, approvals, tasks>>,
           excused \subseteq excused', n \in Running => n \in Running' \/ n \in excused'
    PROVE  HistoryAt(n)'
<1>1. HistoryAt(n)
  BY DEF ChatInv
<1>2. n \in Running => tasks[n] = NoTask
  BY DEF Running, ChatInv, ThreadInv, ThreadAt, CountedAt
<1> QED
  BY <1>1, <1>2 DEF HistoryAt, Proposed

(***************************************************************************)
(* A step within a request that creates no approval: it suffices that the  *)
(* request is where its checks and its results say.                        *)
(***************************************************************************)
LEMMA GoesOn ==
    ASSUME Types, ChatInv, NEW a \in Actors, phase[a] \in Chatting,
           NEW to \in Chatting, NEW work \in Requests, work.n = req[a].n,
           LocatedAt(to, work), SteadyAt(to, work),
           ProposedBy(work) = ProposedBy(req[a]), Goto(a, to, work),
           UNCHANGED <<safe, overrides, approvals, tasks, chats, excused>>
    PROVE  ChatInv'
<1>1. /\ phase'[a] = to /\ req'[a] = work
      /\ \A b \in Actors \ {a} : phase'[b] = phase[b] /\ req'[b] = req[b]
  BY DEF Goto, Types
<1>2. ThreadAt(a)'
  <2>1. LocatedAt(phase[a], req[a])'
    BY <1>1 DEF LocatedAt, StepOf
  <2>2. SteadyAt(phase[a], req[a])'
    BY <1>1 DEF SteadyAt, StepOf, ProposedBy, ScopeEnabled, Policy
  <2>3. CountedAt(phase[a], req[a])'
    BY <1>1 DEF ChatInv, ThreadInv, ThreadAt, CountedAt, Proposed, ProposedBy
  <2> QED
    BY <2>1, <2>2, <2>3 DEF ThreadAt
<1>3. ThreadInv'
  <2>1. ASSUME NEW b \in Actors, b # a PROVE ThreadAt(b)'
    BY <1>1, <2>1, StaysAt DEF ChatInv, Types
  <2> QED
    BY <1>2, <2>1 DEF ThreadInv
<1>4. Distinct'
  BY <1>1 DEF ChatInv, Distinct
<1>5. ASSUME NEW n \in 1..MaxChats PROVE HistoryAt(n)'
  <2>1. n \in Running => n \in Running'
    <3>1. ASSUME NEW b \in Actors, phase[b] \in Chatting, n = req[b].n
          PROVE  phase'[b] \in Chatting /\ n = req'[b].n
      BY <1>1, <3>1
    <3> QED
      BY <3>1 DEF Running
  <2> QED
    BY <2>1, HistoryKept
<1> QED
  BY <1>3, <1>4, <1>5 DEF ChatInv

(***************************************************************************)
(* A request that ends without a record must be excused.                   *)
(***************************************************************************)
LEMMA EndsExcused ==
    ASSUME Types, ChatInv, NEW a \in Actors, phase[a] \in Chatting,
           Goto(a, "idle", Idle), excused' \subseteq excused \cup {req[a].n},
           excused \subseteq excused', req[a].n \in excused',
           UNCHANGED <<safe, overrides, approvals, tasks, chats>>
    PROVE  ChatInv'
<1>1. /\ phase'[a] = "idle" /\ req'[a] = Idle
      /\ \A b \in Actors \ {a} : phase'[b] = phase[b] /\ req'[b] = req[b]
  BY DEF Goto, Types
<1>2. ThreadAt(a)'
  BY <1>1, StartTypes
     DEF ThreadAt, LocatedAt, SteadyAt, CountedAt, Chatting, Executing
<1>3. ThreadInv'
  <2>1. ASSUME NEW b \in Actors, b # a PROVE ThreadAt(b)'
    BY <1>1, <2>1, StaysAt DEF ChatInv, Types
  <2> QED
    BY <1>2, <2>1 DEF ThreadInv
<1>4. Distinct'
  <2>1. phase'[a] \notin Chatting
    BY <1>1 DEF Chatting
  <2> QED
    BY <1>1, <2>1 DEF ChatInv, Distinct
<1>5. ASSUME NEW n \in 1..MaxChats PROVE HistoryAt(n)'
  <2>1. n \in Running => n \in Running' \/ n \in excused'
    <3>1. ASSUME NEW b \in Actors, phase[b] \in Chatting, n = req[b].n
          PROVE  \/ n \in excused'
                 \/ phase'[b] \in Chatting /\ n = req'[b].n
      BY <1>1, <3>1
    <3> QED
      BY <3>1 DEF Running
  <2> QED
    BY <2>1, HistoryKept
<1> QED
  BY <1>3, <1>4, <1>5 DEF ChatInv

(***************************************************************************)
(* The executor notes the result of a step that proposed nothing.          *)
(***************************************************************************)
LEMMA ResultGoesOn ==
    ASSUME Types, ChatInv, NEW a \in Actors, phase[a] \in {"step", "safe", "run"},
           NEW result \in Results \ {"approval"}, result = "safe" => safe,
           Result(a, result), Quiet
    PROVE  ChatInv'
<1> DEFINE results == Append(req[a].results, result)
           work == [req[a] EXCEPT !.results = results]
           to == IF Index(a) = Len(req[a].plan) THEN "answer" ELSE "step"
           w == req[a]
<1>0. Goto(a, to, work) /\ to \in Chatting /\ phase[a] \in Chatting
  BY DEF Result, Chatting
<1>1. /\ w \in Requests /\ w.plan \in Seq(Steps) /\ w.results \in Seq(Results)
      /\ LocatedAt(phase[a], w) /\ SteadyAt(phase[a], w)
  BY DEF Types, Requests, ChatInv, ThreadInv, ThreadAt
<1>2. Len(w.results) < Len(w.plan)
  BY <1>1 DEF LocatedAt, Executing
<1>3. /\ results \in Seq(Results) /\ Len(results) = Len(w.results) + 1
      /\ DOMAIN results = 1..(Len(w.results) + 1) /\ DOMAIN w.results = 1..Len(w.results)
      /\ \A i \in 1..Len(w.results) : results[i] = w.results[i]
      /\ results[Len(w.results) + 1] = result
  BY <1>1
<1>4. to = "step" => Len(results) < Len(w.plan)
  BY <1>1, <1>2, <1>3 DEF Index
<1>5. ProposedBy(work) = ProposedBy(w)
  <2>1. work.results = results
    BY <1>1 DEF Requests
  <2> HIDE DEF results, work, w
  <2>2. \A i \in DOMAIN results : results[i] = "approval"
           => i \in DOMAIN w.results /\ w.results[i] = "approval"
    BY <1>1, <1>3
  <2>3. \A i \in DOMAIN w.results : i \in DOMAIN results /\ results[i] = w.results[i]
    BY <1>1, <1>3
  <2> QED
    BY <2>1, <2>2, <2>3 DEF ProposedBy
<1>6. \A i \in DOMAIN results : /\ results[i] = "safe" =>
                                      \/ result = "safe"
                                      \/ i \in DOMAIN w.results /\ w.results[i] = "safe"
                                /\ results[i] = "approval" =>
                                      i \in DOMAIN w.results /\ w.results[i] = "approval"
  <2> HIDE DEF results, w
  <2> QED
    BY <1>1, <1>3
<1> HIDE DEF results
<1>7. /\ work \in Requests /\ work.n = w.n /\ work.plan = w.plan
      /\ work.results = results /\ work.answer = w.answer
  BY <1>1, <1>3 DEF Requests
<1>8. Len(results) <= Len(w.plan)
  <2>1. Len(w.results) \in Nat /\ Len(w.plan) \in Nat
    BY <1>1
  <2> QED
    BY <1>2, <1>3, <2>1
<1>9. to \in {"answer", "step"}
  OBVIOUS
<1> HIDE DEF work, to, w
<1>10. LocatedAt(to, work)
  <2>1. phase[a] \in Executing
    BY DEF Executing
  <2> QED
    BY <1>0, <1>1, <1>4, <1>7, <1>8, <1>9, <2>1 DEF LocatedAt, Executing
<1>11. SteadyAt(to, work)
  BY <1>0, <1>1, <1>6, <1>7, <1>9 DEF SteadyAt
<1> QED
  BY <1>0, <1>5, <1>7, <1>10, <1>11, GoesOn DEF Quiet, bounds, ghosts, w

(***************************************************************************)
(* A request in progress has the number of a request.                      *)
(***************************************************************************)
LEMMA RequestNumbers ==
    ASSUME Types, ChatInv
    PROVE  \A a \in Actors : phase[a] \in Chatting => req[a].n \in 1..MaxChats
<1>1. chats \in Nat /\ chats <= MaxChats /\ MaxChats \in Nat
  BY ChatConstants DEF Types
<1>2. \A a \in Actors : phase[a] \in Chatting => req[a].n \in 1..chats
  BY DEF ChatInv, ThreadInv, ThreadAt, LocatedAt
<1> QED
  BY <1>1, <1>2

(***************************************************************************)
(* A change of safe mode or of the policy excuses the requests in          *)
(* progress, and a change that goes on touches no request.                 *)
(***************************************************************************)
LEMMA ChangeGoesOn ==
    ASSUME Types, ChatInv, UNCHANGED <<approvals, tasks, chats>>,
           \/ UNCHANGED <<safe, overrides, excused>>
           \/ excused' = excused \cup Running,
           \A b \in Actors :
              \/ /\ phase[b] \notin Chatting /\ phase'[b] \notin Chatting
                 /\ Len(req'[b].results) <= Len(req'[b].plan)
              \/ /\ phase'[b] = phase[b] /\ req'[b].n = req[b].n
                 /\ req'[b].plan = req[b].plan /\ req'[b].results = req[b].results
                 /\ req'[b].answer = req[b].answer
    PROVE  ChatInv'
<1>1. \A b \in Actors : phase'[b] \in Chatting =>
          phase[b] \in Chatting /\ req'[b].n = req[b].n
  OBVIOUS
<1>2. \A b \in Actors : phase[b] \in Chatting =>
          phase'[b] \in Chatting /\ req'[b].n = req[b].n
  OBVIOUS
<1>3. ThreadInv'
  <2>1. ASSUME NEW b \in Actors PROVE ThreadAt(b)'
    <3>1. CASE phase'[b] = phase[b] /\ req'[b].n = req[b].n
                 /\ req'[b].plan = req[b].plan /\ req'[b].results = req[b].results
                 /\ req'[b].answer = req[b].answer
      <4>1. phase[b] \in Chatting => req[b].n \in Running
        BY DEF Running
      <4> QED
        BY <3>1, <4>1, StaysAt DEF ChatInv
    <3>2. CASE phase[b] \notin Chatting /\ phase'[b] \notin Chatting
                 /\ Len(req'[b].results) <= Len(req'[b].plan)
      BY <3>2 DEF ThreadAt, LocatedAt, SteadyAt, CountedAt, Chatting, Executing
    <3> QED BY <3>1, <3>2
  <2> QED
    BY <2>1 DEF ThreadInv
<1>4. Distinct'
  BY <1>1 DEF ChatInv, Distinct
<1>5. ASSUME NEW n \in 1..MaxChats PROVE HistoryAt(n)'
  <2>1. n \in Running => n \in Running'
    BY <1>2 DEF Running
  <2> QED
    BY <2>1, HistoryKept
<1> QED
  BY <1>3, <1>4, <1>5 DEF ChatInv

(***************************************************************************)
(* A request begins with a number that no approval and no record has.      *)
(***************************************************************************)
LEMMA BeginGoesOn ==
    ASSUME Types, ChatInv, NEW a \in Actors,
           NEW plan \in {<<>>} \cup {<<step>> : step \in Commands}, BeginChat(a, plan)
    PROVE  ChatInv'
<1> DEFINE n == chats + 1
           work == [Idle EXCEPT !.op = "chat", !.n = n, !.plan = plan]
           to == IF plan = <<>> THEN "plan" ELSE "review"
<1>1. /\ phase[a] = "idle" /\ chats' = n /\ n \in 1..MaxChats /\ n = chats + 1
      /\ Goto(a, to, work)
      /\ UNCHANGED <<safe, overrides, approvals, tasks, excused>>
  <2>1. chats < MaxChats /\ chats \in Nat /\ MaxChats \in Nat
    BY ChatConstants DEF BeginChat, Types
  <2> QED
    BY <2>1 DEF BeginChat, ghosts
<1> HIDE DEF n
<1>2. work.n = n /\ work.plan = plan /\ work.results = <<>>
  BY StartTypes DEF Requests
<1> HIDE DEF work
<1>3. /\ phase'[a] = to /\ req'[a] = work
      /\ \A b \in Actors \ {a} : phase'[b] = phase[b] /\ req'[b] = req[b]
  BY <1>1 DEF Goto, Types
<1>4. HistoryAt(n) /\ tasks[n] = NoTask /\ Proposed(n) = {}
  BY <1>1 DEF ChatInv, HistoryAt, Types
<1>5. \A b \in Actors : phase[b] \in Chatting => req[b].n \in 1..chats
  BY DEF ChatInv, ThreadInv, ThreadAt, LocatedAt
<1>6. ThreadAt(a)'
  <2>1. plan \in Seq(Steps) /\ Len(plan) \in Nat
    <3>1. <<>> \in Seq(Steps)
      OBVIOUS
    <3>2. plan \in Seq(Steps)
      BY <3>1, StartTypes
    <3> QED BY <3>2
  <2>2. LocatedAt(phase[a], req[a])'
    BY <1>1, <1>2, <1>3, <2>1 DEF LocatedAt, Chatting, Executing
  <2>3. SteadyAt(phase[a], req[a])'
    BY <1>2, <1>3 DEF SteadyAt
  <2>4. CountedAt(phase[a], req[a])'
    <3>1. ProposedBy(work) = {}
      BY <1>2 DEF ProposedBy
    <3>2. {p.i : p \in {p \in approvals' : p.n = work.n}} = {}
      BY <1>1, <1>2, <1>4 DEF Proposed
    <3>3. tasks'[work.n] = NoTask
      BY <1>1, <1>2, <1>4
    <3> QED
      BY <1>3, <3>1, <3>2, <3>3 DEF CountedAt, Proposed, ProposedBy
  <2> QED
    BY <2>2, <2>3, <2>4 DEF ThreadAt
<1>7. ThreadInv'
  <2>1. ASSUME NEW b \in Actors, b # a PROVE ThreadAt(b)'
    BY <1>1, <1>3, <2>1, StaysAt DEF ChatInv, Types
  <2> QED
    BY <1>6, <2>1 DEF ThreadInv
<1>8. Distinct'
  <2>1. ASSUME NEW b \in Actors, phase[b] \in Chatting PROVE req[b].n # n
    BY <1>1, <1>5, <2>1 DEF Types
  <2> QED
    BY <1>2, <1>3, <2>1 DEF ChatInv, Distinct
<1>9. ASSUME NEW m \in 1..MaxChats PROVE HistoryAt(m)'
  <2>1. HistoryAt(m)
    BY DEF ChatInv
  <2>2. CASE m = n
    <3>1. n \in Running'
      <4>1. phase'[a] \in Chatting /\ n = req'[a].n
        BY <1>2, <1>3 DEF Chatting
      <4> QED BY <4>1 DEF Running
    <3> QED
      BY <1>1, <2>2, <3>1 DEF HistoryAt, Types
  <2>3. CASE m # n
    <3>1. m \in Running <=> m \in Running'
      <4>1. \A b \in Actors : /\ phase[b] \in Chatting /\ m = req[b].n
                                => phase'[b] \in Chatting /\ m = req'[b].n
                              /\ phase'[b] \in Chatting /\ m = req'[b].n
                                => phase[b] \in Chatting /\ m = req[b].n
        BY <1>1, <1>2, <1>3, <2>3 DEF Chatting
      <4> QED BY <4>1 DEF Running
    <3>2. m > chats' <=> m > chats
      BY <1>1, <2>3 DEF Types
    <3>3. m <= chats' <=> m <= chats
      BY <1>1, <2>3 DEF Types
    <3> QED
      BY <1>1, <2>1, <3>1, <3>2, <3>3 DEF HistoryAt, Proposed
  <2> QED BY <2>2, <2>3
<1>10. \A p \in approvals' : p.args = "fine"
  BY <1>1 DEF ChatInv
<1> QED
  BY <1>7, <1>8, <1>9, <1>10 DEF ChatInv

(***************************************************************************)
(* create_pending stores an approval of the request's own step, with       *)
(* arguments that the review made fine.                                    *)
(***************************************************************************)
LEMMA CreateGoesOn ==
    ASSUME Types, ChatInv, NEW a \in Actors, CreatePending(a)
    PROVE  ChatInv'
<1> DEFINE w == req[a]
           results == Append(w.results, "approval")
           work == [req[a] EXCEPT !.results = results]
           to == IF Index(a) = Len(w.plan) THEN "answer" ELSE "step"
           new == [n |-> w.n, i |-> Index(a), args |-> Step(a).args]
<1>1. /\ phase[a] = "upsert" /\ approvals' = approvals \cup {new} /\ Goto(a, to, work)
      /\ UNCHANGED <<safe, overrides, tasks, chats, excused>>
  BY DEF CreatePending, Result, bounds, ghosts
<1>2. /\ w \in Requests /\ w.plan \in Seq(Steps) /\ w.results \in Seq(Results)
      /\ ThreadAt(a) /\ LocatedAt(phase[a], w) /\ SteadyAt(phase[a], w)
      /\ phase[a] \in Chatting /\ phase[a] \in Executing
  BY <1>1 DEF Types, Requests, ChatInv, ThreadInv, ThreadAt, Chatting, Executing
<1>3. /\ Len(w.results) < Len(w.plan) /\ w.n \in 1..chats /\ w.n \in 1..MaxChats
      /\ Len(w.results) \in Nat /\ Len(w.plan) \in Nat
      /\ StepOf(w).skill \in WriteSkills /\ Step(a) = StepOf(w)
      /\ Index(a) = Len(w.results) + 1
      /\ Step(a).args = "fine"
  <2>1. Len(w.results) \in Nat /\ Len(w.plan) \in Nat
    BY <1>2
  <2>2. /\ Len(w.results) < Len(w.plan) /\ w.n \in 1..chats
        /\ StepOf(w).skill \in WriteSkills
        /\ \A i \in DOMAIN w.plan : Reviewed(w.plan[i]) => w.plan[i].args = "fine"
    BY <1>1, <1>2 DEF LocatedAt
  <2>3. Index(a) \in DOMAIN w.plan /\ Step(a) = StepOf(w) /\ Index(a) = Len(w.results) + 1
    BY <1>2, <2>1, <2>2 DEF Index, Step, StepOf
  <2>4. Step(a).args = "fine"
    BY <2>2, <2>3 DEF Reviewed, Step
  <2>5. w.n \in 1..MaxChats
    <3>1. chats \in Nat /\ chats <= MaxChats /\ MaxChats \in Nat
      BY ChatConstants DEF Types
    <3> HIDE DEF w
    <3> QED
      BY <2>2, <3>1
  <2> QED
    BY <2>1, <2>2, <2>3, <2>4, <2>5
<1>4. new.n = w.n /\ new.i = Len(w.results) + 1 /\ new.args = "fine"
  BY <1>3
<1> HIDE DEF new
<1>5. /\ results \in Seq(Results) /\ Len(results) = Len(w.results) + 1
      /\ DOMAIN results = 1..(Len(w.results) + 1) /\ DOMAIN w.results = 1..Len(w.results)
      /\ \A i \in 1..Len(w.results) : results[i] = w.results[i]
      /\ results[Len(w.results) + 1] = "approval"
  BY <1>2 DEF Results
<1>6. to = "step" => Len(results) < Len(w.plan)
  BY <1>3, <1>5
<1> HIDE DEF results
<1>7. /\ work.n = w.n /\ work.plan = w.plan
      /\ work.results = results /\ work.answer = w.answer
  BY <1>2 DEF Requests
<1>8. to \in {"answer", "step"}
  OBVIOUS
<1> HIDE DEF work, to, w
<1>9. /\ phase'[a] = to /\ req'[a] = work
      /\ \A b \in Actors \ {a} : phase'[b] = phase[b] /\ req'[b] = req[b]
  BY <1>1 DEF Goto, Types
<1>10. /\ LocatedAt(phase[a], w) /\ SteadyAt(phase[a], w) /\ CountedAt(phase[a], w)
  BY <1>2 DEF ThreadAt, w
<1>11. ThreadAt(a)'
  <2>1. LocatedAt(phase[a], req[a])'
    BY <1>1, <1>2, <1>3, <1>5, <1>6, <1>7, <1>8, <1>9, <1>10
       DEF LocatedAt, Chatting, Executing
  <2>2. SteadyAt(phase[a], req[a])'
    <3>1. \A i \in DOMAIN results : results[i] = "safe" =>
              i \in DOMAIN w.results /\ w.results[i] = "safe"
      BY <1>3, <1>5
    <3>2. w.n \notin excused => ~safe
      BY <1>1, <1>2, <1>3, <1>10 DEF SteadyAt
    <3>3. w.n \notin excused => \A i \in DOMAIN results : results[i] = "safe" => safe
      BY <1>2, <1>10, <3>1 DEF SteadyAt
    <3> QED
      BY <1>1, <1>7, <1>8, <1>9, <3>2, <3>3 DEF SteadyAt
  <2>3. CountedAt(phase[a], req[a])'
    <3>1. ProposedBy(work) = ProposedBy(w) \cup {Len(w.results) + 1}
      BY <1>3, <1>5, <1>7 DEF ProposedBy
    <3>2. {p.i : p \in {p \in approvals' : p.n = w.n}} = Proposed(w.n) \cup {new.i}
      BY <1>1, <1>4 DEF Proposed
    <3>3. tasks[w.n] = NoTask /\ Proposed(w.n) = ProposedBy(w)
      BY <1>2, <1>10 DEF CountedAt
    <3> QED
      BY <1>1, <1>4, <1>7, <1>9, <3>1, <3>2, <3>3 DEF CountedAt, Proposed, ProposedBy
  <2> QED
    BY <2>1, <2>2, <2>3 DEF ThreadAt
<1>12. \A b \in Actors : phase[b] \in Chatting /\ b # a => req[b].n # w.n
  BY <1>2 DEF ChatInv, Distinct, w
<1>13. ThreadInv'
  <2>1. ASSUME NEW b \in Actors, b # a PROVE ThreadAt(b)'
    <3>1. phase[b] \in Chatting => \A p : p.n = req[b].n =>
                                      (p \in approvals' <=> p \in approvals)
      BY <1>1, <1>4, <1>12, <2>1
    <3> QED
      BY <1>1, <1>9, <2>1, <3>1, StaysAt DEF ChatInv, Types
  <2> QED
    BY <1>11, <2>1 DEF ThreadInv
<1>14. Distinct'
  BY <1>2, <1>7, <1>9, <1>12 DEF ChatInv, Distinct
<1>15. ASSUME NEW n \in 1..MaxChats PROVE HistoryAt(n)'
  <2>1. HistoryAt(n)
    BY DEF ChatInv
  <2>2. n \in Running <=> n \in Running'
    <3>1. \A b \in Actors : /\ phase[b] \in Chatting <=> phase'[b] \in Chatting
                            /\ req[b].n = req'[b].n
      BY <1>2, <1>7, <1>8, <1>9 DEF Chatting, w
    <3> QED BY <3>1 DEF Running
  <2>3. CASE n = w.n
    <3>1. n \in Running' /\ ~(n > chats)
      <4>1. phase'[a] \in Chatting /\ n = req'[a].n
        BY <1>7, <1>8, <1>9, <2>3 DEF Chatting
      <4>2. n \in Running'
        BY <4>1 DEF Running
      <4> QED
        BY <1>3, <2>3, <4>2 DEF Types
    <3> QED
      BY <1>1, <3>1 DEF HistoryAt
  <2>4. CASE n # w.n
    <3>1. Proposed(n)' = Proposed(n)
      BY <1>1, <1>4, <2>4 DEF Proposed
    <3> QED
      BY <1>1, <2>1, <2>2, <3>1 DEF HistoryAt
  <2> QED BY <2>3, <2>4
<1>16. \A p \in approvals' : p.args = "fine"
  BY <1>1, <1>4 DEF ChatInv
<1> QED
  BY <1>13, <1>14, <1>15, <1>16 DEF ChatInv

(***************************************************************************)
(* The record of a request lists the approvals the request has created.    *)
(***************************************************************************)
LEMMA RecordGoesOn ==
    ASSUME Types, ChatInv, NEW a \in Actors, Record(a)
    PROVE  ChatInv'
<1> DEFINE w == req[a]
           record == [answer |-> w.answer, approvals |-> ProposedBy(w)]
<1>1. /\ phase[a] = "record" /\ tasks' = [tasks EXCEPT ![w.n] = record]
      /\ phase'[a] = "idle" /\ req'[a] = Idle
      /\ \A b \in Actors \ {a} : phase'[b] = phase[b] /\ req'[b] = req[b]
      /\ UNCHANGED <<safe, overrides, approvals, chats, excused>>
  BY DEF Record, ProposedBy, Goto, bounds, ghosts, Types
<1>2. /\ LocatedAt(phase[a], w) /\ SteadyAt(phase[a], w) /\ CountedAt(phase[a], w)
      /\ phase[a] \in Chatting /\ w \in Requests
  BY <1>1 DEF Types, ChatInv, ThreadInv, ThreadAt, Chatting
<1>3. /\ w.n \in 1..chats /\ w.n \in 1..MaxChats /\ w.answer \in Outcomes
      /\ w.answer = "question" => w.results = <<>>
  <2>1. w.n \in 1..MaxChats
    BY <1>2, RequestNumbers
  <2> QED
    BY <1>1, <1>2, <2>1 DEF LocatedAt
<1>4. record \in Records /\ record # NoTask
  BY <1>2, <1>3, ChatConstants DEF Records, ProposedBy, Requests
<1>5. tasks'[w.n] = record /\ \A n \in 1..MaxChats \ {w.n} : tasks'[n] = tasks[n]
  BY <1>1, <1>3 DEF Types
<1> HIDE DEF w
<1>6. \A b \in Actors : phase[b] \in Chatting /\ b # a => req[b].n # w.n
  BY <1>2 DEF ChatInv, Distinct, w
<1>7. ThreadAt(a)'
  BY <1>1, StartTypes
     DEF ThreadAt, LocatedAt, SteadyAt, CountedAt, Chatting, Executing
<1>8. ThreadInv'
  <2>1. ASSUME NEW b \in Actors, b # a PROVE ThreadAt(b)'
    <3>1. phase[b] \in Chatting => tasks'[req[b].n] = tasks[req[b].n]
      <4>1. phase[b] \in Chatting => req[b].n \in 1..MaxChats
        BY RequestNumbers
      <4> QED
        BY <1>5, <1>6, <2>1, <4>1
    <3> QED
      BY <1>1, <2>1, <3>1, StaysAt DEF ChatInv, Types
  <2> QED
    BY <1>7, <2>1 DEF ThreadInv
<1>9. phase'[a] \notin Chatting
  BY <1>1 DEF Chatting
<1>10. Distinct'
  BY <1>1, <1>9 DEF ChatInv, Distinct
<1>11. ASSUME NEW n \in 1..MaxChats PROVE HistoryAt(n)'
  <2>1. CASE n = w.n
    <3>1. ~(n > chats)
      BY <1>3, <2>1 DEF Types
    <3>2. n \notin excused /\ Proposed(n) # {} => w.answer = "approval"
      BY <1>1, <1>2, <2>1 DEF SteadyAt, CountedAt
    <3>3. w.answer = "question" => Proposed(n) = {}
      BY <1>2, <1>3, <2>1 DEF CountedAt, ProposedBy
    <3>4. Proposed(n)' = Proposed(n) /\ Proposed(n) = ProposedBy(w)
      BY <1>1, <1>2, <2>1 DEF CountedAt, Proposed
    <3>5. tasks'[n] # NoTask /\ tasks'[n].approvals = Proposed(n)
          /\ tasks'[n].answer = w.answer
      BY <1>4, <1>5, <2>1, <3>4
    <3> QED
      BY <1>1, <3>1, <3>2, <3>3, <3>4, <3>5 DEF HistoryAt
  <2>2. CASE n # w.n
    <3>1. n \in Running <=> n \in Running'
      <4>1. \A b \in Actors : phase[b] \in Chatting /\ n = req[b].n
                              <=> phase'[b] \in Chatting /\ n = req'[b].n
        BY <1>1, <1>9, <2>2 DEF w
      <4> QED BY <4>1 DEF Running
    <3>2. HistoryAt(n)
      BY DEF ChatInv
    <3> QED
      BY <1>1, <1>5, <2>2, <3>1, <3>2 DEF HistoryAt, Proposed
  <2> QED BY <2>1, <2>2
<1>12. \A p \in approvals' : p.args = "fine"
  BY <1>1 DEF ChatInv
<1> QED
  BY <1>8, <1>10, <1>11, <1>12 DEF ChatInv

(***************************************************************************)
(* Every step keeps what the requests promise.                             *)
(***************************************************************************)
LEMMA ChatInvStep == Types /\ ChatInv /\ [Next]_vars => ChatInv'
<1> SUFFICES ASSUME Types, ChatInv, [Next]_vars PROVE ChatInv'
  OBVIOUS
<1> USE DEF Quiet, bounds, ghosts
<1>0. ASSUME NEW a \in Actors
      PROVE  /\ req[a] \in Requests /\ req[a].plan \in Seq(Steps)
             /\ req[a].results \in Seq(Results)
             /\ LocatedAt(phase[a], req[a]) /\ SteadyAt(phase[a], req[a])
  BY DEF Types, Requests, ChatInv, ThreadInv, ThreadAt
<1>1. ASSUME NEW a \in Actors, NEW plan \in Seq(Steps), plan # <<>>,
             phase[a] = "plan", Planned(a, plan), Quiet
      PROVE  ChatInv'
  <2> DEFINE work == [req[a] EXCEPT !.plan = plan, !.tries = 0]
  <2>1. /\ work.n = req[a].n /\ work.plan = plan /\ work.results = req[a].results
        /\ work \in Requests
    <3>1. \A tries \in 0..1 :
             [req[a] EXCEPT !.plan = plan, !.tries = tries] \in Requests
      BY <1>0 DEF Requests
    <3> QED
      BY <1>0, <3>1 DEF Requests
  <2>2. Goto(a, "review", work)
    BY <1>1 DEF Planned
  <2> HIDE DEF work
  <2>3. LocatedAt("review", work)
    <3>1. req[a].results = <<>> /\ req[a].n \in 1..chats
      BY <1>0, <1>1 DEF LocatedAt, Chatting
    <3>2. Len(plan) \in Nat
      OBVIOUS
    <3> QED
      BY <1>1, <2>1, <3>1, <3>2 DEF LocatedAt, Executing
  <2>4. SteadyAt("review", work) /\ ProposedBy(work) = ProposedBy(req[a])
    BY <1>0, <1>1, <2>1 DEF SteadyAt, ProposedBy, Chatting
  <2> QED
    BY <1>1, <2>1, <2>2, <2>3, <2>4, GoesOn DEF Chatting
<1>2. ASSUME NEW a \in Actors,
             FallBack(a) \/ LlmFails(a) \/ LlmUnusable(a)
               \/ \E plan \in Answers : LlmPlans(a, plan)
      PROVE  ChatInv'
  <2>1. CASE Goto(a, "plan", [req[a] EXCEPT !.tries = 1]) /\ Quiet /\ phase[a] = "plan"
    <3> DEFINE work == [req[a] EXCEPT !.tries = 1]
    <3>1. /\ work \in Requests /\ work.n = req[a].n /\ work.plan = req[a].plan
          /\ work.results = req[a].results /\ work.answer = req[a].answer
      <4>1. ASSUME NEW tries \in 0..1
            PROVE  LET new == [req[a] EXCEPT !.tries = tries]
                   IN  /\ new \in Requests /\ new.n = req[a].n
                       /\ new.plan = req[a].plan /\ new.results = req[a].results
                       /\ new.answer = req[a].answer
        BY <1>0 DEF Requests
      <4>2. 1 \in 0..1
        OBVIOUS
      <4> QED
        BY <4>1, <4>2
    <3> HIDE DEF work
    <3>2. /\ LocatedAt("plan", work) /\ SteadyAt("plan", work)
          /\ ProposedBy(work) = ProposedBy(req[a])
      BY <1>0, <2>1, <3>1 DEF LocatedAt, SteadyAt, ProposedBy, StepOf
    <3> QED
      BY <2>1, <3>1, <3>2, GoesOn DEF Chatting, work
  <2>2. <<NoStep, NoStep>> # <<>> /\ \A plan \in Answers : plan # <<>>
    BY ChatConstants
  <2> QED
    BY <1>1, <1>2, <2>1, <2>2, StartTypes DEF FallBack, LlmFails, LlmUnusable, LlmPlans
<1>3. ASSUME NEW a \in Actors, ReviewAsks(a) PROVE ChatInv'
  <2> DEFINE work == [req[a] EXCEPT !.answer = "question"]
  <2>1. /\ work \in Requests /\ work.n = req[a].n /\ work.plan = req[a].plan
        /\ work.results = req[a].results /\ work.answer = "question"
    BY <1>0 DEF Requests, Outcomes
  <2>2. phase[a] = "review" /\ Goto(a, "record", work)
    BY <1>3 DEF ReviewAsks
  <2> HIDE DEF work
  <2>3. req[a].results = <<>> /\ phase[a] \in Chatting
    BY <1>0, <2>2 DEF LocatedAt, Chatting
  <2>4. /\ LocatedAt("record", work) /\ SteadyAt("record", work)
        /\ ProposedBy(work) = ProposedBy(req[a])
    BY <1>0, <2>1, <2>2, <2>3
       DEF LocatedAt, SteadyAt, ProposedBy, Executing, Outcomes, Chatting
  <2> QED
    BY <1>3, <2>1, <2>2, <2>3, <2>4, GoesOn DEF ReviewAsks, Chatting
<1>4. ASSUME NEW a \in Actors, ReviewPasses(a) PROVE ChatInv'
  <2> DEFINE plan == [i \in DOMAIN req[a].plan |-> Normalised(req[a].plan[i])]
             work == [req[a] EXCEPT !.plan = plan]
  <2>1. /\ plan \in Seq(Steps) /\ Len(plan) = Len(req[a].plan)
        /\ \A i \in DOMAIN plan : Reviewed(plan[i]) => plan[i].args = "fine"
    BY <1>0, NormalisedPlan
  <2>2. phase[a] = "review" /\ Goto(a, "step", work)
    BY <1>4 DEF ReviewPasses
  <2> HIDE DEF plan
  <2>3. /\ work \in Requests /\ work.n = req[a].n /\ work.plan = plan
        /\ work.results = req[a].results
    BY <1>0, <2>1 DEF Requests
  <2> HIDE DEF work
  <2>4. /\ req[a].results = <<>> /\ req[a].plan # <<>> /\ phase[a] \in Chatting
        /\ req[a].n \in 1..chats
    BY <1>0, <2>2 DEF LocatedAt, Chatting
  <2>5. Len(work.results) < Len(work.plan)
    <3>1. Len(req[a].plan) \in Nat /\ Len(req[a].plan) # 0
      BY <1>0, <2>4
    <3> QED
      BY <2>1, <2>3, <2>4, <3>1
  <2>6. LocatedAt("step", work)
    BY <2>1, <2>3, <2>4, <2>5 DEF LocatedAt, Executing
  <2>7. SteadyAt("step", work) /\ ProposedBy(work) = ProposedBy(req[a])
    BY <2>3, <2>4 DEF SteadyAt, ProposedBy
  <2> QED
    BY <1>4, <2>2, <2>3, <2>4, <2>6, <2>7, GoesOn DEF ReviewPasses, Chatting
<1>5. ASSUME NEW a \in Actors, phase[a] \in Executing
      PROVE  /\ Step(a) = StepOf(req[a]) /\ Step(a) \in Steps
             /\ phase[a] \in Chatting
  <2>1. Len(req[a].results) < Len(req[a].plan)
    BY <1>0, <1>5 DEF LocatedAt
  <2>2. Index(a) \in DOMAIN req[a].plan
    BY <1>0, <2>1 DEF Index
  <2> QED
    BY <1>0, <1>5, <2>2 DEF Step, StepOf, Index, Executing, Chatting
<1>6. ASSUME NEW a \in Actors, CheckScopes(a) PROVE ChatInv'
  <2>1. phase[a] = "step" /\ phase[a] \in Executing
    BY <1>6 DEF CheckScopes, Executing
  <2>2. CASE \E result \in {"done", "policy"} : Result(a, result)
    BY <1>6, <2>1, <2>2, ResultGoesOn DEF CheckScopes, Results
  <2>3. CASE /\ Step(a).skill # NoSkill /\ ScopeEnabled(ScopeOf[Step(a).skill])
             /\ Goto(a, "safe", req[a])
    <3>1. Step(a).skill \in Skills
      BY <1>5, <2>1, <2>3 DEF Steps
    <3>2. LocatedAt("safe", req[a]) /\ SteadyAt("safe", req[a])
      BY <1>0, <1>5, <2>1, <2>3, <3>1 DEF LocatedAt, SteadyAt, Executing
    <3> QED
      BY <1>0, <1>5, <1>6, <2>1, <2>3, <3>2, GoesOn DEF CheckScopes, Chatting
  <2> QED
    BY <1>6, <2>2, <2>3 DEF CheckScopes
<1>7. ASSUME NEW a \in Actors, CheckSafeMode(a) PROVE ChatInv'
  <2>1. phase[a] = "safe" /\ phase[a] \in Executing
    BY <1>7 DEF CheckSafeMode, Executing
  <2>2. CASE Result(a, "safe") /\ safe
    BY <1>7, <2>1, <2>2, ResultGoesOn DEF CheckSafeMode, Results
  <2>3. CASE /\ ~(Step(a).skill \in WriteSkills /\ safe)
             /\ Goto(a, "create", req[a])
    <3>1. LocatedAt("create", req[a]) /\ SteadyAt("create", req[a])
      BY <1>0, <1>5, <2>1, <2>3 DEF LocatedAt, SteadyAt, Executing
    <3> QED
      BY <1>0, <1>5, <1>7, <2>1, <2>3, <3>1, GoesOn DEF CheckSafeMode, Chatting
  <2>4. CASE ~RequiresApproval(Step(a)) /\ Goto(a, "run", req[a])
    <3>1. LocatedAt("run", req[a]) /\ SteadyAt("run", req[a])
      BY <1>0, <1>5, <2>1, <2>4 DEF LocatedAt, SteadyAt, Executing, RequiresApproval
    <3> QED
      BY <1>0, <1>5, <1>7, <2>1, <2>4, <3>1, GoesOn DEF CheckSafeMode, Chatting
  <2> QED
    BY <1>7, <2>2, <2>3, <2>4 DEF CheckSafeMode
<1>8. ASSUME NEW a \in Actors, CreateChecked(a) PROVE ChatInv'
  <2>1. phase[a] \in Executing
    BY <1>8 DEF CreateChecked, Executing
  <2>2. CASE /\ phase[a] = "create" /\ ~safe /\ Step(a).skill \in WriteSkills
             /\ Goto(a, "scopes", req[a])
    <3>1. LocatedAt("scopes", req[a]) /\ SteadyAt("scopes", req[a])
      BY <1>0, <1>5, <2>1, <2>2 DEF LocatedAt, SteadyAt, Executing
    <3> QED
      BY <1>0, <1>5, <1>8, <2>1, <2>2, <3>1, GoesOn DEF CreateChecked, Chatting
  <2>3. CASE phase[a] = "scopes" /\ Goto(a, "upsert", req[a])
    <3>1. LocatedAt("upsert", req[a]) /\ SteadyAt("upsert", req[a])
      BY <1>0, <1>5, <2>1, <2>3 DEF LocatedAt, SteadyAt, Executing
    <3> QED
      BY <1>0, <1>5, <1>8, <2>1, <2>3, <3>1, GoesOn DEF CreateChecked, Chatting
  <2> QED
    BY <1>8, <2>2, <2>3 DEF CreateChecked
<1>9. ASSUME NEW a \in Actors, NEW ok \in BOOLEAN, Run(a, ok) PROVE ChatInv'
  BY <1>9, ResultGoesOn DEF Run, Results
<1>10. ASSUME NEW a \in Actors, Answer(a) PROVE ChatInv'
  <2> DEFINE answer == IF Has(a, "safe") THEN "safe"
                       ELSE IF Has(a, "approval") THEN "approval"
                       ELSE IF Has(a, "policy") THEN "policy" ELSE "output"
             work == [req[a] EXCEPT !.answer = answer]
  <2>1. phase[a] = "answer" /\ phase[a] \in Chatting /\ Goto(a, "record", work)
    BY <1>10 DEF Answer, Chatting
  <2>2. answer \in Outcomes \ {"question"}
    BY DEF Outcomes
  <2>3. req[a].n \notin excused /\ ProposedBy(req[a]) # {} => answer = "approval"
    BY <1>0, <2>1 DEF SteadyAt, Has, ProposedBy
  <2> HIDE DEF answer
  <2>4. /\ work \in Requests /\ work.n = req[a].n /\ work.plan = req[a].plan
        /\ work.results = req[a].results /\ work.answer = answer
    BY <1>0, <2>2 DEF Requests
  <2> HIDE DEF work
  <2>5. ProposedBy(work) = ProposedBy(req[a])
    BY <2>4 DEF ProposedBy
  <2>6. LocatedAt("record", work)
    BY <1>0, <2>1, <2>2, <2>4 DEF LocatedAt, Executing
  <2>7. SteadyAt("record", work)
    BY <1>0, <2>1, <2>3, <2>4, <2>5 DEF SteadyAt
  <2> QED
    BY <1>10, <2>1, <2>4, <2>5, <2>6, <2>7, GoesOn DEF Answer, Chatting
<1>11. ASSUME NEW a \in Actors, ReviewRaises(a) \/ CreateRaises(a) \/ WriteRaises(a)
       PROVE  ChatInv'
  <2>1. /\ phase[a] \in Chatting /\ Goto(a, "idle", Idle)
        /\ UNCHANGED <<safe, overrides, approvals, tasks, chats>>
    BY <1>11 DEF ReviewRaises, CreateRaises, WriteRaises, Raise, Chatting
  <2>2. /\ excused' \subseteq excused \cup {req[a].n} /\ excused \subseteq excused'
        /\ req[a].n \in excused'
    <3>1. CASE ReviewRaises(a) \/ WriteRaises(a)
      BY <3>1 DEF ReviewRaises, WriteRaises, Raise
    <3>2. CASE CreateRaises(a)
      <4>1. phase[a] \in Executing /\ phase[a] \in {"create", "scopes"}
        BY <3>2 DEF CreateRaises, Executing
      <4>2. Step(a).skill \in WriteSkills => req[a].n \in excused
        BY <1>0, <1>5, <3>2, <4>1 DEF CreateRaises, SteadyAt
      <4> QED
        BY <3>2, <4>2 DEF CreateRaises, Raise
    <3> QED BY <1>11, <3>1, <3>2
  <2> QED
    BY <2>1, <2>2, EndsExcused
<1>12. ASSUME NEW a \in Actors, phase[a] \notin Chatting,
              NEW to \in {"idle"} \cup Changing, NEW work, Goto(a, to, work),
              Len(work.results) <= Len(work.plan),
              UNCHANGED <<safe, overrides, approvals, tasks, chats, excused>>
       PROVE  ChatInv'
  <2>1. to \notin Chatting
    BY DEF Chatting, Changing
  <2>2. /\ phase'[a] = to /\ req'[a] = work
        /\ \A b \in Actors \ {a} : phase'[b] = phase[b] /\ req'[b] = req[b]
    BY <1>12 DEF Goto, Types
  <2> QED
    BY <1>12, <2>1, <2>2, ChangeGoesOn
<1>13. Len(Idle.results) <= Len(Idle.plan)
  BY StartTypes
<1>14. \A a \in Actors : Len(req[a].results) <= Len(req[a].plan)
  BY <1>0 DEF LocatedAt
<1>15. ASSUME NEW a \in Actors, NEW op \in ChangeOps, NEW s \in Scopes,
              BeginChange(a, op, {s})
       PROVE  ChatInv'
  <2> DEFINE scopes == IF op = "reset" THEN DefaultRules ELSE {s}
             work == [Idle EXCEPT !.op = op, !.scopes = scopes]
  <2>1. Goto(a, "policy", work) /\ phase[a] \notin Chatting /\ "policy" \in Changing
    BY <1>15 DEF BeginChange, Chatting, Changing
  <2>2. work.results = Idle.results /\ work.plan = Idle.plan
    BY StartTypes DEF Requests
  <2> HIDE DEF work
  <2> QED
    BY <1>12, <1>13, <1>15, <2>1, <2>2 DEF BeginChange
<1>16. ASSUME NEW a \in Actors, ReadPolicy(a) \/ LoadEnabled(a) \/ LoadOverrides(a)
       PROVE  ChatInv'
  <2>1. phase[a] \notin Chatting /\ {"load", "reload", "save"} \subseteq Changing
    BY <1>16 DEF ReadPolicy, LoadEnabled, LoadOverrides, Chatting, Changing
  <2>2. PICK to, work : /\ to \in {"idle"} \cup Changing /\ Goto(a, to, work)
                          /\ Len(work.results) <= Len(work.plan)
    <3>1. ASSUME NEW to \in Changing, NEW v,
                 \/ Goto(a, to, [req[a] EXCEPT !.policy = v])
                 \/ Goto(a, to, [req[a] EXCEPT !.enabled = v])
                 \/ Goto(a, to, [req[a] EXCEPT !.loaded = v])
          PROVE  \E t, work : /\ t \in {"idle"} \cup Changing /\ Goto(a, t, work)
                                /\ Len(work.results) <= Len(work.plan)
      <4>1. /\ [req[a] EXCEPT !.policy = v].results = req[a].results
            /\ [req[a] EXCEPT !.policy = v].plan = req[a].plan
            /\ [req[a] EXCEPT !.enabled = v].results = req[a].results
            /\ [req[a] EXCEPT !.enabled = v].plan = req[a].plan
            /\ [req[a] EXCEPT !.loaded = v].results = req[a].results
            /\ [req[a] EXCEPT !.loaded = v].plan = req[a].plan
        BY <1>0 DEF Requests
      <4> QED
        BY <1>14, <3>1, <4>1
    <3>2. CASE ReadPolicy(a)
      BY <1>13, <2>1, <3>1, <3>2 DEF ReadPolicy
    <3>3. CASE LoadEnabled(a)
      BY <2>1, <3>1, <3>3 DEF LoadEnabled
    <3>4. CASE LoadOverrides(a)
      BY <2>1, <3>1, <3>4 DEF LoadOverrides
    <3> QED BY <1>16, <3>2, <3>3, <3>4
  <2> QED
    BY <1>12, <1>16, <2>1, <2>2 DEF ReadPolicy, LoadEnabled, LoadOverrides
<1>17. ASSUME NEW a \in Actors, SavePolicy(a) PROVE ChatInv'
  <2>1. phase[a] \notin Chatting /\ "idle" \notin Chatting
    BY <1>17 DEF SavePolicy, Chatting
  <2>2. phase'[a] = "idle" /\ req'[a] = Idle
    BY <1>17 DEF SavePolicy, Types
  <2>3. ASSUME NEW b \in Actors, b # a
        PROVE  /\ phase'[b] = phase[b] /\ req'[b].n = req[b].n
               /\ req'[b].plan = req[b].plan /\ req'[b].results = req[b].results
               /\ req'[b].answer = req[b].answer
    <3> DEFINE st == req[b].stale \/ (phase[b] \in {"reload", "save"}
                                        /\ req[b].op # "page")
    <3>1. req'[b] = [req[b] EXCEPT !.stale = st] /\ phase'[b] = phase[b]
      BY <1>17, <2>3 DEF SavePolicy, Types
    <3> HIDE DEF st
    <3> QED
      BY <1>0, <3>1 DEF Requests
  <2>4. excused' = excused \cup Running /\ UNCHANGED <<approvals, tasks, chats>>
    BY <1>17 DEF SavePolicy
  <2> QED
    BY <1>13, <2>1, <2>2, <2>3, <2>4, ChangeGoesOn
<1>18. CASE ToggleSafeMode
  BY <1>18, ChangeGoesOn DEF ToggleSafeMode
<1>19. CASE Crash
  <2>1. \A a \in Actors : phase'[a] = "idle" /\ req'[a] = Idle
    BY <1>19 DEF Crash
  <2>2. "idle" \notin Chatting
    BY DEF Chatting
  <2>3. ThreadInv' /\ Distinct'
    BY <2>1, <2>2, <1>13
       DEF ThreadInv, ThreadAt, LocatedAt, SteadyAt, CountedAt, Distinct, Executing
  <2>4. ASSUME NEW n \in 1..MaxChats PROVE HistoryAt(n)'
    BY <1>19, HistoryKept DEF Crash
  <2> QED
    BY <1>19, <2>3, <2>4 DEF Crash, ChatInv
<1>20. CASE UNCHANGED vars
  BY <1>20, ChangeGoesOn DEF vars
<1> QED
  BY <1>2, <1>3, <1>4, <1>6, <1>7, <1>8, <1>9, <1>10, <1>11, <1>15, <1>16, <1>17,
     <1>18, <1>19, <1>20, BeginGoesOn, CreateGoesOn, RecordGoesOn
     DEF Next, Chat, Change, ChangeOps

-----------------------------------------------------------------------------
(***************************************************************************)
(* A step that writes no overrides keeps what the changes in progress have *)
(* read up to date.                                                        *)
(***************************************************************************)
LEMMA GotoPolicy ==
    ASSUME Types, PolicyInv, NEW a \in Actors, NEW to, NEW work,
           ChangeAt(to, work), Goto(a, to, work), UNCHANGED <<overrides, wanted, lost>>
    PROVE  PolicyInv'
<1>1. /\ phase'[a] = to /\ req'[a] = work
      /\ \A b \in Actors \ {a} : phase'[b] = phase[b] /\ req'[b] = req[b]
  BY DEF Goto, Types
<1>2. ASSUME NEW b \in Actors PROVE ChangeAt(phase[b], req[b])'
  <2>1. Policy' = Policy
    BY DEF Policy
  <2>2. CASE b = a
    BY <1>1, <2>1, <2>2 DEF ChangeAt
  <2>3. CASE b # a
    <3>1. phase'[b] = phase[b] /\ req'[b] = req[b] /\ ChangeAt(phase[b], req[b])
      BY <1>1, <2>3 DEF PolicyInv
    <3> QED
      BY <2>1, <3>1 DEF ChangeAt
  <2> QED BY <2>2, <2>3
<1> QED
  BY <1>2 DEF PolicyInv, PolicyIsWanted, Policy

(***************************************************************************)
(* Every step keeps the policy what the changes asked for, unless a change *)
(* was saved over another: what a change that is not stale writes is what  *)
(* it asks of the policy as it is.                                         *)
(***************************************************************************)
LEMMA PolicyStep == Types /\ PolicyInv /\ [Next]_vars => PolicyInv'
<1> SUFFICES ASSUME Types, PolicyInv, [Next]_vars PROVE PolicyInv'
  OBVIOUS
<1> USE DEF Quiet, bounds, ghosts
<1>0. ASSUME NEW a \in Actors PROVE req[a] \in Requests /\ ChangeAt(phase[a], req[a])
  BY DEF Types, PolicyInv
<1>1. \A to \in {"idle"} \cup Chatting : \A work : ChangeAt(to, work)
  BY DEF ChangeAt, Chatting
<1>2. ASSUME NEW a \in Actors,
             \/ \E plan \in {<<>>} \cup {<<step>> : step \in Commands} : BeginChat(a, plan)
             \/ Chat(a)
      PROVE  PolicyInv'
  <2>1. UNCHANGED <<overrides, wanted, lost>>
    BY <1>2
       DEF BeginChat, Chat, FallBack, LlmFails, LlmUnusable, LlmPlans, ReviewAsks,
           ReviewRaises, ReviewPasses, CheckScopes, CheckSafeMode, CreateRaises,
           CreateChecked, CreatePending, Run, Answer, Record, WriteRaises
  <2>2. PICK to, work : to \in {"idle"} \cup Chatting /\ Goto(a, to, work)
    <3>0. {"plan", "review", "step", "safe", "create", "scopes", "upsert",
           "run", "answer", "record"} = Chatting
      BY DEF Chatting
    <3>1. CASE \E plan \in {<<>>} \cup {<<step>> : step \in Commands} : BeginChat(a, plan)
      BY <3>0, <3>1 DEF BeginChat
    <3>2. CASE FallBack(a) \/ LlmFails(a) \/ LlmUnusable(a)
               \/ \E plan \in Answers : LlmPlans(a, plan)
      BY <3>0, <3>2 DEF FallBack, LlmFails, LlmUnusable, LlmPlans, Planned
    <3>3. CASE ReviewAsks(a) \/ ReviewRaises(a) \/ ReviewPasses(a)
      BY <3>0, <3>3 DEF ReviewAsks, ReviewRaises, ReviewPasses, Raise
    <3>4. ASSUME NEW result, Result(a, result)
          PROVE  \E to, work : to \in {"idle"} \cup Chatting /\ Goto(a, to, work)
      BY <3>0, <3>4 DEF Result
    <3>5. CASE CheckScopes(a) \/ CheckSafeMode(a) \/ CreateChecked(a)
      BY <3>0, <3>4, <3>5 DEF CheckScopes, CheckSafeMode, CreateChecked
    <3>6. CASE CreatePending(a) \/ \E ok \in BOOLEAN : Run(a, ok)
      BY <3>4, <3>6 DEF CreatePending, Run
    <3>7. CASE Answer(a) \/ Record(a) \/ WriteRaises(a) \/ CreateRaises(a)
      BY <3>0, <3>7 DEF Answer, Record, WriteRaises, CreateRaises, Raise
    <3> QED
      BY <1>2, <3>1, <3>2, <3>3, <3>5, <3>6, <3>7 DEF Chat
  <2> QED
    BY <1>1, <2>1, <2>2, GotoPolicy
<1>3. ASSUME NEW a \in Actors, NEW op \in ChangeOps, NEW s \in Scopes,
             BeginChange(a, op, {s})
      PROVE  PolicyInv'
  <2> DEFINE scopes == IF op = "reset" THEN DefaultRules ELSE {s}
             work == [Idle EXCEPT !.op = op, !.scopes = scopes]
  <2>1. Goto(a, "policy", work)
    BY <1>3 DEF BeginChange
  <2>2. work.op = op
    BY StartTypes DEF Requests
  <2> HIDE DEF work
  <2>3. ChangeAt("policy", work)
    BY <2>2 DEF ChangeAt
  <2> QED
    BY <1>3, <2>1, <2>3, GotoPolicy DEF BeginChange
<1>4. ASSUME NEW a \in Actors, ReadPolicy(a) PROVE PolicyInv'
  <2>1. CASE req[a].op # "page"
    <3> DEFINE work == [req[a] EXCEPT !.policy = Policy]
    <3>1. /\ work.policy = Policy /\ work.op = req[a].op
      BY <1>0 DEF Requests
    <3>2. Goto(a, "load", work) /\ req[a].op \in ChangeOps
      BY <1>0, <1>4, <2>1 DEF ReadPolicy, ChangeAt
    <3> HIDE DEF work
    <3>3. ChangeAt("load", work)
      BY <2>1, <3>1, <3>2 DEF ChangeAt
    <3> QED
      BY <1>4, <3>2, <3>3, GotoPolicy DEF ReadPolicy
  <2>2. CASE req[a].op = "page" /\ safe
    BY <1>1, <1>4, <2>2, GotoPolicy DEF ReadPolicy
  <2>3. CASE req[a].op = "page" /\ ~safe
    <3> DEFINE page == [saved |-> TRUE, enabled |-> req[a].scopes,
                        rules |-> req[a].scopes]
               work == [req[a] EXCEPT !.loaded = page]
    <3>1. page.saved /\ page.enabled = req[a].scopes /\ page.rules = req[a].scopes
      OBVIOUS
    <3>2. Goto(a, "save", work)
      BY <1>4, <2>3 DEF ReadPolicy
    <3> HIDE DEF page
    <3>3. work.loaded = page /\ work.op = "page" /\ work.scopes = req[a].scopes
      BY <1>0, <2>3 DEF Requests
    <3> HIDE DEF work
    <3>4. ChangeAt("save", work)
      BY <3>1, <3>3 DEF ChangeAt, ChangeOps
    <3> QED
      BY <1>4, <3>2, <3>4, GotoPolicy DEF ReadPolicy
  <2> QED BY <2>1, <2>2, <2>3, <1>0 DEF Types
<1>5. ASSUME NEW a \in Actors, LoadEnabled(a) PROVE PolicyInv'
  <2> DEFINE enabled == IF overrides.saved THEN overrides.enabled ELSE req[a].policy.enabled
             work == [req[a] EXCEPT !.enabled = enabled]
  <2>1. phase[a] = "load" /\ req[a].op = "disable" /\ Goto(a, "reload", work)
    BY <1>5 DEF LoadEnabled
  <2>2. /\ enabled = Policy.enabled
        /\ ~overrides.saved => req[a].policy = Policy
    BY <1>0, <2>1 DEF ChangeAt, Policy
  <2> HIDE DEF enabled
  <2>3. work.enabled = enabled /\ work.op = "disable" /\ work.policy = req[a].policy
    BY <1>0, <2>1 DEF Requests
  <2> HIDE DEF work
  <2>4. ChangeAt("reload", work)
    BY <2>2, <2>3 DEF ChangeAt, ChangeOps
  <2> QED
    BY <1>5, <2>1, <2>4, GotoPolicy DEF LoadEnabled
<1>6. ASSUME NEW a \in Actors, LoadOverrides(a) PROVE PolicyInv'
  <2> DEFINE w == req[a]
             rules == IF overrides.saved THEN overrides.rules ELSE w.policy.rules
             enabled == IF overrides.saved THEN overrides.enabled ELSE w.policy.enabled
             changed == Changed(a)
             work == [w EXCEPT !.loaded = changed]
  <2>1. /\ Goto(a, "save", work) /\ w \in Requests
        /\ \/ phase[a] = "load" /\ w.op # "disable"
           \/ phase[a] = "reload"
    BY <1>0, <1>6 DEF LoadOverrides
  <2>2. /\ w.op \in ChangeOps \ {"page"}
        /\ ~overrides.saved => w.policy = Policy
        /\ w.op = "disable" /\ ~w.stale => w.enabled = Policy.enabled
    BY <1>0, <2>1 DEF ChangeAt
  <2>3. enabled = Policy.enabled /\ rules = Policy.rules
    BY <2>2 DEF Policy
  <2>4. /\ changed.saved
        /\ ~w.stale => changed.enabled =
              CASE w.op = "enable" -> overrides.enabled \cup w.scopes
                [] w.op = "disable" -> Policy.enabled \ w.scopes
                [] OTHER -> Policy.enabled
        /\ changed.rules = IF w.op \in {"rules", "reset"} THEN w.scopes ELSE Policy.rules
    <3>1. CASE w.op = "enable"
      BY <2>3, <3>1 DEF Changed
    <3>2. CASE w.op = "disable"
      BY <2>2, <2>3, <3>2 DEF Changed
    <3>3. CASE w.op \in {"rules", "reset"}
      BY <2>3, <3>3 DEF Changed
    <3> QED
      BY <2>2, <3>1, <3>2, <3>3 DEF ChangeOps
  <2> HIDE DEF changed
  <2>5. /\ work.loaded = changed /\ work.op = w.op /\ work.scopes = w.scopes
        /\ work.stale = w.stale
    BY <2>1 DEF Requests
  <2> HIDE DEF work, w
  <2>6. ChangeAt("save", work)
    BY <2>2, <2>4, <2>5 DEF ChangeAt
  <2> QED
    BY <1>6, <2>1, <2>6, GotoPolicy DEF LoadOverrides
<1>7. ASSUME NEW a \in Actors, SavePolicy(a) PROVE PolicyInv'
  <2> DEFINE w == req[a]
  <2>1. /\ overrides' = w.loaded /\ w.loaded.saved /\ w.op \in ChangeOps
        /\ wanted' = Intended(w.op, w.scopes) /\ lost' = (lost \/ w.stale)
        /\ phase'[a] = "idle" /\ ChangeAt("save", w)
    BY <1>0, <1>7 DEF SavePolicy, ChangeAt, Types
  <2>2. ASSUME NEW b \in Actors PROVE ChangeAt(phase[b], req[b])'
    <3>1. CASE b = a
      BY <2>1, <3>1 DEF ChangeAt
    <3>2. CASE b # a
      <4> DEFINE st == req[b].stale \/ (phase[b] \in {"reload", "save"}
                                          /\ req[b].op # "page")
      <4>1. phase'[b] = phase[b] /\ req'[b] = [req[b] EXCEPT !.stale = st]
        BY <1>7, <3>2 DEF SavePolicy, Types
      <4>2. phase[b] \in {"reload", "save"} /\ req[b].op # "page" => st = TRUE
        OBVIOUS
      <4> HIDE DEF st
      <4>3. /\ req'[b].op = req[b].op /\ req'[b].loaded = req[b].loaded
            /\ req'[b].scopes = req[b].scopes /\ req'[b].stale = st
        BY <1>0, <4>1 DEF Requests
      <4>4. phase[b] = "reload" => req[b].op # "page"
        BY <1>0 DEF ChangeAt
      <4>5. phase'[b] \in {"reload", "save"} /\ req'[b].op # "page" => req'[b].stale = TRUE
        BY <4>1, <4>2, <4>3
      <4>6. ChangeAt(phase[b], req[b]) /\ overrides'.saved
        BY <1>0, <2>1
      <4>7. CASE phase[b] # "save"
        BY <4>1, <4>3, <4>4, <4>5, <4>6, <4>7 DEF ChangeAt
      <4>8. CASE phase[b] = "save" /\ req[b].op = "page"
        BY <4>1, <4>3, <4>6, <4>8 DEF ChangeAt
      <4>9. CASE phase[b] = "save" /\ req[b].op # "page"
        BY <4>1, <4>3, <4>5, <4>6, <4>9 DEF ChangeAt
      <4> QED BY <4>7, <4>8, <4>9
    <3> QED BY <3>1, <3>2
  <2>3. PolicyIsWanted'
    <3> SUFFICES ASSUME ~lost' PROVE /\ w.loaded.enabled = wanted'.enabled
                                     /\ w.loaded.rules = wanted'.rules
      BY <2>1 DEF PolicyIsWanted, Policy
    <3>1. /\ ~lost /\ ~w.stale /\ Policy.enabled = wanted.enabled
          /\ Policy.rules = wanted.rules
      BY <2>1 DEF PolicyInv, PolicyIsWanted
    <3>2. /\ overrides.saved => Policy = overrides
          /\ ~overrides.saved => overrides.enabled = {}
      BY DEF PolicyInv, NoOverrides, Policy
    <3> HIDE DEF w
    <3>3. CASE w.op = "page"
      BY <2>1, <3>3 DEF ChangeAt, Intended
    <3>4. CASE w.op = "enable"
      BY <2>1, <3>1, <3>2, <3>4 DEF ChangeAt, Intended
    <3>5. CASE w.op = "disable"
      BY <2>1, <3>1, <3>5 DEF ChangeAt, Intended
    <3>6. CASE w.op \in {"rules", "reset"}
      BY <2>1, <3>1, <3>6 DEF ChangeAt, Intended
    <3> QED
      BY <2>1, <3>3, <3>4, <3>5, <3>6 DEF ChangeOps
  <2> QED
    BY <2>1, <2>2, <2>3 DEF PolicyInv
<1>8. CASE ToggleSafeMode \/ UNCHANGED vars
  <2>1. UNCHANGED <<phase, req, overrides, wanted, lost>>
    BY <1>8 DEF ToggleSafeMode, vars
  <2>2. Policy' = Policy
    BY <2>1 DEF Policy
  <2>3. ASSUME NEW b \in Actors PROVE ChangeAt(phase[b], req[b])'
    BY <1>0, <2>1, <2>2 DEF ChangeAt
  <2> QED
    BY <2>1, <2>2, <2>3 DEF PolicyInv, PolicyIsWanted
<1>9. CASE Crash
  BY <1>1, <1>9 DEF Crash, PolicyInv, ChangeAt, Policy, PolicyIsWanted
<1> QED
  BY <1>2, <1>3, <1>4, <1>5, <1>6, <1>7, <1>8, <1>9 DEF Next, Change, ChangeOps

-----------------------------------------------------------------------------
(***************************************************************************)
(* The invariants hold in every reachable state.                           *)
(***************************************************************************)
LEMMA ChatSafety == Spec => [](Types /\ ChatInv /\ PolicyInv)
<1> DEFINE Inv == Types /\ ChatInv /\ PolicyInv
<1>1. Init => Inv
  <2> SUFFICES ASSUME Init PROVE Inv
    OBVIOUS
  <2> USE StartTypes, ChatConstants DEF Init
  <2>1. Types
    <3>1. wanted \in Policies
      BY DEF Policy, Policies, NoOverrides
    <3>2. 0 \in 0..MaxChats /\ 0 \in 0..MaxChanges /\ 0 \in 0..MaxFaults
      OBVIOUS
    <3> QED
      BY <3>1, <3>2 DEF Types
  <2>2. ThreadInv
    <3>1. \A a \in Actors : phase[a] = "idle" /\ req[a] = Idle
      OBVIOUS
    <3>2. Len(Idle.results) <= Len(Idle.plan)
      OBVIOUS
    <3> QED
      BY <3>1, <3>2
         DEF ThreadInv, ThreadAt, LocatedAt, SteadyAt, CountedAt, Chatting, Executing
  <2>3. Distinct
    BY DEF Distinct, Chatting
  <2>4. \A n \in 1..MaxChats : HistoryAt(n)
    BY DEF HistoryAt, Proposed
  <2>5. PolicyInv
    BY DEF PolicyInv, PolicyIsWanted, ChangeAt, NoOverrides
  <2> QED
    BY <2>1, <2>2, <2>3, <2>4, <2>5 DEF ChatInv
<1>2. Inv /\ [Next]_vars => Inv'
  BY TypesStep, ChatInvStep, PolicyStep DEF ChatInv
<1> QED
  BY <1>1, <1>2, PTL DEF Spec

(***************************************************************************)
(* The requests, the overrides and the records have the values that the    *)
(* orchestrator, the executor and the routes give them; a request has at   *)
(* most one result for each step.                                          *)
(***************************************************************************)
THEOREM ChatTypeCorrect == Spec => []TypeOK
<1>1. Types /\ ChatInv => TypeOK
  BY DEF Types, Requests, ChatInv, ThreadInv, ThreadAt, LocatedAt, TypeOK
<1> QED
  BY <1>1, ChatSafety, PTL

(***************************************************************************)
(* A chat never runs a write skill, whatever plan the language model       *)
(* answers with: the executor decides by the skill, not by the plan.       *)
(***************************************************************************)
THEOREM WritesAreProposed == Spec => []WritesNeedApproval
<1>1. Types /\ ChatInv => WritesNeedApproval
  BY DEF Types, Requests, ChatInv, ThreadInv, ThreadAt, LocatedAt, WritesNeedApproval,
         Step, Index, StepOf
<1> QED
  BY <1>1, ChatSafety, PTL

(***************************************************************************)
(* Nothing is proposed of a plan about which the critic has a question,    *)
(* and what is proposed was normalised: nothing is executed before the     *)
(* review has passed the whole plan.                                       *)
(***************************************************************************)
THEOREM ReviewComesFirst == Spec => []OnlyReviewedSteps
<1>1. Types /\ ChatInv => OnlyReviewedSteps
  <2> SUFFICES ASSUME Types, ChatInv, NEW p \in approvals,
                      tasks[p.n] # NoTask, tasks[p.n].answer = "question"
               PROVE  FALSE
    BY DEF ChatInv, OnlyReviewedSteps
  <2>1. p.n \in 1..MaxChats /\ HistoryAt(p.n) /\ p.i \in Proposed(p.n)
    BY DEF Types, ChatInv, Proposed
  <2>2. p.n \notin Running
    BY DEF Running, ChatInv, ThreadInv, ThreadAt, CountedAt
  <2>3. p.n > chats \/ p.n <= chats
    BY <2>1 DEF Types
  <2> QED
    BY <2>1, <2>2, <2>3 DEF HistoryAt
<1> QED
  BY <1>1, ChatSafety, PTL

(***************************************************************************)
(* A finished request has a task record that lists exactly the approvals   *)
(* it created, and tells the user of one if there is one, unless it was    *)
(* ended by a crash, a failed write or an exception, or safe mode or the   *)
(* policy changed while it ran.                                            *)
(***************************************************************************)
THEOREM RequestsAreRecorded == Spec => []Recorded
<1>1. Types /\ ChatInv => Recorded
  <2> SUFFICES ASSUME Types, ChatInv, NEW n \in (1..chats) \ (Running \cup excused)
               PROVE  /\ tasks[n] # NoTask
                      /\ tasks[n].approvals = Proposed(n)
                      /\ Proposed(n) # {} => tasks[n].answer = "approval"
    BY DEF Recorded, Proposed
  <2>1. n \in 1..MaxChats /\ n <= chats
    BY ChatConstants DEF Types
  <2> QED
    BY <2>1 DEF ChatInv, HistoryAt
<1> QED
  BY <1>1, ChatSafety, PTL

(***************************************************************************)
(* The policy in force is what the changes asked for one after the other,  *)
(* in whatever order their reads and saves came, unless one was saved over *)
(* another that it had not read.                                           *)
(***************************************************************************)
THEOREM PolicyFollowsChanges == Spec => []PolicyIsWanted
  BY ChatSafety, PTL DEF PolicyInv
=============================================================================
