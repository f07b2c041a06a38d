----------------------------- MODULE JobsProofs -----------------------------
(***************************************************************************)
(* Proofs about Jobs, for every number of processes, threads, reminders    *)
(* and retries and every bound.                                            *)
(***************************************************************************)
EXTENDS Jobs, TLAPS

-----------------------------------------------------------------------------
(* Types.                                                                  *)

Runs == [job : JobIds, key : Keys, attempt : Nat, arrived : Nat]

\* TypeOK without the ledger's part, which AtomicLedger proves.
JobTypes ==
    /\ due \in [JobIds -> 0..Never]
    /\ now \in 0..MaxTime
    /\ up \subseteq Hosts
    /\ collected \in [Hosts -> SUBSET JobIds]
    /\ discord \in Discords
    /\ phase \in [Actors -> Phases]
    /\ run \in [Actors -> Runs]
    /\ edits \in 0..MaxEdits
    /\ faults \in 0..MaxFaults
    /\ created \subseteq JobIds /\ orphaned \subseteq Keys
    /\ sends \in [Keys -> Nat] /\ failures \in [Keys -> Nat]

(***************************************************************************)
(* An idle thread's run is a run, and the keys that the jobs compute are   *)
(* keys: a reminder's own and the minute's (job_run_key).                  *)
(***************************************************************************)
LEMMA KeysOfType ==
    /\ Idle \in Runs
    /\ JobTypes => \A a \in Actors : KeyOf(a) \in Keys
  BY JobsConstants
     DEF Idle, Runs, JobTypes, KeyOf, Keys, MinuteKeys, JobIds

(***************************************************************************)
(* An attempt at the webhook counts one, and what arrives is at most the   *)
(* attempt's message; nothing else of any run changes.                     *)
(***************************************************************************)
LEMMA AttemptedRun ==
    ASSUME JobTypes, NEW a \in Actors, NEW arrived \in BOOLEAN,
           Attempted(a, arrived)
    PROVE  /\ run' \in [Actors -> Runs]
           /\ \A b \in Actors : run'[b].key = run[b].key
           /\ run'[a].attempt = run[a].attempt + 1
           /\ run'[a].arrived \in {run[a].arrived, run[a].arrived + 1}
           /\ \A b \in Actors : b # a => run'[b] = run[b]
<1> DEFINE n == IF arrived THEN run[a].arrived + 1 ELSE run[a].arrived
           r == [job |-> run[a].job, key |-> run[a].key,
                 attempt |-> run[a].attempt + 1, arrived |-> n]
<1>1. n \in {run[a].arrived, run[a].arrived + 1} /\ n \in Nat
  BY DEF JobTypes, Runs
<1>2. r \in Runs
  BY <1>1 DEF JobTypes, Runs
<1>3. run' = [run EXCEPT ![a] = r]
  <2> DEFINE counted == [run EXCEPT ![a].attempt = @ + 1]
             q == [job |-> run[a].job, key |-> run[a].key,
                   attempt |-> run[a].attempt + 1, arrived |-> run[a].arrived]
  <2>1. run[a] \in Runs
    BY DEF JobTypes
  <2>2. [run[a] EXCEPT !.attempt = run[a].attempt + 1] = q
    BY <2>1 DEF Runs
  <2>3. counted = [run EXCEPT ![a] = q]
    BY <2>2 DEF JobTypes
  <2>4. run' = [counted EXCEPT ![a].arrived = n]
    BY DEF Attempted, JobTypes
  <2> HIDE DEF n, counted
  <2>5. [q EXCEPT !.arrived = n] = r
    BY DEF Runs
  <2> QED
    BY <2>3, <2>4, <2>5 DEF JobTypes
<1> QED
  BY <1>1, <1>2, <1>3 DEF JobTypes

(***************************************************************************)
(* Every step keeps the types.                                             *)
(***************************************************************************)
LEMMA JobTypesStep == JobTypes /\ [Next]_vars => JobTypes'
<1> SUFFICES ASSUME JobTypes, [Next]_vars PROVE JobTypes'
  OBVIOUS
<1> USE JobsConstants, KeysOfType
    DEF JobTypes, Runs, Phases, Never, JobIds, Quiet, Move, End, shared, bounds,
        ghosts, sendGhosts
<1>1. ASSUME NEW j \in Reminders, NEW t \in 0..MaxTime, CreateReminder(j, t)
      PROVE  JobTypes'
  BY <1>1 DEF CreateReminder
<1>2. ASSUME NEW t \in 0..MaxTime, UpsertDailyBriefing(t) PROVE JobTypes'
  BY <1>2 DEF UpsertDailyBriefing
<1>3. ASSUME NEW j \in JobIds, DeleteJob(j) PROVE JobTypes'
  BY <1>3 DEF DeleteJob
<1>4. ASSUME NEW h \in Hosts, Collect(h) PROVE JobTypes'
  BY <1>4 DEF Collect
<1>5. ASSUME NEW h \in Hosts, NEW a \in Actors, NEW j \in JobIds, Submit(h, a, j)
      PROVE  JobTypes'
  BY <1>5 DEF Submit
<1>6. ASSUME NEW h \in Hosts, NEW j \in JobIds, Misfire(h, j) PROVE JobTypes'
  BY <1>6 DEF Misfire
<1>7. ASSUME NEW h \in Hosts, Shutdown(h) PROVE JobTypes'
  BY <1>7 DEF Shutdown
<1>8. ASSUME NEW h \in Hosts, Restart(h) PROVE JobTypes'
  BY <1>8 DEF Restart
<1>9. ASSUME NEW h \in Hosts, Crash(h) PROVE JobTypes'
  BY <1>9 DEF Crash
<1>10. ASSUME NEW a \in Actors, BriefingSkill(a) PROVE JobTypes'
  BY <1>10 DEF BriefingSkill
<1>11. ASSUME NEW a \in Actors, Gather(a) PROVE JobTypes'
  BY <1>11 DEF Gather
<1>12. ASSUME NEW a \in Actors, GatherRaises(a) PROVE JobTypes'
  BY <1>12 DEF GatherRaises
<1>13. ASSUME NEW a \in Actors, Claim(a) PROVE JobTypes'
  BY <1>13 DEF Claim
<1>14. ASSUME NEW a \in Actors, Duplicate(a) PROVE JobTypes'
  BY <1>14 DEF Duplicate
<1>15. ASSUME NEW a \in Actors, Send(a) PROVE JobTypes'
  BY <1>15 DEF Send
<1>16. ASSUME NEW a \in Actors, NEW arrived \in BOOLEAN, PostAnswered(a, arrived)
      PROVE  JobTypes'
  BY <1>16, AttemptedRun DEF PostAnswered
<1>17. ASSUME NEW a \in Actors, NEW arrived \in BOOLEAN, PostRetryable(a, arrived)
      PROVE  JobTypes'
  BY <1>17, AttemptedRun DEF PostRetryable
<1>18. ASSUME NEW a \in Actors, AppendEpisode(a) PROVE JobTypes'
  BY <1>18 DEF AppendEpisode
<1>19. ASSUME NEW a \in Actors, AppendRaises(a) PROVE JobTypes'
  BY <1>19 DEF AppendRaises
<1>20. ASSUME NEW a \in Actors, MarkSucceeded(a) PROVE JobTypes'
  BY <1>20 DEF MarkSucceeded
<1>21. CASE Tick
  BY <1>21 DEF Tick
<1>22. CASE UNCHANGED vars
  BY <1>22 DEF vars
<1> QED
  BY <1>1, <1>2, <1>3, <1>4, <1>5, <1>6, <1>7, <1>8, <1>9, <1>10, <1>11,
     <1>12, <1>13, <1>14, <1>15, <1>16, <1>17, <1>18, <1>19, <1>20, <1>21,
     <1>22
     DEF Next, Schedule, Step

-----------------------------------------------------------------------------
(* The jobs use the ledger only through its operations.                    *)

(***************************************************************************)
(* Every step of the jobs is a step of the ledger or leaves it alone.      *)
(***************************************************************************)
LEMMA LedgerStep == JobTypes /\ [Next]_vars => [Ledger!Next]_(Ledger!vars)
<1> SUFFICES ASSUME JobTypes, [Next]_vars PROVE [Ledger!Next]_(Ledger!vars)
  OBVIOUS
<1> USE DEF Ledger!vars, ledgerVars, Quiet
<1>1. ASSUME NEW a \in Actors, Claim(a) PROVE [Ledger!Next]_(Ledger!vars)
  BY <1>1, KeysOfType DEF Claim, Ledger!Next
<1>2. ASSUME NEW a \in Actors, AppendEpisode(a) PROVE [Ledger!Next]_(Ledger!vars)
  BY <1>2 DEF AppendEpisode, Ledger!Next, JobTypes, Runs
<1>3. ASSUME NEW a \in Actors, AppendRaises(a) PROVE [Ledger!Next]_(Ledger!vars)
  BY <1>3 DEF AppendRaises, Ledger!Next, JobTypes, Runs
<1>4. ASSUME NEW a \in Actors, MarkSucceeded(a) PROVE [Ledger!Next]_(Ledger!vars)
  BY <1>4 DEF MarkSucceeded, Ledger!Next, JobTypes, Runs
<1>5. ASSUME NEW h \in Hosts, Crash(h) PROVE [Ledger!Next]_(Ledger!vars)
  <2>1. ThreadsOf(h) \in SUBSET Actors
    BY DEF ThreadsOf
  <2> QED
    BY <1>5, <2>1 DEF Crash, Ledger!Next
<1>6. ASSUME NEW a \in Actors,
             \/ BriefingSkill(a) \/ Gather(a) \/ GatherRaises(a) \/ Duplicate(a)
             \/ Send(a)
             \/ \E arrived \in BOOLEAN : PostAnswered(a, arrived) \/ PostRetryable(a, arrived)
      PROVE  [Ledger!Next]_(Ledger!vars)
  BY <1>6 DEF BriefingSkill, Gather, GatherRaises, Duplicate, Send, PostAnswered,
              PostRetryable
<1>7. ASSUME NEW h \in Hosts, Schedule(h) \/ Shutdown(h) \/ Restart(h)
      PROVE  [Ledger!Next]_(Ledger!vars)
  BY <1>7 DEF Schedule, Collect, Submit, Misfire, Shutdown, Restart
<1>8. CASE \/ \E j \in Reminders, t \in 0..MaxTime : CreateReminder(j, t)
           \/ \E t \in 0..MaxTime : UpsertDailyBriefing(t)
           \/ \E j \in JobIds : DeleteJob(j)
           \/ Tick \/ UNCHANGED vars
  BY <1>8 DEF CreateReminder, UpsertDailyBriefing, DeleteJob, Tick, vars
<1> QED
  BY <1>1, <1>2, <1>3, <1>4, <1>5, <1>6, <1>7, <1>8 DEF Next, Step

(***************************************************************************)
(* No run evicts a key from the ledger in this model.                      *)
(***************************************************************************)
LEMMA NothingForgottenStep == [Next]_vars => UNCHANGED forgotten
  BY DEF Next, vars, ledgerVars, Step, Schedule, CreateReminder, DeleteJob,
         UpsertDailyBriefing, Collect, Submit, Misfire, BriefingSkill, Gather,
         GatherRaises, Claim, Duplicate, Send, PostAnswered, PostRetryable,
         AppendEpisode, AppendRaises, MarkSucceeded, Tick, Shutdown, Restart,
         Crash, Quiet, Ledger!Claim, Ledger!Succeed, Ledger!MarkSucceeded,
         Ledger!MarkFailed, Ledger!Die

-----------------------------------------------------------------------------
(* The inductive invariant.                                                *)

\* Between its claim and its mark, a thread is who holds its run's key.
KeyHeld ==
    \A a \in Actors :
        /\ phase[a] \in {"send", "post", "append"} => a \in running[run[a].key]
        /\ phase[a] = "mark" => a \in finished[run[a].key]

\* A key that a run may claim, or has claimed and not sent, was not sent
\* since it last failed.
SendsCounted ==
    /\ SentOnceUnlessFailed
    /\ \A k \in Keys : status[k] \in {"none", "failed"} => sends[k] <= failures[k]
    /\ \A a \in Actors :
          phase[a] = "send" => sends[run[a].key] <= failures[run[a].key]

\* A thread that may still post has an attempt left; a new run has made none.
AttemptsCounted ==
    /\ DeliveriesBounded
    /\ \A a \in Actors :
          /\ phase[a] \in {"idle", "gather", "claim", "send"} => run[a].attempt = 0
          /\ phase[a] = "post" => run[a].attempt <= Retries

JobInv ==
    /\ JobTypes /\ Ledger!IndInv /\ forgotten = {}
    /\ KeyHeld /\ SendsCounted /\ AttemptsCounted

(***************************************************************************)
(* The schedulers start with no job, no run and an empty ledger.           *)
(***************************************************************************)
LEMMA JobInit == Init => JobInv
<1> SUFFICES ASSUME Init PROVE JobInv
  OBVIOUS
<1> USE JobsConstants DEF Init
<1>1. JobTypes
  BY KeysOfType DEF JobTypes, Phases, Never, JobIds
<1>2. Ledger!IndInv /\ forgotten = {}
  BY Ledger!AtomicInit DEF Ledger!Init
<1>3. KeyHeld /\ SendsCounted /\ AttemptsCounted
  BY DEF KeyHeld, SendsCounted, SentOnceUnlessFailed, AttemptsCounted,
         DeliveriesBounded, Idle
<1> QED
  BY <1>1, <1>2, <1>3 DEF JobInv

(***************************************************************************)
(* A thread keeps its key until it settles it: no other thread can take a  *)
(* claim away, and a process that dies takes its threads with it.          *)
(***************************************************************************)
LEMMA KeyHeldStep == JobInv /\ [Next]_vars => KeyHeld'
<1> SUFFICES ASSUME JobInv, [Next]_vars PROVE KeyHeld'
  OBVIOUS
<1> USE DEF JobInv, JobTypes, Runs, KeyHeld, Ledger!IndInv, Ledger!TypeOK, ledgerVars,
            Quiet, Move, End, shared
<1>1. ASSUME NEW a \in Actors, Claim(a) PROVE KeyHeld'
  BY <1>1, KeysOfType DEF Claim, Ledger!Claim
<1>2. ASSUME NEW a \in Actors, AppendEpisode(a) PROVE KeyHeld'
  BY <1>2 DEF AppendEpisode, Ledger!Succeed
<1>3. ASSUME NEW a \in Actors, AppendRaises(a) PROVE KeyHeld'
  BY <1>3 DEF AppendRaises, Ledger!MarkFailed
<1>4. ASSUME NEW a \in Actors, MarkSucceeded(a) PROVE KeyHeld'
  BY <1>4 DEF MarkSucceeded, Ledger!MarkSucceeded
<1>5. ASSUME NEW h \in Hosts, Crash(h) PROVE KeyHeld'
  BY <1>5 DEF Crash, Ledger!Die, ThreadsOf
<1>6. ASSUME NEW a \in Actors, NEW arrived \in BOOLEAN,
             PostAnswered(a, arrived) \/ PostRetryable(a, arrived)
      PROVE  KeyHeld'
  BY <1>6, AttemptedRun DEF PostAnswered, PostRetryable
<1>7. ASSUME NEW a \in Actors,
             BriefingSkill(a) \/ Gather(a) \/ GatherRaises(a) \/ Duplicate(a) \/ Send(a)
      PROVE  KeyHeld'
  BY <1>7 DEF BriefingSkill, Gather, GatherRaises, Duplicate, Send
<1>8. ASSUME NEW h \in Hosts, Schedule(h) \/ Shutdown(h) \/ Restart(h)
      PROVE  KeyHeld'
  BY <1>8 DEF Schedule, Collect, Submit, Misfire, Shutdown, Restart
<1>9. CASE \/ \E j \in Reminders, t \in 0..MaxTime : CreateReminder(j, t)
           \/ \E t \in 0..MaxTime : UpsertDailyBriefing(t)
           \/ \E j \in JobIds : DeleteJob(j)
           \/ Tick \/ UNCHANGED vars
  BY <1>9 DEF CreateReminder, UpsertDailyBriefing, DeleteJob, Tick, vars
<1> QED
  BY <1>1, <1>2, <1>3, <1>4, <1>5, <1>6, <1>7, <1>8, <1>9 DEF Next, Step

(***************************************************************************)
(* A key is sent by the one thread that holds it, and may be claimed again *)
(* only after a failure that is counted.                                   *)
(***************************************************************************)
LEMMA SendsCountedStep == JobInv /\ [Next]_vars => SendsCounted'
<1> SUFFICES ASSUME JobInv, [Next]_vars PROVE SendsCounted'
  OBVIOUS
<1> USE DEF JobInv, JobTypes, Runs, SendsCounted, SentOnceUnlessFailed, ledgerVars,
            Quiet, Move, End, shared, ghosts, sendGhosts
<1>1. ASSUME NEW a \in Actors, Claim(a) PROVE SendsCounted'
  BY <1>1, KeysOfType
     DEF Claim, Ledger!Claim, Ledger!Claimable, Ledger!IndInv, Ledger!TypeOK,
         Ledger!Statuses, Ledger!Settled
<1>2. ASSUME NEW a \in Actors, Send(a) PROVE SendsCounted'
  <2> DEFINE k == run[a].key
  <2>1. /\ k \in Keys /\ sends[k] <= failures[k] /\ status[k] = "started"
        /\ \A b \in Actors : phase[b] = "send" /\ run[b].key = k => b = a
    BY <1>2 DEF Send, KeyHeld, Ledger!IndInv, Ledger!KeyInv, Ledger!Claims
  <2>2. /\ sends' = [sends EXCEPT ![k] = @ + 1]
        /\ UNCHANGED <<failures, status, run>>
        /\ phase' = [phase EXCEPT ![a] = IF discord THEN "post" ELSE "append"]
    BY <1>2 DEF Send
  <2> HIDE DEF k
  <2> QED
    BY <2>1, <2>2
<1>3. ASSUME NEW a \in Actors, AppendEpisode(a) PROVE SendsCounted'
  BY <1>3 DEF AppendEpisode, Ledger!Succeed
<1>4. ASSUME NEW a \in Actors, AppendRaises(a) PROVE SendsCounted'
  <2> DEFINE k == run[a].key
  <2>1. /\ k \in Keys
        /\ failures' = [failures EXCEPT ![k] = @ + 1]
        /\ status' = [status EXCEPT ![k] = "failed"]
        /\ UNCHANGED sends
        /\ phase' = [phase EXCEPT ![a] = "idle"]
        /\ run' = [run EXCEPT ![a] = Idle]
    BY <1>4 DEF AppendRaises, Ledger!MarkFailed
  <2> HIDE DEF k
  <2> QED
    BY <2>1 DEF Ledger!IndInv, Ledger!TypeOK
<1>5. ASSUME NEW a \in Actors, MarkSucceeded(a) PROVE SendsCounted'
  BY <1>5 DEF MarkSucceeded, Ledger!MarkSucceeded, Ledger!IndInv, Ledger!TypeOK
<1>6. ASSUME NEW h \in Hosts, Crash(h) PROVE SendsCounted'
  BY <1>6 DEF Crash, Ledger!Die
<1>7. ASSUME NEW a \in Actors, NEW arrived \in BOOLEAN,
             PostAnswered(a, arrived) \/ PostRetryable(a, arrived)
      PROVE  SendsCounted'
  BY <1>7, AttemptedRun DEF PostAnswered, PostRetryable
<1>8. ASSUME NEW a \in Actors,
             BriefingSkill(a) \/ Gather(a) \/ GatherRaises(a) \/ Duplicate(a)
      PROVE  SendsCounted'
  BY <1>8 DEF BriefingSkill, Gather, GatherRaises, Duplicate
<1>9. ASSUME NEW h \in Hosts, Schedule(h) \/ Shutdown(h) \/ Restart(h)
      PROVE  SendsCounted'
  BY <1>9, SMTT(30) DEF Schedule, Collect, Submit, Misfire, Shutdown, Restart
<1>10. CASE \/ \E j \in Reminders, t \in 0..MaxTime : CreateReminder(j, t)
            \/ \E t \in 0..MaxTime : UpsertDailyBriefing(t)
            \/ \E j \in JobIds : DeleteJob(j)
            \/ Tick \/ UNCHANGED vars
  BY <1>10 DEF CreateReminder, UpsertDailyBriefing, DeleteJob, Tick, vars
<1> QED
  BY <1>1, <1>2, <1>3, <1>4, <1>5, <1>6, <1>7, <1>8, <1>9, <1>10 DEF Next, Step

(***************************************************************************)
(* The retries count every attempt of a run and start again with the next. *)
(***************************************************************************)
LEMMA AttemptsCountedStep == JobInv /\ [Next]_vars => AttemptsCounted'
<1> SUFFICES ASSUME JobInv, [Next]_vars PROVE AttemptsCounted'
  OBVIOUS
<1> USE JobsConstants
    DEF JobInv, JobTypes, Runs, Idle, AttemptsCounted, DeliveriesBounded, Quiet,
        Move, End, shared
<1>1. ASSUME NEW a \in Actors, Claim(a) PROVE AttemptsCounted'
  BY <1>1 DEF Claim
<1>2. ASSUME NEW a \in Actors, NEW arrived \in BOOLEAN, PostAnswered(a, arrived)
      PROVE  AttemptsCounted'
  BY <1>2, AttemptedRun DEF PostAnswered
<1>3. ASSUME NEW a \in Actors, NEW arrived \in BOOLEAN, PostRetryable(a, arrived)
      PROVE  AttemptsCounted'
  <2>1. CASE run[a].attempt >= Retries
    BY <1>3, <2>1, AttemptedRun DEF PostRetryable
  <2>2. CASE run[a].attempt < Retries
    BY <1>3, <2>2, AttemptedRun DEF PostRetryable
  <2> QED BY <2>1, <2>2
<1>4. ASSUME NEW a \in Actors,
             \/ BriefingSkill(a) \/ Gather(a) \/ GatherRaises(a) \/ Duplicate(a)
             \/ Send(a) \/ AppendEpisode(a) \/ AppendRaises(a) \/ MarkSucceeded(a)
      PROVE  AttemptsCounted'
  BY <1>4 DEF BriefingSkill, Gather, GatherRaises, Duplicate, Send, AppendEpisode,
              AppendRaises, MarkSucceeded
<1>5. ASSUME NEW h \in Hosts, Schedule(h) \/ Shutdown(h) \/ Restart(h) \/ Crash(h)
      PROVE  AttemptsCounted'
  BY <1>5, SMTT(30) DEF Schedule, Collect, Submit, Misfire, Shutdown, Restart, Crash
<1>6. CASE \/ \E j \in Reminders, t \in 0..MaxTime : CreateReminder(j, t)
           \/ \E t \in 0..MaxTime : UpsertDailyBriefing(t)
           \/ \E j \in JobIds : DeleteJob(j)
           \/ Tick \/ UNCHANGED vars
  BY <1>6 DEF CreateReminder, UpsertDailyBriefing, DeleteJob, Tick, vars
<1> QED
  BY <1>1, <1>2, <1>3, <1>4, <1>5, <1>6 DEF Next, Step

-----------------------------------------------------------------------------
(* The theorems.                                                           *)

(***************************************************************************)
(* The invariant holds in every reachable state.                           *)
(***************************************************************************)
LEMMA JobSafety == Spec => []JobInv
<1>1. JobInv /\ [Next]_vars => JobInv'
  <2> SUFFICES ASSUME JobInv, [Next]_vars PROVE JobInv'
    OBVIOUS
  <2>1. JobTypes' /\ Ledger!IndInv' /\ forgotten' = {}
    BY JobTypesStep, LedgerStep, Ledger!AtomicStep, NothingForgottenStep DEF JobInv
  <2> QED
    BY <2>1, KeyHeldStep, SendsCountedStep, AttemptsCountedStep DEF JobInv
<1> QED
  BY <1>1, JobInit, PTL DEF Spec

(***************************************************************************)
(* The job store, the schedulers, the threads and the ledger have the      *)
(* values that scheduler.py and jobs.py give them.                         *)
(***************************************************************************)
THEOREM JobsTypeCorrect == Spec => []TypeOK
<1>1. JobInv => TypeOK
  BY DEF JobInv, JobTypes, Runs, TypeOK, Ledger!IndInv
<1> QED
  BY <1>1, JobSafety, PTL

(***************************************************************************)
(* The jobs use the execution ledger as the atomic table promises: what    *)
(* the ledger guarantees, the jobs may rely on.                            *)
(***************************************************************************)
THEOREM JobsUseLedger == Spec => Ledger!Spec
<1>1. Init => Ledger!Init
  BY DEF Init
<1>2. JobInv /\ [Next]_vars => [Ledger!Next]_(Ledger!vars)
  BY LedgerStep DEF JobInv
<1> QED
  BY <1>1, <1>2, JobSafety, PTL DEF Spec, Ledger!Spec

(***************************************************************************)
(* However many schedulers collect a job and whenever a process dies, a    *)
(* key is sent once, and once more only for each run of it that failed.    *)
(***************************************************************************)
THEOREM JobSentOnce == Spec => []SentOnceUnlessFailed
<1>1. JobInv => SentOnceUnlessFailed
  BY DEF JobInv, SendsCounted
<1> QED
  BY <1>1, JobSafety, PTL

(***************************************************************************)
(* No send reaches the webhook more often than its retries allow.          *)
(***************************************************************************)
THEOREM JobDeliveriesBounded == Spec => []DeliveriesBounded
<1>1. JobInv => DeliveriesBounded
  BY DEF JobInv, AttemptsCounted
<1> QED
  BY <1>1, JobSafety, PTL

(***************************************************************************)
(* Two threads are never inside the run of the same key.                   *)
(***************************************************************************)
THEOREM JobRunsAlone == Spec => []Ledger!ExclusiveRun
  BY JobsUseLedger, Ledger!AtomicSafety, PTL
=============================================================================
