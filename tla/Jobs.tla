------------------------------- MODULE Jobs --------------------------------
(***************************************************************************)
(* Scheduled jobs (core/scheduler): reminders and the daily briefing, the  *)
(* job store that the schedulers of the API and of the worker share        *)
(* (jobs.sqlite), the notification channels and the HTTP client's retries. *)
(*                                                                         *)
(* Both processes start a scheduler on the same job store, so a due job    *)
(* can be collected twice; the execution ledger (AtomicLedger) is what     *)
(* keeps it from being sent twice.  A run is cut at every access to shared *)
(* state and at every attempt to reach the webhook, whose answer may be    *)
(* lost after the message has arrived.                                     *)
(***************************************************************************)
EXTENDS Naturals, FiniteSets

CONSTANTS
    Actors,      \* threads of the schedulers' pools
    Hosts,       \* the API and the worker process
    HostOf,      \* the process of each thread
    Reminders,   \* job ids of reminders
    Briefing,    \* the job id "daily-briefing"
    Retries,     \* retries of the Discord channel
    Discords,    \* which values of discord to consider
    MaxTime,     \* bound on the clock, in minutes
    MaxEdits,    \* bound on the requests that add or remove a job
    MaxFaults    \* bound on crashes, restarts and failed writes

JobIds == Reminders \cup {Briefing}

ASSUME JobsConstants ==
    /\ HostOf \in [Actors -> Hosts]
    /\ Briefing \notin Reminders
    /\ Discords \subseteq BOOLEAN
    /\ Retries \in Nat /\ MaxTime \in Nat
    /\ MaxEdits \in Nat /\ MaxFaults \in Nat

VARIABLES
    due,        \* jobs.sqlite: the next run time of each job, or Never
    now,        \* the clock
    up,         \* processes whose scheduler runs
    collected,  \* due jobs that each scheduler has read and not submitted
    discord,    \* BENJAMIN_NOTIFIER names discord and the webhook is set
    phase,      \* where each thread is inside its run
    run,        \* the job, key and attempt of each thread; ghost: how often
                \* the webhook has received its message
    edits, faults,  \* used up so far
    created,    \* ghost: jobs that were ever added
    sends,      \* ghost: how often a run of each key entered router.send
    failures,   \* ghost: how often a run of each key was marked failed
    orphaned,   \* ghost: keys whose run died with its process
    status, running, finished, done, forgotten  \* the ledger (AtomicLedger)

ledgerVars == <<status, running, finished, done, forgotten>>
bounds == <<edits, faults>>
sendGhosts == <<sends, failures>>
ghosts == <<created, sendGhosts, orphaned>>
shared == <<due, now, up, collected, discord>>
vars == <<shared, phase, run, bounds, ghosts, ledgerVars>>

\* job_run_key: a reminder is given its scheduled_run_iso, so its key is its
\* own; the briefing's key is the minute in which the key is computed.
MinuteKeys == {<<t>> : t \in 0..MaxTime}
Keys == Reminders \cup MinuteKeys
Ledger == INSTANCE AtomicLedger

Never == MaxTime + 1
Phases == {"idle", "gather", "claim", "send", "post", "append", "mark"}
Idle == [job |-> Briefing, key |-> <<0>>, attempt |-> 0, arrived |-> 0]
ThreadsOf(h) == {a \in Actors : HostOf[a] = h}

Init ==
    /\ due = [j \in JobIds |-> Never]
    /\ now = 0
    /\ up = Hosts
    /\ collected = [h \in Hosts |-> {}]
    /\ discord \in Discords
    /\ phase = [a \in Actors |-> "idle"]
    /\ run = [a \in Actors |-> Idle]
    /\ edits = 0 /\ faults = 0
    /\ created = {} /\ orphaned = {}
    /\ sends = [k \in Keys |-> 0]
    /\ failures = [k \in Keys |-> 0]
    /\ Ledger!Init

-----------------------------------------------------------------------------
(* Adding and removing jobs: the routes, the web interface and the         *)
(* reminders.create skill.                                                 *)

\* A reminder gets a fresh uuid4; its time may be past.
CreateReminder(j, t) ==
    /\ edits < MaxEdits
    /\ j \notin created
    /\ due' = [due EXCEPT ![j] = t]
    /\ created' = created \cup {j}
    /\ edits' = edits + 1
    /\ UNCHANGED <<now, up, collected, discord, phase, run, faults, sendGhosts,
                   orphaned, ledgerVars>>

\* A mistaken form of UpsertDailyBriefing: the time is not validated.
UpsertAnyTime(t) ==
    /\ edits < MaxEdits
    /\ t >= now
    /\ due' = [due EXCEPT ![Briefing] = t + Never]
    /\ created' = created \cup {Briefing}
    /\ edits' = edits + 1
    /\ UNCHANGED <<now, up, collected, discord, phase, run, faults, sendGhosts,
                   orphaned, ledgerVars>>

\* replace_existing: the briefing has one time; today's, if still to come.
UpsertDailyBriefing(t) ==
    /\ edits < MaxEdits
    /\ t >= now
    /\ due' = [due EXCEPT ![Briefing] = t]
    /\ created' = created \cup {Briefing}
    /\ edits' = edits + 1
    /\ UNCHANGED <<now, up, collected, discord, phase, run, faults, sendGhosts,
                   orphaned, ledgerVars>>

DeleteJob(j) ==
    /\ edits < MaxEdits
    /\ due[j] # Never
    /\ due' = [due EXCEPT ![j] = Never]
    /\ edits' = edits + 1
    /\ UNCHANGED <<now, up, collected, discord, phase, run, faults, created,
                   sendGhosts, orphaned, ledgerVars>>

-----------------------------------------------------------------------------
(* The schedulers.                                                         *)

\* A scheduler reads the due jobs from the store ...
Collect(h) ==
    LET jobs == {j \in JobIds : due[j] = now}
    IN  /\ h \in up
        /\ collected[h] = {}
        /\ jobs # {}
        /\ collected' = [collected EXCEPT ![h] = jobs]
        /\ UNCHANGED <<due, now, up, discord, phase, run, bounds, ghosts, ledgerVars>>

\* ... submits each to its pool, and removes it or moves it to its next run,
\* which is tomorrow, unless it has got another run time meanwhile.
Submit(h, a, j) ==
    /\ j \in collected[h]
    /\ HostOf[a] = h
    /\ phase[a] = "idle"
    /\ collected' = [collected EXCEPT ![h] = @ \ {j}]
    /\ due' = IF due[j] <= now THEN [due EXCEPT ![j] = Never] ELSE due
    /\ phase' = [phase EXCEPT ![a] = IF j = Briefing THEN "gather" ELSE "claim"]
    /\ run' = [run EXCEPT ![a] = [Idle EXCEPT !.job = j]]
    /\ UNCHANGED <<now, up, discord, bounds, ghosts, ledgerVars>>

\* A job found more than misfire_grace_time after its run time is dropped.
Misfire(h, j) ==
    /\ h \in up
    /\ due[j] < now
    /\ due' = [due EXCEPT ![j] = Never]
    /\ UNCHANGED <<now, up, collected, discord, phase, run, bounds, ghosts, ledgerVars>>

\* The briefings.daily skill, which the registry offers to a chat: no plan of
\* today's planner names it.
BriefingSkill(a) ==
    /\ edits < MaxEdits
    /\ phase[a] = "idle"
    /\ edits' = edits + 1
    /\ phase' = [phase EXCEPT ![a] = "gather"]
    /\ run' = [run EXCEPT ![a] = [Idle EXCEPT !.job = Briefing]]
    /\ UNCHANGED <<shared, faults, ghosts, ledgerVars>>

-----------------------------------------------------------------------------
(* run_reminder and run_daily_briefing.                                    *)

Move(a, from, to) ==
    /\ phase[a] = from
    /\ phase' = [phase EXCEPT ![a] = to]

End(a, from) ==
    /\ Move(a, from, "idle")
    /\ run' = [run EXCEPT ![a] = Idle]

Quiet == UNCHANGED <<shared, bounds, ghosts, ledgerVars>>

\* The sections of the briefing; a degraded service leaves its section out.
Gather(a) == Move(a, "gather", "claim") /\ UNCHANGED run /\ Quiet

\* Another exception of a connector ends the run before it has a key.
GatherRaises(a) == End(a, "gather") /\ Quiet

\* A mistaken form of KeyOf: a reminder's key is the minute, too.
KeyOfMinute(a) == <<now>>

KeyOf(a) == IF run[a].job = Briefing THEN <<now>> ELSE run[a].job

Claim(a) ==
    /\ Move(a, "claim", "send")
    /\ run' = [run EXCEPT ![a].key = KeyOf(a)]
    /\ Ledger!Claim(a, KeyOf(a))
    /\ UNCHANGED <<shared, bounds, ghosts>>

Duplicate(a) ==
    /\ ~Ledger!Claimable(KeyOf(a))
    /\ End(a, "claim")
    /\ Quiet

\* NotificationRouter.send: the console, then Discord if configured.
Send(a) ==
    /\ Move(a, "send", IF discord THEN "post" ELSE "append")
    /\ sends' = [sends EXCEPT ![run[a].key] = @ + 1]
    /\ UNCHANGED <<shared, run, bounds, created, failures, orphaned,
                   ledgerVars>>

(* request_with_retry, and the Discord channel that swallows its errors.   *)

\* The message arrives (once more), or not; the loop counts the attempt.
Attempted(a, arrived) ==
    run' = [run EXCEPT ![a].attempt = @ + 1,
                       ![a].arrived = IF arrived THEN @ + 1 ELSE @]

\* A 2xx status; or another status or error that is not retried.
PostAnswered(a, arrived) ==
    /\ Move(a, "post", "append")
    /\ Attempted(a, arrived)
    /\ Quiet

\* A mistaken form of PostRetryable: the count starts again.
PostRetryableForever(a, arrived) ==
    /\ Move(a, "post", "post")
    /\ run' = [run EXCEPT ![a].attempt = (@ + 1) % (Retries + 1)]
    /\ Quiet

\* A mistaken form of PostRetryable: one attempt too many.
PostRetryableOnceMore(a, arrived) ==
    /\ Move(a, "post", IF run[a].attempt > Retries THEN "append" ELSE "post")
    /\ Attempted(a, arrived)
    /\ Quiet

\* A retryable status; no connection; a lost answer, after the message has
\* arrived or not.  After the last attempt the error is swallowed.
PostRetryable(a, arrived) ==
    /\ Move(a, "post", IF run[a].attempt >= Retries THEN "append" ELSE "post")
    /\ Attempted(a, arrived)
    /\ Quiet

\* The episode is written; then the key is settled.
AppendEpisode(a) ==
    /\ Move(a, "append", "mark")
    /\ Ledger!Succeed(a, run[a].key)
    /\ UNCHANGED <<shared, run, bounds, ghosts>>

AppendRaises(a) ==
    /\ faults < MaxFaults
    /\ End(a, "append")
    /\ Ledger!MarkFailed(a, run[a].key)
    /\ failures' = [failures EXCEPT ![run[a].key] = @ + 1]
    /\ faults' = faults + 1
    /\ UNCHANGED <<shared, edits, created, sends, orphaned>>

\* A mistaken form of MarkSucceeded: the key is released instead.
MarkReleased(a) ==
    /\ End(a, "mark")
    /\ status' = [status EXCEPT ![run[a].key] = "none"]
    /\ finished' = [finished EXCEPT ![run[a].key] = @ \ {a}]
    /\ UNCHANGED <<shared, bounds, ghosts, running, done, forgotten>>

MarkSucceeded(a) ==
    /\ End(a, "mark")
    /\ Ledger!MarkSucceeded(a, run[a].key)
    /\ UNCHANGED <<shared, bounds, ghosts>>

-----------------------------------------------------------------------------
(* The processes.                                                          *)

Tick ==
    /\ now < MaxTime
    /\ now' = now + 1
    /\ UNCHANGED <<due, up, collected, discord, phase, run, bounds, ghosts, ledgerVars>>

\* shutdown(wait=False): nothing new is submitted, what runs ends.
Shutdown(h) ==
    /\ h \in up /\ faults < MaxFaults
    /\ faults' = faults + 1
    /\ up' = up \ {h}
    /\ collected' = [collected EXCEPT ![h] = {}]
    /\ UNCHANGED <<due, now, discord, phase, run, edits, ghosts, ledgerVars>>

Restart(h) ==
    /\ h \notin up
    /\ up' = up \cup {h}
    /\ UNCHANGED <<due, now, collected, discord, phase, run, bounds, ghosts, ledgerVars>>

Crash(h) ==
    /\ h \in up /\ faults < MaxFaults
    /\ faults' = faults + 1
    /\ up' = up \ {h}
    /\ collected' = [collected EXCEPT ![h] = {}]
    /\ phase' = [a \in Actors |-> IF HostOf[a] = h THEN "idle" ELSE phase[a]]
    /\ run' = [a \in Actors |-> IF HostOf[a] = h THEN Idle ELSE run[a]]
    /\ orphaned' = orphaned \cup
          {k \in Keys : (running[k] \cup finished[k]) \cap ThreadsOf(h) # {}}
    /\ Ledger!Die(ThreadsOf(h))
    /\ UNCHANGED <<due, now, discord, edits, created, sendGhosts>>

Step(a) ==
    \/ Gather(a) \/ GatherRaises(a) \/ Claim(a) \/ Duplicate(a) \/ Send(a)
    \/ \E arrived \in BOOLEAN : PostAnswered(a, arrived) \/ PostRetryable(a, arrived)
    \/ AppendEpisode(a) \/ AppendRaises(a) \/ MarkSucceeded(a)

Schedule(h) ==
    \/ Collect(h)
    \/ \E a \in Actors, j \in JobIds : Submit(h, a, j)
    \/ \E j \in JobIds : Misfire(h, j)

Next ==
    \/ \E j \in Reminders, t \in 0..MaxTime : CreateReminder(j, t)
    \/ \E t \in 0..MaxTime : UpsertDailyBriefing(t)
    \/ \E j \in JobIds : DeleteJob(j)
    \/ \E h \in Hosts : Schedule(h) \/ Shutdown(h) \/ Restart(h) \/ Crash(h)
    \/ \E a \in Actors : BriefingSkill(a) \/ Step(a)
    \/ Tick

\* A thread that can go on does: its waits for the network have timeouts.
\* The scheduler's thread of a process that is up runs.
Spec ==
    /\ Init /\ [][Next]_vars
    /\ \A a \in Actors : WF_vars(Step(a))
    /\ \A h \in Hosts : WF_vars(Schedule(h))

-----------------------------------------------------------------------------
(* Properties.                                                             *)

(***************************************************************************)
(* The job store, the schedulers, the threads and the ledger have the      *)
(* values that scheduler.py and jobs.py give them.                         *)
(***************************************************************************)
TypeOK ==
    /\ due \in [JobIds -> 0..Never]
    /\ now \in 0..MaxTime
    /\ up \subseteq Hosts
    /\ collected \in [Hosts -> SUBSET JobIds]
    /\ discord \in Discords
    /\ phase \in [Actors -> Phases]
    /\ run \in [Actors -> [job : JobIds, key : Keys, attempt : Nat, arrived : Nat]]
    /\ edits \in 0..MaxEdits
    /\ faults \in 0..MaxFaults
    /\ created \subseteq JobIds /\ orphaned \subseteq Keys
    /\ sends \in [Keys -> Nat] /\ failures \in [Keys -> Nat]
    /\ Ledger!TypeOK

(***************************************************************************)
(* A reminder, and the briefing of a minute, is sent once, however many    *)
(* schedulers collect it and whenever a process dies; it is sent again     *)
(* only after a run of it was marked failed.                               *)
(***************************************************************************)
SentOnceUnlessFailed == \A k \in Keys : sends[k] <= failures[k] + 1

(***************************************************************************)
(* However answers are lost, the webhook receives the message of one send  *)
(* no more often than the attempts that the retries allow.                 *)
(***************************************************************************)
DeliveriesBounded ==
    \A a \in Actors : run[a].arrived <= run[a].attempt /\ run[a].attempt <= Retries + 1

(***************************************************************************)
(* Every run of a job ends, with its key settled, whatever the webhook     *)
(* answers.                                                                *)
(***************************************************************************)
RunsEnd == \A a \in Actors : phase[a] # "idle" ~> phase[a] = "idle"

(***************************************************************************)
(* A reminder that a scheduler has found due is sent or its key settled,   *)
(* by one of the schedulers, unless a process dies or is stopped.          *)
(***************************************************************************)
DueReminderIsSettled ==
    \A j \in Reminders :
        (\E h \in Hosts : j \in collected[h]) ~>
            status[j] \in {"succeeded", "failed"} \/ j \in orphaned \/ up # Hosts
=============================================================================
