-------------------------- MODULE ExecutionLedger --------------------------
(***************************************************************************)
(* The execution ledger: executions.jsonl, its lock file executions.lock   *)
(* and the threads of the API and worker processes that use them           *)
(* (core/ledger/ledger.py).                                                *)
(*                                                                         *)
(* Each call of try_start or mark is cut at every access to the file       *)
(* system: create the lock file, read the records, append one, write the   *)
(* shared temporary file of the trim, rename it, remove the lock file.  A  *)
(* caller that was granted the key then runs the protected action and      *)
(* marks the outcome, as the approval service, the rule engine and the     *)
(* scheduled jobs do.  A process may die at any point; its threads vanish  *)
(* and the files stay as they are.                                         *)
(***************************************************************************)
EXTENDS Integers, Sequences, FiniteSets

CONSTANTS
    Actors,       \* threads that call the ledger
    Hosts,        \* operating system processes (API, worker)
    HostOf,       \* the process each thread belongs to
    Keys,         \* idempotency keys
    MaxRecords,   \* BENJAMIN_LEDGER_MAX; 0 or less keeps everything
    FileLock,     \* BENJAMIN_LEDGER_LOCK_MODE = "file"
    HolderMayDie,    \* a process may die while it holds the lock file
    HolderMayStall,  \* a thread may hold the lock file for 2 s or more
    MaxAttempts,  \* bound on the calls of try_start
    MaxCrashes,   \* bound on the crashes
    Free, Stale   \* lock file absent; lock file of a process that died

ASSUME LedgerConstants ==
    /\ Keys # {}
    /\ HostOf \in [Actors -> Hosts]
    /\ MaxRecords \in Int
    /\ FileLock \in BOOLEAN
    /\ HolderMayDie \in BOOLEAN
    /\ HolderMayStall \in BOOLEAN
    /\ MaxAttempts \in Nat
    /\ MaxCrashes \in Nat
    /\ Free \notin Actors
    /\ Stale \notin Actors
    /\ Free # Stale

\* The lock file does what it is there for.
LockIntact == FileLock /\ ~HolderMayDie /\ ~HolderMayStall

VARIABLES
    file,      \* the records of executions.jsonl, oldest first
    tmp,       \* the trim's executions.tmp: present or not, and its records
    lock,      \* executions.lock: Free, its creator, or Stale
    phase,     \* where each thread is inside its call
    call,      \* the call each thread is making
    attempts,  \* calls of try_start so far
    crashes,   \* crashes so far
    log,       \* ghost: every record ever appended
    done,      \* ghost: how often the action of each key succeeded
    forgotten  \* ghost: keys whose records a trim dropped

files == <<file, tmp, lock>>
ghosts == <<log, done, forgotten>>
counters == <<attempts, crashes>>
vars == <<files, phase, call, counters, ghosts>>

-----------------------------------------------------------------------------
(* Records.                                                                *)

\* The statuses the callers record (schemas.LedgerStatus also has "skipped",
\* which no caller of mark uses).
RecordStatuses == {"started", "succeeded", "failed"}
Records == [key : Keys, status : RecordStatuses]

NoTmp == [exists |-> FALSE, records |-> <<>>]

\* _latest_record_by_key()[k].status = s
LatestIs(records, k, s) ==
    \E i \in 1..Len(records) :
        /\ records[i] = [key |-> k, status |-> s]
        /\ \A j \in (i + 1)..Len(records) : records[j].key # k

Mentions(records, k) == \E i \in 1..Len(records) : records[i].key = k

\* Mistaken forms of Claimed: a finished action, or one in progress, is no
\* reason to refuse.
ClaimedIfStarted(records, k) == LatestIs(records, k, "started")
ClaimedIfSucceeded(records, k) == LatestIs(records, k, "succeeded")

\* try_start's reason to answer False
Claimed(records, k) ==
    \E s \in {"started", "succeeded"} : LatestIs(records, k, s)

\* A mistaken form of LastRecords: one record too few.
LastRecordsButOne(records) ==
    SubSeq(records, Len(records) - MaxRecords + 2, Len(records))

\* records[-max_records:]
LastRecords(records) ==
    SubSeq(records, Len(records) - MaxRecords + 1, Len(records))

NeedsTrim(records) == MaxRecords > 0 /\ Len(records) > MaxRecords

-----------------------------------------------------------------------------
(* Threads and calls.                                                      *)

Phases == {"idle", "acquire", "read", "append", "trim", "replace",
           "release", "run"}

\* The phases between _file_lock's yield and its finally.
Critical == {"read", "append", "trim", "replace", "release"}

Calls == [op : {"try_start", "mark"}, key : Keys, status : RecordStatuses,
          outcome : {"ok", "duplicate", "raised"}]

TryStartOf(k) ==
    [op |-> "try_start", key |-> k, status |-> "started", outcome |-> "ok"]

\* A mistaken form of MarkOf: a status that no reader knows.
MarkOfUnknown(k, s) ==
    [op |-> "mark", key |-> k, status |-> IF s = "failed" THEN "error" ELSE s,
     outcome |-> "ok"]

MarkOf(k, s) ==
    [op |-> "mark", key |-> k, status |-> s, outcome |-> "ok"]

\* What call holds while the thread is idle.
NoCall == TryStartOf(CHOOSE k \in Keys : TRUE)

Goto(a, to) == phase' = [phase EXCEPT ![a] = to]

Init ==
    /\ file = <<>>
    /\ tmp = NoTmp
    /\ lock = Free
    /\ phase = [a \in Actors |-> "idle"]
    /\ call = [a \in Actors |-> NoCall]
    /\ attempts = 0
    /\ crashes = 0
    /\ log = <<>>
    /\ done = [k \in Keys |-> 0]
    /\ forgotten = {}

\* A job, an approval or a rule action calls try_start.
TryStart(a, k) ==
    /\ phase[a] = "idle"
    /\ attempts < MaxAttempts
    /\ attempts' = attempts + 1
    /\ call' = [call EXCEPT ![a] = TryStartOf(k)]
    /\ Goto(a, "acquire")
    /\ UNCHANGED <<files, crashes, ghosts>>

\* A mistaken form of Acquire: O_CREAT without O_EXCL.
AcquireShared(a) ==
    /\ phase[a] = "acquire"
    /\ lock' = IF FileLock THEN a ELSE lock
    /\ Goto(a, "read")
    /\ UNCHANGED <<file, tmp, call, counters, ghosts>>

\* _file_lock: O_CREAT | O_EXCL succeeds, or there is no lock to take.
Acquire(a) ==
    /\ phase[a] = "acquire"
    /\ FileLock => lock = Free
    /\ lock' = IF FileLock THEN a ELSE lock
    /\ Goto(a, "read")
    /\ UNCHANGED <<file, tmp, call, counters, ghosts>>

\* A mistaken form of LockTimeout: no deadline.
LockNeverTimesOut(a) == FALSE

\* _file_lock: the deadline passes while the lock file is there; the caller
\* goes on without the lock.
LockTimeout(a) ==
    /\ phase[a] = "acquire"
    /\ FileLock
    /\ lock = Stale \/ (lock # Free /\ HolderMayStall)
    /\ Goto(a, "read")
    /\ UNCHANGED <<files, call, counters, ghosts>>

\* The latest record of the key is read; try_start gives up if it is
\* started or succeeded, mark only copies its metadata.
Read(a) ==
    /\ phase[a] = "read"
    /\ IF call[a].op = "try_start" /\ Claimed(file, call[a].key)
         THEN /\ call' = [call EXCEPT ![a].outcome = "duplicate"]
              /\ Goto(a, "release")
         ELSE /\ UNCHANGED call
              /\ Goto(a, "append")
    /\ UNCHANGED <<files, counters, ghosts>>

\* _append
AppendRecord(a) ==
    LET record == [key |-> call[a].key, status |-> call[a].status] IN
    /\ phase[a] = "append"
    /\ file' = Append(file, record)
    /\ log' = Append(log, record)
    /\ Goto(a, "trim")
    /\ UNCHANGED <<tmp, lock, call, counters, done, forgotten>>

\* trim, up to and including the close of the temporary file
Trim(a) ==
    /\ phase[a] = "trim"
    /\ IF NeedsTrim(file)
         THEN /\ tmp' = [exists |-> TRUE, records |-> LastRecords(file)]
              /\ Goto(a, "replace")
         ELSE /\ UNCHANGED tmp
              /\ Goto(a, "release")
    /\ UNCHANGED <<file, lock, call, counters, ghosts>>

\* tmp_path.replace(self.path); it raises if another thread, not kept out by
\* the lock, has renamed the shared temporary file already.
Replace(a) ==
    /\ phase[a] = "replace"
    /\ IF tmp.exists
         THEN /\ file' = tmp.records
              /\ tmp' = NoTmp
              /\ forgotten' = forgotten \cup
                    {k \in Keys : Mentions(file, k) /\ ~Mentions(tmp.records, k)}
              /\ UNCHANGED call
         ELSE /\ call' = [call EXCEPT ![a].outcome = "raised"]
              /\ UNCHANGED <<file, tmp, forgotten>>
    /\ Goto(a, "release")
    /\ UNCHANGED <<lock, counters, log, done>>

\* A mistaken form of Unlock: only the lock of a live process is removed.
UnlockKeepsStale == lock' = IF FileLock /\ lock # Stale THEN Free ELSE lock

\* _file_lock's finally removes the lock file, whoever created it.
Unlock == lock' = IF FileLock THEN Free ELSE lock

\* try_start returns True: the caller goes on to its action.
ReleaseGranted(a) ==
    /\ phase[a] = "release"
    /\ call[a].op = "try_start" /\ call[a].outcome = "ok"
    /\ Unlock
    /\ Goto(a, "run")
    /\ UNCHANGED <<file, tmp, call, counters, ghosts>>

\* try_start returns False, mark returns, or an exception ends the call.
ReleaseDone(a) ==
    /\ phase[a] = "release"
    /\ call[a].op = "mark" \/ call[a].outcome # "ok"
    /\ Unlock
    /\ Goto(a, "idle")
    /\ call' = [call EXCEPT ![a] = NoCall]
    /\ UNCHANGED <<file, tmp, counters, ghosts>>

\* run_reminder and run_daily_briefing call mark(key, "succeeded") inside the
\* try block, so an exception in it leads to mark(key, "failed").
ReleaseRetry(a) ==
    /\ phase[a] = "release"
    /\ call[a].op = "mark" /\ call[a].outcome = "raised"
    /\ call[a].status = "succeeded"
    /\ Unlock
    /\ Goto(a, "acquire")
    /\ call' = [call EXCEPT ![a] = MarkOf(call[a].key, "failed")]
    /\ UNCHANGED <<file, tmp, counters, ghosts>>

\* The action succeeds; its caller goes on to mark(key, "succeeded").
RunSucceeds(a) ==
    /\ phase[a] = "run"
    /\ done' = [done EXCEPT ![call[a].key] = @ + 1]
    /\ call' = [call EXCEPT ![a] = MarkOf(call[a].key, "succeeded")]
    /\ Goto(a, "acquire")
    /\ UNCHANGED <<files, counters, log, forgotten>>

\* The action fails; its caller goes on to mark(key, "failed").
RunFails(a) ==
    /\ phase[a] = "run"
    /\ call' = [call EXCEPT ![a] = MarkOf(call[a].key, "failed")]
    /\ Goto(a, "acquire")
    /\ UNCHANGED <<files, counters, ghosts>>

\* A process dies; its threads vanish and it is started again.
ThreadsOf(h) == {a \in Actors : HostOf[a] = h}

Crash(h) ==
    /\ crashes < MaxCrashes
    /\ \E a \in ThreadsOf(h) : phase[a] # "idle"
    /\ lock \in ThreadsOf(h) => HolderMayDie
    /\ crashes' = crashes + 1
    /\ phase' = [a \in Actors |-> IF HostOf[a] = h THEN "idle" ELSE phase[a]]
    /\ call' = [a \in Actors |-> IF HostOf[a] = h THEN NoCall ELSE call[a]]
    /\ lock' = IF lock \in ThreadsOf(h) THEN Stale ELSE lock
    /\ UNCHANGED <<file, tmp, attempts, ghosts>>

\* The steps a thread takes by itself once it has entered a call.
Lock(a) == Acquire(a) \/ LockTimeout(a)
Run(a) == RunSucceeds(a) \/ RunFails(a)
Release(a) == ReleaseGranted(a) \/ ReleaseDone(a) \/ ReleaseRetry(a)
Step(a) ==
    \/ Lock(a) \/ Read(a) \/ AppendRecord(a) \/ Trim(a) \/ Replace(a)
    \/ Release(a) \/ Run(a)

Next ==
    \/ \E a \in Actors, k \in Keys : TryStart(a, k)
    \/ \E a \in Actors : Step(a)
    \/ \E h \in Hosts : Crash(h)

Spec == Init /\ [][Next]_vars

\* Every thread that has entered a call is scheduled until it returns: the
\* wait for the lock ends at the latest at its deadline, and the protected
\* actions (HTTP calls with timeouts, a notification) return.
FairSpec == Spec /\ \A a \in Actors : WF_vars(Step(a))

-----------------------------------------------------------------------------
(* Properties.                                                             *)

(***************************************************************************)
(* The files hold ledger records, and the calls are calls of try_start or  *)
(* mark with the statuses that ledger.py's callers record.                 *)
(***************************************************************************)
TypeOK ==
    /\ file \in Seq(Records)
    /\ tmp \in [exists : BOOLEAN, records : Seq(Records)]
    /\ lock \in Actors \cup {Free, Stale}
    /\ phase \in [Actors -> Phases]
    /\ call \in [Actors -> Calls]
    /\ attempts \in 0..MaxAttempts
    /\ crashes \in 0..MaxCrashes
    /\ log \in Seq(Records)
    /\ done \in [Keys -> Nat]
    /\ forgotten \subseteq Keys

(***************************************************************************)
(* The action of a key succeeds at most once, unless a trim dropped the    *)
(* key's records.  try_start's check of the latest record and its append   *)
(* of "started" must be one step for this, and "started" must survive the  *)
(* crash of the caller.                                                    *)
(***************************************************************************)
AtMostOnce == \A k \in Keys \ forgotten : done[k] <= 1

(***************************************************************************)
(* No two threads are inside the protected action of the same key at the   *)
(* same time, unless a trim dropped the key's records.                     *)
(***************************************************************************)
ExclusiveRun ==
    \A k \in Keys \ forgotten, a, b \in Actors :
        /\ phase[a] = "run" /\ call[a].key = k
        /\ phase[b] = "run" /\ call[b].key = k
        => a = b

(***************************************************************************)
(* No appended record is lost but by the trim, which keeps the newest      *)
(* BENJAMIN_LEDGER_MAX of them: the file is a suffix of everything ever    *)
(* appended and never shorter than that.                                   *)
(***************************************************************************)
NoRecordLost ==
    LET n == Len(file)
        m == Len(log)
    IN  /\ n <= m
        /\ \A i \in 1..n : file[i] = log[m - n + i]
        /\ n < m => MaxRecords > 0 /\ n >= MaxRecords

(* The refinement mapping to AtomicLedger: a key's status is that of its   *)
(* latest record; a thread holds a claim from its append of "started"      *)
(* until its append of the outcome.                                        *)
StatusOf(records, k) ==
    IF \E s \in RecordStatuses : LatestIs(records, k, s)
      THEN CHOOSE s \in RecordStatuses : LatestIs(records, k, s)
      ELSE "none"

Granted(a) ==
    \/ phase[a] = "run"
    \/ /\ call[a].op = "try_start" /\ call[a].outcome = "ok"
       /\ phase[a] \in {"trim", "replace", "release"}

Settling(a, s) ==
    /\ call[a].op = "mark" /\ call[a].status = s
    /\ phase[a] \in {"acquire", "read", "append"}

StatusBar == [k \in Keys |-> StatusOf(file, k)]

RunningBar ==
    [k \in Keys |-> {a \in Actors : /\ call[a].key = k
                                    /\ Granted(a) \/ Settling(a, "failed")}]

FinishedBar ==
    [k \in Keys |-> {a \in Actors : /\ call[a].key = k
                                    /\ Settling(a, "succeeded")}]

Table == INSTANCE AtomicLedger WITH
            status <- StatusBar, running <- RunningBar, finished <- FinishedBar

(***************************************************************************)
(* The ledger implements the atomic table of AtomicLedger: seen from its   *)
(* callers, try_start and mark take effect in one step, at their append.   *)
(***************************************************************************)
ImplementsTable == Table!Spec

(***************************************************************************)
(* Every call of the ledger returns, also when a process died and left its *)
(* lock file behind: the wait for the lock is bounded by its deadline.     *)
(***************************************************************************)
EveryCallReturns ==
    \A a \in Actors : phase[a] # "idle" ~> phase[a] = "idle"

(***************************************************************************)
(* A lock file left behind by a dead process does not stay while callers   *)
(* wait for it: one of them times out and, unless it dies too, removes the *)
(* file, so that the lock protects the later calls again.                  *)
(***************************************************************************)
StaleLockRemoved ==
    \A a \in Actors :
        crashes = MaxCrashes /\ lock = Stale /\ phase[a] = "acquire"
            ~> lock # Stale
=============================================================================
