--------------------------- MODULE BreakerManager ---------------------------
(***************************************************************************)
(* The circuit breakers of core/infra: breaker.py (CircuitBreaker),        *)
(* breaker_manager.py (BreakerManager.wrap) and breaker_store.py           *)
(* (breakers.json).                                                        *)
(*                                                                         *)
(* Each manager loads breakers.json once, when it is constructed, and then *)
(* saves a snapshot of all its breakers after every change.  Threads share *)
(* a manager without a lock; managers share the file.  The methods of      *)
(* CircuitBreaker are single steps; taking the snapshot, writing           *)
(* breakers.tmp and renaming it are three.                                 *)
(***************************************************************************)
EXTENDS Naturals

CONSTANTS
    Threads,      \* threads that call services
    Managers,     \* the instances of BreakerManager
    ManagerOf,    \* the manager each thread calls through
    Services,     \* SERVICES
    Uses,         \* the services each thread calls
    Threshold,    \* failure_threshold
    OpenSeconds,  \* open_seconds
    MaxTrials,    \* half_open_max_trials
    MaxCrashes    \* bound on the crashes

ASSUME BreakerConstants ==
    /\ ManagerOf \in [Threads -> Managers]
    /\ Services # {} /\ Uses \in [Threads -> SUBSET Services]
    /\ Threshold \in Nat \ {0} /\ OpenSeconds \in Nat \ {0}
    /\ MaxTrials \in Nat \ {0}
    /\ MaxCrashes \in Nat

VARIABLES
    mem,      \* _breakers of each manager
    disk,     \* breakers.json
    tmp,      \* breakers.tmp: whether it exists, and the breakers in it
    at,       \* where each thread is inside wrap
    call,     \* the call each thread makes
    snap,     \* the snapshot each thread is about to save
    crashes,  \* used up so far
    streak,   \* ghost: failures of a breaker since its last success
    since,    \* ghost: time since its last failure, up to OpenSeconds
    lostCall, \* ghost: a save raised, so that an admitted call was not made
    overlap   \* ghost: two calls were in flight at once

files == <<disk, tmp>>
local == <<at, call, snap>>
ghosts == <<streak, since, lostCall>>
vars == <<mem, files, local, crashes, ghosts, overlap>>

(***************************************************************************)
(* A breaker.  left is the cooldown that remains of opened_at +            *)
(* open_seconds; failures is counted up to the threshold, beyond which     *)
(* nothing depends on it.                                                  *)
(***************************************************************************)
States == {"closed", "open", "half_open"}
Breakers == [state : States, failures : 0..Threshold, left : 0..OpenSeconds,
             trials : 0..MaxTrials]
Tables == [Services -> Breakers]

Closed == [state |-> "closed", failures |-> 0, left |-> 0, trials |-> 0]
Count(n) == IF n < Threshold THEN n + 1 ELSE Threshold

\* Mistaken forms of Cooled: a second too early, and never.
CooledEarly(b) ==
    IF b.state = "open" /\ b.left <= 1
      THEN [b EXCEPT !.state = "half_open", !.trials = 0]
      ELSE b
CooledNever(b) == b

\* allow_request: an open breaker whose cooldown is over becomes half-open ...
Cooled(b) ==
    IF b.state = "open" /\ b.left = 0
      THEN [b EXCEPT !.state = "half_open", !.trials = 0]
      ELSE b

\* ... and a half-open one gives out its trials.
AllowRequest(b) ==
    LET c == Cooled(b) IN
      \/ c.state = "closed"
      \/ c.state = "half_open" /\ c.trials < MaxTrials

\* A mistaken form of AfterAllow: refused requests count as trials.
AfterAllowCountsAll(b) ==
    LET c == Cooled(b) IN
      IF c.state = "half_open" THEN [c EXCEPT !.trials = @ + 1] ELSE c

AfterAllow(b) ==
    LET c == Cooled(b) IN
      IF c.state = "half_open" /\ c.trials < MaxTrials
        THEN [c EXCEPT !.trials = @ + 1]
        ELSE c

RecordSuccess(b) == Closed

Opened == [state |-> "open", failures |-> Threshold, left |-> OpenSeconds,
           trials |-> 0]

\* A mistaken form of RecordFailure: a failed trial does not open the breaker.
RecordFailureOfTrial(b) ==
    IF b.state # "half_open" /\ Count(b.failures) = Threshold
      THEN Opened
      ELSE [b EXCEPT !.failures = Count(@)]

RecordFailure(b) ==
    IF b.state = "half_open" \/ Count(b.failures) = Threshold
      THEN Opened
      ELSE [b EXCEPT !.failures = Count(@)]

EmptyTable == [s \in Services |-> Closed]
NoTmp == [exists |-> FALSE, table |-> EmptyTable]
Places == {"idle", "snapshot", "save", "replace", "call"}
Calls == [service : Services, then : {"refuse", "call", "return"}, trial : BOOLEAN]
NoCall == [service |-> CHOOSE s \in Services : TRUE, then |-> "refuse",
           trial |-> FALSE]

Init ==
    /\ mem = [m \in Managers |-> EmptyTable]
    /\ disk = EmptyTable
    /\ tmp = NoTmp
    /\ at = [t \in Threads |-> "idle"]
    /\ call = [t \in Threads |-> NoCall]
    /\ snap = [t \in Threads |-> EmptyTable]
    /\ crashes = 0
    /\ streak = [m \in Managers |-> [s \in Services |-> 0]]
    /\ since = [m \in Managers |-> [s \in Services |-> OpenSeconds]]
    /\ lostCall = FALSE
    /\ overlap = FALSE

-----------------------------------------------------------------------------
(* wrap.                                                                   *)

\* wrap begins: allow_request answers, and the breakers are saved either way.
Wrap(t, s, then) ==
    LET m == ManagerOf[t]
        b == AfterAllow(mem[m][s])
    IN  /\ at[t] = "idle"
        /\ mem' = [mem EXCEPT ![m][s] = b]
        /\ call' = [call EXCEPT ![t] = [service |-> s, then |-> then,
                       trial |-> then = "call" /\ b.state = "half_open"]]
        /\ at' = [at EXCEPT ![t] = "snapshot"]
        /\ overlap' = (overlap \/ \E u \in Threads : at[u] # "idle")
        /\ UNCHANGED <<files, snap, crashes, ghosts>>

Admit(t, s) == AllowRequest(mem[ManagerOf[t]][s]) /\ Wrap(t, s, "call")
Refuse(t, s) == ~AllowRequest(mem[ManagerOf[t]][s]) /\ Wrap(t, s, "refuse")

(* _persist: snapshot all breakers, write them to breakers.tmp, rename it. *)

Snapshot(t) ==
    /\ at[t] = "snapshot"
    /\ snap' = [snap EXCEPT ![t] = mem[ManagerOf[t]]]
    /\ at' = [at EXCEPT ![t] = "save"]
    /\ UNCHANGED <<mem, files, call, crashes, ghosts, overlap>>

Save(t) ==
    /\ at[t] = "save"
    /\ tmp' = [exists |-> TRUE, table |-> snap[t]]
    /\ snap' = [snap EXCEPT ![t] = EmptyTable]
    /\ at' = [at EXCEPT ![t] = "replace"]
    /\ UNCHANGED <<mem, disk, call, crashes, ghosts, overlap>>

\* wrap goes on to fn, or ends.
Resume(t) ==
    IF call[t].then = "call"
      THEN at' = [at EXCEPT ![t] = "call"] /\ UNCHANGED call
      ELSE at' = [at EXCEPT ![t] = "idle"] /\ call' = [call EXCEPT ![t] = NoCall]

Replace(t) ==
    /\ at[t] = "replace"
    /\ tmp.exists
    /\ disk' = tmp.table
    /\ tmp' = NoTmp
    /\ Resume(t)
    /\ UNCHANGED <<mem, snap, crashes, ghosts, overlap>>

\* Another save has renamed the file already: wrap raises FileNotFoundError.
ReplaceFails(t) ==
    /\ at[t] = "replace"
    /\ ~tmp.exists
    /\ at' = [at EXCEPT ![t] = "idle"]
    /\ call' = [call EXCEPT ![t] = NoCall]
    /\ lostCall' = (lostCall \/ call[t].then = "call")
    /\ UNCHANGED <<mem, files, snap, crashes, streak, since, overlap>>

(* fn returns or raises, and the breaker records it.                       *)

\* A mistaken form of Record: the outcome is not saved.
RecordUnsaved(t, b, n, d) ==
    LET m == ManagerOf[t]
        s == call[t].service
    IN  /\ mem' = [mem EXCEPT ![m][s] = b]
        /\ streak' = [streak EXCEPT ![m][s] = n]
        /\ since' = [since EXCEPT ![m][s] = d]
        /\ call' = [call EXCEPT ![t] = NoCall]
        /\ at' = [at EXCEPT ![t] = "idle"]
        /\ UNCHANGED <<files, snap, crashes, lostCall, overlap>>

Record(t, b, n, d) ==
    LET m == ManagerOf[t]
        s == call[t].service
    IN  /\ mem' = [mem EXCEPT ![m][s] = b]
        /\ streak' = [streak EXCEPT ![m][s] = n]
        /\ since' = [since EXCEPT ![m][s] = d]
        /\ call' = [call EXCEPT ![t].then = "return", ![t].trial = FALSE]
        /\ at' = [at EXCEPT ![t] = "snapshot"]
        /\ UNCHANGED <<files, snap, crashes, lostCall, overlap>>

BreakerOf(t) == mem[ManagerOf[t]][call[t].service]

CallSucceeds(t) ==
    /\ at[t] = "call"
    /\ Record(t, RecordSuccess(BreakerOf(t)), 0, OpenSeconds)

CallFails(t) ==
    /\ at[t] = "call"
    /\ Record(t, RecordFailure(BreakerOf(t)),
              Count(streak[ManagerOf[t]][call[t].service]), 0)

-----------------------------------------------------------------------------
(* Time and crashes.                                                       *)

Older(table) ==
    [s \in Services |->
        [table[s] EXCEPT !.left = IF @ > 0 THEN @ - 1 ELSE 0]]

Tick ==
    /\ mem' = [m \in Managers |-> Older(mem[m])]
    /\ disk' = Older(disk)
    /\ tmp' = [tmp EXCEPT !.table = Older(@)]
    /\ snap' = [t \in Threads |-> Older(snap[t])]
    /\ since' = [m \in Managers |-> [s \in Services |->
                    IF since[m][s] < OpenSeconds THEN since[m][s] + 1
                                                 ELSE OpenSeconds]]
    /\ UNCHANGED <<at, call, crashes, streak, lostCall, overlap>>

\* The process of a manager dies and is started again: the manager loads
\* breakers.json.
Restart(m) ==
    LET mine(t) == ManagerOf[t] = m
    IN  /\ crashes < MaxCrashes
        /\ crashes' = crashes + 1
        /\ mem' = [mem EXCEPT ![m] = disk]
        /\ at' = [t \in Threads |-> IF mine(t) THEN "idle" ELSE at[t]]
        /\ call' = [t \in Threads |-> IF mine(t) THEN NoCall ELSE call[t]]
        /\ snap' = [t \in Threads |-> IF mine(t) THEN EmptyTable ELSE snap[t]]
        /\ streak' = [streak EXCEPT ![m] = [s \in Services |-> 0]]
        /\ since' = [since EXCEPT ![m] = [s \in Services |-> OpenSeconds]]
        /\ UNCHANGED <<files, lostCall, overlap>>

Progress(t) ==
    \/ Snapshot(t) \/ Save(t) \/ Replace(t) \/ ReplaceFails(t)
    \/ CallSucceeds(t) \/ CallFails(t)

Next ==
    \/ \E t \in Threads : \E s \in Uses[t] : Admit(t, s) \/ Refuse(t, s)
    \/ \E t \in Threads : Progress(t)
    \/ Tick
    \/ \E m \in Managers : Restart(m)

Spec == Init /\ [][Next]_vars

\* Time passes, and a call that was begun ends: the calls have timeouts.
FairSpec == Spec /\ WF_vars(Tick) /\ \A t \in Threads : WF_vars(Progress(t))

-----------------------------------------------------------------------------
(* Properties.                                                             *)

(***************************************************************************)
(* Breakers, files and calls have the values that breaker.py and           *)
(* breaker_manager.py give them.                                           *)
(***************************************************************************)
TypeOK ==
    /\ mem \in [Managers -> Tables]
    /\ disk \in Tables
    /\ tmp \in [exists : BOOLEAN, table : Tables]
    /\ at \in [Threads -> Places]
    /\ call \in [Threads -> Calls]
    /\ snap \in [Threads -> Tables]
    /\ crashes \in 0..MaxCrashes
    /\ streak \in [Managers -> [Services -> 0..Threshold]]
    /\ since \in [Managers -> [Services -> 0..OpenSeconds]]
    /\ lostCall \in BOOLEAN /\ overlap \in BOOLEAN

InCooldown(m, s) == streak[m][s] >= Threshold /\ since[m][s] < OpenSeconds

(***************************************************************************)
(* After failure_threshold failures in a row, the last of them less than   *)
(* open_seconds ago, wrap admits no call, whatever calls from before are   *)
(* still in flight and in whichever order they end.                        *)
(***************************************************************************)
NoCallInCooldown ==
    [][\A t \in Threads, s \in Services :
          InCooldown(ManagerOf[t], s) => ~Admit(t, s)]_vars

(***************************************************************************)
(* A half-open breaker waits for a trial that is on its way, unless a      *)
(* process died or a save raised: wrap never leaves one behind otherwise.  *)
(***************************************************************************)
TrialInFlight ==
    crashes = 0 /\ ~lostCall =>
        \A m \in Managers, s \in Services : mem[m][s].state = "half_open" =>
            \E t \in Threads : ManagerOf[t] = m /\ call[t].service = s /\ call[t].trial

(***************************************************************************)
(* With one manager and one call at a time, breakers.json agrees with the  *)
(* manager whenever no call is in flight: a restart loses nothing, even    *)
(* after earlier restarts in the middle of a call.                         *)
(***************************************************************************)
DiskIsCurrent ==
    ~overlap /\ (\A t \in Threads : at[t] = "idle")
        => \A m \in Managers : Managers = {m} => mem[m] = disk

(***************************************************************************)
(* A degraded service is tried again: time and again a manager would admit *)
(* a call to it, unless a process died or a save raised.                   *)
(***************************************************************************)
Retried ==
    \A m \in Managers, s \in Services :
        []<>(AllowRequest(mem[m][s]) \/ crashes > 0 \/ lostCall)

(***************************************************************************)
(* open_seconds is the "open-state cooldown before half-open trial"        *)
(* (README): time and again a manager would admit a call, no matter what.  *)
(***************************************************************************)
AlwaysRetried ==
    \A m \in Managers, s \in Services : []<>AllowRequest(mem[m][s])
=============================================================================
