------------------------ MODULE BreakerManagerProofs ------------------------
(***************************************************************************)
(* Proofs about BreakerManager, for every number of threads, managers and  *)
(* services, and every threshold, cooldown and number of trials.           *)
(***************************************************************************)
EXTENDS BreakerManager, TLAPS

-----------------------------------------------------------------------------
(* The operations of one breaker.                                          *)

\* A closed breaker has failed less often than the threshold, an open one
\* as often.
Sound(b) ==
    /\ b \in Breakers
    /\ b.state = "closed" => b.failures < Threshold
    /\ b.state = "open" => b.failures = Threshold

SoundTable(table) == table \in Tables /\ \A s \in Services : Sound(table[s])

(***************************************************************************)
(* Counting up to the threshold.                                           *)
(***************************************************************************)
LEMMA CountType ==
    ASSUME NEW n \in 0..Threshold
    PROVE  /\ Count(n) \in 0..Threshold
           /\ Count(n) # Threshold => n + 1 < Threshold /\ Count(n) = n + 1
  BY BreakerConstants DEF Count

(***************************************************************************)
(* A fresh breaker and one that has just opened are sound, and so is every *)
(* breaker that allow_request, record_success or record_failure leaves.    *)
(***************************************************************************)
LEMMA BreakerOperations ==
    /\ Sound(Closed) /\ Sound(Opened)
    /\ \A b : Sound(b) => Sound(AfterAllow(b)) /\ Sound(RecordFailure(b))
<1>1. Sound(Closed) /\ Sound(Opened)
  BY BreakerConstants DEF Sound, Closed, Opened, Breakers, States
<1>2. ASSUME NEW b, Sound(b) PROVE Sound(AfterAllow(b))
  <2> DEFINE c == Cooled(b)
  <2>1. Sound(c) /\ (c.state = "closed" \/ c.state = "open" \/ c.state = "half_open")
    <3>1. CASE b.state = "open" /\ b.left = 0
      <4>0. b = [state |-> b.state, failures |-> b.failures, left |-> b.left,
                 trials |-> b.trials]
        BY <1>2 DEF Sound, Breakers
      <4>1. c = [state |-> "half_open", failures |-> b.failures, left |-> b.left,
                 trials |-> 0]
        BY <3>1, <4>0 DEF Cooled
      <4>2. c \in Breakers
        BY <1>2, <4>1, BreakerConstants DEF Sound, Breakers, States
      <4>3. c.state = "half_open"
        BY <1>2, <4>1 DEF Sound, Breakers
      <4> QED
        BY <4>2, <4>3 DEF Sound
    <3>2. CASE ~(b.state = "open" /\ b.left = 0)
      BY <1>2, <3>2 DEF Cooled, Sound, Breakers, States
    <3> QED
      BY <3>1, <3>2
  <2> HIDE DEF c
  <2>2. CASE c.state = "half_open" /\ c.trials < MaxTrials
    <3>1. AfterAllow(b) = [c EXCEPT !.trials = c.trials + 1]
      BY <2>2 DEF AfterAllow, c
    <3>2. c.trials + 1 \in 0..MaxTrials
      BY <2>1, <2>2, BreakerConstants DEF Sound, Breakers
    <3> QED
      BY <2>1, <2>2, <3>1, <3>2 DEF Sound, Breakers
  <2>3. CASE ~(c.state = "half_open" /\ c.trials < MaxTrials)
    BY <2>1, <2>3 DEF AfterAllow, c
  <2> QED
    BY <2>2, <2>3
<1>3. ASSUME NEW b, Sound(b) PROVE Sound(RecordFailure(b))
  <2>1. CASE b.state = "half_open" \/ Count(b.failures) = Threshold
    BY <2>1, <1>1 DEF RecordFailure
  <2>2. CASE ~(b.state = "half_open" \/ Count(b.failures) = Threshold)
    <3>1. RecordFailure(b) = [b EXCEPT !.failures = Count(b.failures)]
      BY <2>2 DEF RecordFailure
    <3>2. b.failures \in 0..Threshold /\ b \in Breakers
      BY <1>3 DEF Sound, Breakers
    <3>3. Count(b.failures) \in 0..Threshold /\ Count(b.failures) < Threshold
          /\ b.failures # Threshold
      BY <2>2, <3>2, CountType, BreakerConstants
    <3> QED
      BY <1>3, <2>2, <3>1, <3>2, <3>3 DEF Sound, Breakers
  <2> QED
    BY <2>1, <2>2
<1> QED
  BY <1>1, <1>2, <1>3

(***************************************************************************)
(* The passing of time keeps a breaker sound and changes only its          *)
(* remaining cooldown.                                                     *)
(***************************************************************************)
LEMMA OlderTable ==
    ASSUME NEW table, SoundTable(table)
    PROVE  /\ SoundTable(Older(table))
           /\ \A s \in Services :
                 /\ Older(table)[s].state = table[s].state
                 /\ Older(table)[s].failures = table[s].failures
                 /\ Older(table)[s].left =
                       IF table[s].left > 0 THEN table[s].left - 1 ELSE 0
<1>1. ASSUME NEW s \in Services
      PROVE  /\ Sound(Older(table)[s])
             /\ Older(table)[s].state = table[s].state
             /\ Older(table)[s].failures = table[s].failures
             /\ Older(table)[s].left =
                   IF table[s].left > 0 THEN table[s].left - 1 ELSE 0
  <2> DEFINE b == table[s]
             l == IF b.left > 0 THEN b.left - 1 ELSE 0
  <2>1. Sound(b) /\ b \in Breakers
    BY DEF SoundTable, Sound
  <2>2. l \in 0..OpenSeconds
    BY <2>1, BreakerConstants DEF Breakers
  <2>3. Older(table)[s] = [b EXCEPT !.left = l]
    BY DEF Older
  <2> HIDE DEF l
  <2>4. Sound([b EXCEPT !.left = l]) /\ [b EXCEPT !.left = l].state = b.state
        /\ [b EXCEPT !.left = l].failures = b.failures
        /\ [b EXCEPT !.left = l].left = l
    BY <2>1, <2>2 DEF Sound, Breakers
  <2> QED
    BY <2>3, <2>4 DEF l
<1>2. Older(table) \in Tables
  BY <1>1 DEF Older, Tables, Sound
<1> QED
  BY <1>1, <1>2 DEF SoundTable

-----------------------------------------------------------------------------
(* Type correctness.                                                       *)

\* Every copy of the breakers is sound, and so are the rest of the types.
SoundState ==
    /\ \A m \in Managers : SoundTable(mem[m])
    /\ SoundTable(disk) /\ SoundTable(tmp.table)
    /\ \A t \in Threads : SoundTable(snap[t])

TypeInv == TypeOK /\ SoundState

(***************************************************************************)
(* The values a step starts from have their types.                         *)
(***************************************************************************)
LEMMA Values ==
    /\ SoundTable(EmptyTable) /\ NoCall \in Calls
    /\ NoTmp \in [exists : BOOLEAN, table : Tables] /\ NoTmp.table = EmptyTable
<1>1. SoundTable(EmptyTable)
  BY BreakerOperations DEF SoundTable, EmptyTable, Tables, Sound
<1>2. NoCall \in Calls
  BY BreakerConstants DEF NoCall, Calls
<1>3. NoTmp \in [exists : BOOLEAN, table : Tables] /\ NoTmp.table = EmptyTable
  BY <1>1 DEF NoTmp, SoundTable
<1> QED
  BY <1>1, <1>2, <1>3

(***************************************************************************)
(* Updating one breaker of one manager with a sound breaker.               *)
(***************************************************************************)
LEMMA UpdateBreaker ==
    ASSUME TypeInv, NEW m \in Managers, NEW s \in Services, NEW b, Sound(b),
           mem' = [mem EXCEPT ![m][s] = b]
    PROVE  /\ mem' \in [Managers -> Tables]
           /\ \A n \in Managers : SoundTable(mem'[n])
           /\ mem'[m][s] = b
           /\ \A n \in Managers, r \in Services :
                 n # m \/ r # s => mem'[n][r] = mem[n][r]
<1>1. mem \in [Managers -> Tables] /\ b \in Breakers
  BY DEF TypeInv, TypeOK, Sound
<1>2. mem' \in [Managers -> Tables]
  BY <1>1 DEF Tables
<1>3. mem'[m][s] = b /\ \A n \in Managers, r \in Services :
                           n # m \/ r # s => mem'[n][r] = mem[n][r]
  BY <1>1 DEF Tables
<1>4. \A n \in Managers : SoundTable(mem'[n])
  BY <1>2, <1>3 DEF SoundTable, TypeInv, SoundState
<1> QED
  BY <1>2, <1>3, <1>4

(***************************************************************************)
(* The initial state has the types.                                        *)
(***************************************************************************)
LEMMA TypeInit == Init => TypeInv
<1> SUFFICES ASSUME Init PROVE TypeInv
  OBVIOUS
<1> USE Values DEF Init
<1>1. TypeOK
  <2>1. EmptyTable \in Tables
    BY DEF SoundTable
  <2>2. /\ streak \in [Managers -> [Services -> 0..Threshold]]
        /\ since \in [Managers -> [Services -> 0..OpenSeconds]]
        /\ crashes \in 0..MaxCrashes
    BY BreakerConstants
  <2> QED
    BY <2>1, <2>2 DEF TypeOK, Places
<1>2. SoundState
  BY DEF SoundState
<1> QED
  BY <1>1, <1>2 DEF TypeInv

(***************************************************************************)
(* Every step keeps the types and the soundness of every table.            *)
(***************************************************************************)
LEMMA TypeStep == TypeInv /\ [Next]_vars => TypeInv'
<1> SUFFICES ASSUME TypeInv, [Next]_vars PROVE TypeInv'
  OBVIOUS
<1>0. /\ ManagerOf \in [Threads -> Managers] /\ Uses \in [Threads -> SUBSET Services]
      /\ Threshold \in Nat \ {0} /\ OpenSeconds \in Nat \ {0} /\ MaxCrashes \in Nat
  BY BreakerConstants
<1>1. ASSUME NEW t \in Threads, NEW s \in Services, NEW then \in {"call", "refuse"},
             Wrap(t, s, then)
      PROVE  TypeInv'
  <2>1. Sound(AfterAllow(mem[ManagerOf[t]][s]))
    BY <1>0, BreakerOperations DEF TypeInv, SoundState, SoundTable
  <2>2. mem' \in [Managers -> Tables] /\ \A n \in Managers : SoundTable(mem'[n])
    BY <1>0, <1>1, <2>1, UpdateBreaker DEF Wrap
  <2>3. TypeOK'
    <3>1. call' \in [Threads -> Calls]
      BY <1>1 DEF Wrap, TypeInv, TypeOK, Calls
    <3> QED
      BY <1>1, <2>2, <3>1 DEF Wrap, TypeInv, TypeOK, Places, files, ghosts
  <2>4. SoundState'
    BY <1>1, <2>2 DEF Wrap, TypeInv, SoundState, files
  <2> QED
    BY <2>3, <2>4 DEF TypeInv
<1>2. ASSUME NEW t \in Threads, Snapshot(t) PROVE TypeInv'
  <2>1. SoundTable(mem[ManagerOf[t]]) /\ mem[ManagerOf[t]] \in Tables
    BY <1>0 DEF TypeInv, SoundState, SoundTable
  <2>2. TypeOK'
    BY <1>2, <2>1 DEF Snapshot, TypeInv, TypeOK, Places, files, ghosts
  <2>3. SoundState'
    BY <1>2, <2>1 DEF Snapshot, TypeInv, TypeOK, SoundState, files
  <2> QED
    BY <2>2, <2>3 DEF TypeInv
<1>3. ASSUME NEW t \in Threads, Save(t) PROVE TypeInv'
  <2>1. SoundTable(snap[t]) /\ snap[t] \in Tables /\ EmptyTable \in Tables
    BY Values DEF TypeInv, SoundState, SoundTable
  <2>2. tmp' \in [exists : BOOLEAN, table : Tables] /\ tmp'.table = snap[t]
    BY <1>3, <2>1 DEF Save
  <2>3. TypeOK'
    BY <1>3, <2>1, <2>2 DEF Save, TypeInv, TypeOK, Places, ghosts
  <2>4. SoundState'
    BY <1>3, <2>1, <2>2, Values DEF Save, TypeInv, TypeOK, SoundState
  <2> QED
    BY <2>3, <2>4 DEF TypeInv
<1>4. ASSUME NEW t \in Threads, Replace(t) PROVE TypeInv'
  <2>1. at' \in [Threads -> Places] /\ call' \in [Threads -> Calls]
    BY <1>4, Values DEF Replace, Resume, TypeInv, TypeOK, Places
  <2>2. TypeOK'
    BY <1>4, <2>1, Values DEF Replace, TypeInv, TypeOK, SoundState, SoundTable, ghosts
  <2>3. SoundState'
    BY <1>4, Values DEF Replace, TypeInv, SoundState
  <2> QED
    BY <2>2, <2>3 DEF TypeInv
<1>5. ASSUME NEW t \in Threads, ReplaceFails(t) PROVE TypeInv'
  <2>1. TypeOK'
    BY <1>5, Values DEF ReplaceFails, TypeInv, TypeOK, Places, files
  <2>2. SoundState'
    BY <1>5 DEF ReplaceFails, TypeInv, SoundState, files
  <2> QED
    BY <2>1, <2>2 DEF TypeInv
<1>6. ASSUME NEW t \in Threads, NEW b, Sound(b), NEW n \in 0..Threshold,
             NEW d \in 0..OpenSeconds, Record(t, b, n, d)
      PROVE  TypeInv'
  <2>1. call[t].service \in Services
    BY DEF TypeInv, TypeOK, Calls
  <2>2. mem' \in [Managers -> Tables] /\ \A k \in Managers : SoundTable(mem'[k])
    BY <1>0, <1>6, <2>1, UpdateBreaker DEF Record
  <2>3. TypeOK'
    <3>1. call' \in [Threads -> Calls]
      BY <1>6 DEF Record, TypeInv, TypeOK, Calls
    <3>2. /\ streak' \in [Managers -> [Services -> 0..Threshold]]
          /\ since' \in [Managers -> [Services -> 0..OpenSeconds]]
      BY <1>0, <1>6, <2>1 DEF Record, TypeInv, TypeOK
    <3> QED
      BY <1>6, <2>2, <3>1, <3>2 DEF Record, TypeInv, TypeOK, Places, files
  <2>4. SoundState'
    BY <1>6, <2>2 DEF Record, TypeInv, SoundState, files
  <2> QED
    BY <2>3, <2>4 DEF TypeInv
<1>7. ASSUME NEW t \in Threads, CallSucceeds(t) PROVE TypeInv'
  BY <1>0, <1>6, <1>7, BreakerOperations DEF CallSucceeds, RecordSuccess
<1>8. ASSUME NEW t \in Threads, CallFails(t) PROVE TypeInv'
  <2>1. call[t].service \in Services
    BY DEF TypeInv, TypeOK, Calls
  <2>2. Sound(RecordFailure(BreakerOf(t)))
    BY <1>0, <2>1, BreakerOperations
       DEF BreakerOf, TypeInv, SoundState, SoundTable
  <2>3. Count(streak[ManagerOf[t]][call[t].service]) \in 0..Threshold
    BY <1>0, <2>1, CountType DEF TypeInv, TypeOK
  <2> QED
    BY <1>0, <1>6, <1>8, <2>2, <2>3 DEF CallFails
<1>9. CASE Tick
  <2>1. \A m \in Managers : SoundTable(Older(mem[m]))
    BY OlderTable DEF TypeInv, SoundState
  <2>2. SoundTable(Older(disk)) /\ SoundTable(Older(tmp.table))
    BY OlderTable DEF TypeInv, SoundState
  <2>3. \A t \in Threads : SoundTable(Older(snap[t]))
    BY OlderTable DEF TypeInv, SoundState
  <2>4. tmp' \in [exists : BOOLEAN, table : Tables] /\ tmp'.table = Older(tmp.table)
    BY <1>9, <2>2 DEF Tick, TypeInv, TypeOK, SoundTable
  <2>5. since' \in [Managers -> [Services -> 0..OpenSeconds]]
    BY <1>0, <1>9 DEF Tick, TypeInv, TypeOK
  <2>6. TypeOK'
    BY <1>9, <2>1, <2>2, <2>3, <2>4, <2>5
       DEF Tick, TypeInv, TypeOK, SoundTable
  <2>7. SoundState'
    BY <1>9, <2>1, <2>2, <2>3, <2>4 DEF Tick, TypeInv, SoundState
  <2> QED
    BY <2>6, <2>7 DEF TypeInv
<1>10. ASSUME NEW m \in Managers, Restart(m) PROVE TypeInv'
  <2>1. /\ streak' \in [Managers -> [Services -> 0..Threshold]]
        /\ since' \in [Managers -> [Services -> 0..OpenSeconds]]
    BY <1>0, <1>10 DEF Restart, TypeInv, TypeOK
  <2>2. crashes' \in 0..MaxCrashes
    BY <1>0, <1>10 DEF Restart, TypeInv, TypeOK
  <2>3. TypeOK'
    BY <1>10, <2>1, <2>2, Values
       DEF Restart, TypeInv, TypeOK, SoundTable, Places, files
  <2>4. SoundState'
    BY <1>10, Values DEF Restart, TypeInv, TypeOK, SoundState, files
  <2> QED
    BY <2>3, <2>4 DEF TypeInv
<1>11. CASE UNCHANGED vars
  <2>1. TypeOK'
    BY <1>11 DEF vars, files, local, ghosts, TypeInv, TypeOK
  <2>2. SoundState'
    BY <1>11 DEF vars, files, local, TypeInv, SoundState
  <2> QED
    BY <2>1, <2>2 DEF TypeInv
<1> QED
  BY <1>0, <1>1, <1>2, <1>3, <1>4, <1>5, <1>7, <1>8, <1>9, <1>10, <1>11
     DEF Next, Admit, Refuse, Progress

(***************************************************************************)
(* Breakers, files and calls always have the values that breaker.py and    *)
(* breaker_manager.py give them.                                           *)
(***************************************************************************)
THEOREM BreakersTypeCorrect == Spec => []TypeOK
<1>1. TypeInv => TypeOK
  BY DEF TypeInv
<1> QED
  BY <1>1, TypeInit, TypeStep, PTL DEF Spec

-----------------------------------------------------------------------------
(* The cooldown.                                                           *)

\* What the state of a breaker says about the failures its manager saw.
Remembers(b, n, d) ==
    /\ b.state = "closed" => n <= b.failures
    /\ b.state = "open" => b.left + d >= OpenSeconds
    /\ b.state = "half_open" => d = OpenSeconds

CooldownInv ==
    \A m \in Managers, s \in Services :
        Remembers(mem[m][s], streak[m][s], since[m][s])

(***************************************************************************)
(* allow_request keeps what the breaker says; only an open breaker whose   *)
(* cooldown is over changes its state.                                     *)
(***************************************************************************)
LEMMA AllowRemembers ==
    ASSUME NEW b, Sound(b), NEW n \in 0..Threshold, NEW d \in 0..OpenSeconds,
           Remembers(b, n, d)
    PROVE  Remembers(AfterAllow(b), n, d)
<1> DEFINE c == Cooled(b)
<1>1. c \in Breakers /\ Remembers(c, n, d)
  <2>1. CASE b.state = "open" /\ b.left = 0
    <3>1. b = [state |-> b.state, failures |-> b.failures, left |-> b.left,
               trials |-> b.trials]
      BY DEF Sound, Breakers
    <3>2. c = [state |-> "half_open", failures |-> b.failures, left |-> b.left,
               trials |-> 0]
      BY <2>1, <3>1 DEF Cooled
    <3>3. d = OpenSeconds
      BY <2>1, BreakerConstants DEF Remembers
    <3> QED
      BY <3>2, <3>3, BreakerConstants DEF Sound, Breakers, States, Remembers
  <2>2. CASE ~(b.state = "open" /\ b.left = 0)
    BY <2>2 DEF Cooled, Sound
  <2> QED
    BY <2>1, <2>2
<1> HIDE DEF c
<1>2. AfterAllow(b) = c \/ AfterAllow(b) = [c EXCEPT !.trials = c.trials + 1]
  BY DEF AfterAllow, c
<1> QED
  BY <1>1, <1>2 DEF Remembers, Breakers

(***************************************************************************)
(* A recorded failure is remembered: the breaker opens for the whole       *)
(* cooldown or counts it.                                                  *)
(***************************************************************************)
LEMMA FailureRemembers ==
    ASSUME NEW b, Sound(b), NEW n \in 0..Threshold, NEW d \in 0..OpenSeconds,
           Remembers(b, n, d)
    PROVE  Remembers(RecordFailure(b), Count(n), 0)
<1>0. b \in Breakers /\ b.failures \in 0..Threshold /\ b.state \in States
  BY DEF Sound, Breakers
<1>1. CASE b.state = "half_open" \/ Count(b.failures) = Threshold
  <2>1. RecordFailure(b) = Opened
    BY <1>1 DEF RecordFailure
  <2> QED
    BY <2>1, BreakerConstants DEF Opened, Remembers
<1>2. CASE ~(b.state = "half_open" \/ Count(b.failures) = Threshold)
  <2>1. b.failures + 1 < Threshold /\ Count(b.failures) = b.failures + 1
    BY <1>0, <1>2, CountType
  <2>2. b.state = "closed"
    BY <1>0, <1>2, <2>1, BreakerConstants DEF Sound, States
  <2>3. Count(n) <= b.failures + 1
    BY <1>0, <2>1, <2>2, BreakerConstants DEF Remembers, Count
  <2>4. RecordFailure(b) = [b EXCEPT !.failures = b.failures + 1]
    BY <1>2, <2>1 DEF RecordFailure
  <2> QED
    BY <1>0, <2>2, <2>3, <2>4 DEF Remembers, Breakers
<1> QED
  BY <1>1, <1>2

(***************************************************************************)
(* Every step keeps what the breakers remember of their failures.          *)
(***************************************************************************)
LEMMA CooldownStep == TypeInv /\ CooldownInv /\ [Next]_vars => CooldownInv'
<1> SUFFICES ASSUME TypeInv, CooldownInv, [Next]_vars PROVE CooldownInv'
  OBVIOUS
<1>0. /\ ManagerOf \in [Threads -> Managers] /\ Uses \in [Threads -> SUBSET Services]
      /\ Threshold \in Nat \ {0} /\ OpenSeconds \in Nat \ {0}
  BY BreakerConstants
<1>a. \A m \in Managers, s \in Services :
         /\ Sound(mem[m][s]) /\ streak[m][s] \in 0..Threshold
         /\ since[m][s] \in 0..OpenSeconds
         /\ Remembers(mem[m][s], streak[m][s], since[m][s])
  BY DEF TypeInv, TypeOK, SoundState, SoundTable, CooldownInv
<1>1. ASSUME NEW t \in Threads, NEW s \in Services, NEW then, Wrap(t, s, then)
      PROVE  CooldownInv'
  <2> DEFINE m == ManagerOf[t]
             b == AfterAllow(mem[m][s])
  <2>1. m \in Managers /\ Sound(b) /\ Remembers(b, streak[m][s], since[m][s])
    BY <1>0, <1>a, AllowRemembers, BreakerOperations
  <2>2. mem' = [mem EXCEPT ![m][s] = b] /\ UNCHANGED <<streak, since>>
    BY <1>1 DEF Wrap, ghosts
  <2> HIDE DEF b, m
  <2>3. /\ mem'[m][s] = b
        /\ \A n \in Managers, r \in Services :
              n # m \/ r # s => mem'[n][r] = mem[n][r]
    BY <2>1, <2>2 DEF TypeInv, TypeOK, Tables
  <2> QED
    BY <1>a, <2>1, <2>2, <2>3 DEF CooldownInv
<1>2. ASSUME NEW t \in Threads, NEW b, Sound(b), NEW n, NEW d,
             Remembers(b, n, d), Record(t, b, n, d)
      PROVE  CooldownInv'
  <2> DEFINE m == ManagerOf[t]
             s == call[t].service
  <2>1. m \in Managers /\ s \in Services
    BY <1>0 DEF TypeInv, TypeOK, Calls
  <2>2. /\ mem' = [mem EXCEPT ![m][s] = b]
        /\ streak' = [streak EXCEPT ![m][s] = n]
        /\ since' = [since EXCEPT ![m][s] = d]
    BY <1>2 DEF Record
  <2> HIDE DEF m, s
  <2>3. /\ mem'[m][s] = b
        /\ \A k \in Managers, r \in Services :
              k # m \/ r # s => mem'[k][r] = mem[k][r]
    BY <2>1, <2>2 DEF TypeInv, TypeOK, Tables
  <2>4. /\ streak'[m][s] = n /\ since'[m][s] = d
        /\ \A k \in Managers, r \in Services : k # m \/ r # s =>
              streak'[k][r] = streak[k][r] /\ since'[k][r] = since[k][r]
    BY <2>1, <2>2 DEF TypeInv, TypeOK
  <2> QED
    BY <1>a, <1>2, <2>3, <2>4 DEF CooldownInv
<1>3. ASSUME NEW t \in Threads, CallSucceeds(t) PROVE CooldownInv'
  <2>1. Remembers(Closed, 0, OpenSeconds) /\ Sound(Closed)
    BY BreakerOperations DEF Remembers, Closed
  <2> QED
    BY <1>2, <1>3, <2>1 DEF CallSucceeds, RecordSuccess
<1>4. ASSUME NEW t \in Threads, CallFails(t) PROVE CooldownInv'
  <2> DEFINE b == BreakerOf(t)
             n == streak[ManagerOf[t]][call[t].service]
  <2>1. call[t].service \in Services
    BY DEF TypeInv, TypeOK, Calls
  <2>2. Sound(RecordFailure(b)) /\ Remembers(RecordFailure(b), Count(n), 0)
    BY <1>0, <1>a, <2>1, FailureRemembers, BreakerOperations DEF BreakerOf
  <2> QED
    BY <1>2, <1>4, <2>2 DEF CallFails
<1>5. ASSUME NEW t \in Threads,
             Snapshot(t) \/ Save(t) \/ Replace(t) \/ ReplaceFails(t)
      PROVE  CooldownInv'
  BY <1>5 DEF Snapshot, Save, Replace, ReplaceFails, ghosts, CooldownInv
<1>6. CASE Tick
  <2> SUFFICES ASSUME NEW m \in Managers, NEW s \in Services
               PROVE  Remembers(mem'[m][s], streak'[m][s], since'[m][s])
    BY DEF CooldownInv
  <2>1. mem'[m] = Older(mem[m]) /\ streak' = streak
    BY <1>6 DEF Tick
  <2>2. since'[m][s] = IF since[m][s] < OpenSeconds THEN since[m][s] + 1
                                                    ELSE OpenSeconds
    BY <1>6 DEF Tick
  <2>3. /\ mem'[m][s].state = mem[m][s].state
        /\ mem'[m][s].failures = mem[m][s].failures
        /\ mem'[m][s].left =
              IF mem[m][s].left > 0 THEN mem[m][s].left - 1 ELSE 0
    BY <2>1, OlderTable DEF TypeInv, SoundState
  <2>4. mem[m][s].left \in 0..OpenSeconds
    BY <1>a DEF Sound, Breakers
  <2> QED
    BY <1>0, <1>a, <2>1, <2>2, <2>3, <2>4 DEF Remembers
<1>7. ASSUME NEW m \in Managers, Restart(m) PROVE CooldownInv'
  <2> SUFFICES ASSUME NEW k \in Managers, NEW s \in Services
               PROVE  Remembers(mem'[k][s], streak'[k][s], since'[k][s])
    BY DEF CooldownInv
  <2>1. CASE k = m
    <3>1. mem'[k][s] = disk[s] /\ streak'[k][s] = 0 /\ since'[k][s] = OpenSeconds
      BY <1>7, <2>1 DEF Restart, TypeInv, TypeOK
    <3>2. disk[s].failures \in 0..Threshold /\ disk[s].left \in 0..OpenSeconds
      BY DEF TypeInv, TypeOK, Tables, Breakers
    <3> QED
      BY <1>0, <3>1, <3>2 DEF Remembers
  <2>2. CASE k # m
    BY <1>7, <1>a, <2>2 DEF Restart, TypeInv, TypeOK
  <2> QED
    BY <2>1, <2>2
<1>8. CASE UNCHANGED vars
  BY <1>8 DEF vars, ghosts, CooldownInv
<1> QED
  BY <1>0, <1>1, <1>3, <1>4, <1>5, <1>6, <1>7, <1>8
     DEF Next, Admit, Refuse, Progress

(***************************************************************************)
(* After failure_threshold failures in a row wrap admits no call until     *)
(* open_seconds have passed since the last of them, whatever other calls   *)
(* are in flight, in whichever order they end, and whatever restarts.      *)
(***************************************************************************)
THEOREM CooldownRespected == Spec => NoCallInCooldown
<1>1. Init => CooldownInv
  BY BreakerConstants DEF Init, CooldownInv, Remembers, EmptyTable, Closed
<1>2. ASSUME TypeInv, CooldownInv, [Next]_vars, NEW t \in Threads,
             NEW s \in Services, InCooldown(ManagerOf[t], s)
      PROVE  ~Admit(t, s)
  <2> DEFINE m == ManagerOf[t]
             b == mem[m][s]
  <2>1. m \in Managers /\ Sound(b) /\ Remembers(b, streak[m][s], since[m][s])
        /\ streak[m][s] \in 0..Threshold /\ since[m][s] \in 0..OpenSeconds
    BY <1>2, BreakerConstants
       DEF TypeInv, TypeOK, SoundState, SoundTable, CooldownInv
  <2> HIDE DEF b
  <2>a. streak[m][s] >= Threshold /\ since[m][s] < OpenSeconds
    BY <1>2 DEF InCooldown
  <2>b. b.failures \in 0..Threshold /\ b.left \in 0..OpenSeconds
        /\ (b.state = "closed" => b.failures < Threshold)
    BY <2>1 DEF Sound, Breakers
  <2>2. b.state # "closed" /\ b.state # "half_open" /\ b.left # 0
        /\ b.state \in States
    BY <2>1, <2>a, <2>b, BreakerConstants DEF Remembers, Sound, Breakers, States
  <2>3. ~AllowRequest(b)
    BY <2>2 DEF AllowRequest, Cooled
  <2> QED
    BY <2>3 DEF Admit, b
<1>3. TypeInv /\ CooldownInv /\ [Next]_vars =>
        \A t \in Threads, s \in Services :
            InCooldown(ManagerOf[t], s) => ~Admit(t, s)
  BY <1>2
<1> QED
  BY <1>1, <1>3, TypeInit, TypeStep, CooldownStep, PTL DEF Spec, NoCallInCooldown

-----------------------------------------------------------------------------
(* The trials of a half-open breaker.                                      *)

\* A trial is a call that was admitted and has not ended.
TrialInv ==
    /\ \A t \in Threads : call[t].trial => call[t].then = "call" /\ at[t] # "idle"
    /\ TrialInFlight

(***************************************************************************)
(* A breaker is half-open after allow_request only if the request was      *)
(* admitted or the breaker was half-open before; recording an outcome      *)
(* leaves no breaker half-open.                                            *)
(***************************************************************************)
LEMMA HalfOpenCause ==
    ASSUME NEW b, Sound(b)
    PROVE  /\ AfterAllow(b).state = "half_open" /\ ~AllowRequest(b) =>
                 b.state = "half_open"
           /\ RecordFailure(b).state # "half_open"
           /\ RecordSuccess(b).state # "half_open"
<1>1. b \in Breakers /\ b.failures \in 0..Threshold
  BY DEF Sound, Breakers
<1>2. ASSUME ~AllowRequest(b) PROVE Cooled(b) = b
  <2>1. CASE b.state = "open" /\ b.left = 0
    <3>1. b = [state |-> b.state, failures |-> b.failures, left |-> b.left,
               trials |-> b.trials]
      BY <1>1 DEF Breakers
    <3>2. Cooled(b) = [state |-> "half_open", failures |-> b.failures,
                       left |-> b.left, trials |-> 0]
      BY <2>1, <3>1 DEF Cooled
    <3>3. AllowRequest(b)
      BY <3>2, BreakerConstants DEF AllowRequest
    <3> QED
      BY <1>2, <3>3
  <2>2. CASE ~(b.state = "open" /\ b.left = 0)
    BY <2>2 DEF Cooled
  <2> QED
    BY <2>1, <2>2
<1>3. ASSUME ~AllowRequest(b) PROVE AfterAllow(b) = b
  BY <1>2, <1>3 DEF AllowRequest, AfterAllow
<1>4. RecordFailure(b).state # "half_open"
  <2>1. CASE b.state = "half_open" \/ Count(b.failures) = Threshold
    BY <2>1 DEF RecordFailure, Opened
  <2>2. CASE ~(b.state = "half_open" \/ Count(b.failures) = Threshold)
    BY <1>1, <2>2 DEF RecordFailure, Breakers
  <2> QED
    BY <2>1, <2>2
<1> QED
  BY <1>3, <1>4 DEF RecordSuccess, Closed

(***************************************************************************)
(* Every step keeps a trial in flight for every half-open breaker.         *)
(***************************************************************************)
LEMMA TrialStep == TypeInv /\ TrialInv /\ [Next]_vars => TrialInv'
<1> SUFFICES ASSUME TypeInv, TrialInv, [Next]_vars PROVE TrialInv'
  OBVIOUS
<1>0. /\ ManagerOf \in [Threads -> Managers] /\ Uses \in [Threads -> SUBSET Services]
      /\ call \in [Threads -> Calls] /\ mem \in [Managers -> [Services -> Breakers]]
      /\ at \in [Threads -> Places] /\ crashes \in Nat
  BY BreakerConstants DEF TypeInv, TypeOK, Tables
<1>a. \A m \in Managers, s \in Services : Sound(mem[m][s])
  BY DEF TypeInv, SoundState, SoundTable
<1>b. NoCall \in Calls /\ NoCall.trial = FALSE
  BY Values DEF NoCall
<1>c. \A t \in Threads : call[t].trial => call[t].then = "call" /\ at[t] # "idle"
  BY DEF TrialInv
<1>1. ASSUME NEW t \in Threads, NEW s \in Services, Admit(t, s) \/ Refuse(t, s)
      PROVE  TrialInv'
  <2> DEFINE m == ManagerOf[t]
             b == AfterAllow(mem[m][s])
             go == AllowRequest(mem[m][s])
  <2>1. /\ at[t] = "idle" /\ at'[t] = "snapshot"
        /\ mem' = [mem EXCEPT ![m][s] = b]
        /\ call'[t].service = s
        /\ call'[t].trial = (go /\ b.state = "half_open")
        /\ go => call'[t].then = "call"
        /\ \A u \in Threads : u # t => call'[u] = call[u] /\ at'[u] = at[u]
        /\ UNCHANGED <<crashes, lostCall>>
    BY <1>0, <1>1 DEF Admit, Refuse, Wrap, ghosts
  <2>2. b.state = "half_open" /\ ~go => mem[m][s].state = "half_open"
    BY <1>0, <1>a, HalfOpenCause
  <2>3. ~call[t].trial
    BY <1>c, <2>1
  <2> HIDE DEF b, go
  <2>4. \A n \in Managers, r \in Services :
           /\ n = m /\ r = s => mem'[n][r] = b
           /\ n # m \/ r # s => mem'[n][r] = mem[n][r]
    BY <1>0, <2>1
  <2>5. TrialInFlight'
    <3> SUFFICES ASSUME crashes = 0, ~lostCall, NEW n \in Managers,
                        NEW r \in Services, mem'[n][r].state = "half_open"
                 PROVE  \E u \in Threads : /\ ManagerOf[u] = n
                                           /\ call'[u].service = r /\ call'[u].trial
      BY <2>1 DEF TrialInFlight
    <3>1. CASE n = m /\ r = s /\ go
      BY <2>1, <2>4, <3>1
    <3>2. CASE ~(n = m /\ r = s /\ go)
      <4>1. mem[n][r].state = "half_open"
        BY <2>2, <2>4, <3>2
      <4>2. PICK u \in Threads : /\ ManagerOf[u] = n
                                 /\ call[u].service = r /\ call[u].trial
        BY <4>1 DEF TrialInv, TrialInFlight
      <4> QED
        BY <2>1, <2>3, <4>2
    <3> QED
      BY <3>1, <3>2
  <2> QED
    BY <1>c, <2>1, <2>5 DEF TrialInv
<1>2. ASSUME NEW t \in Threads, NEW b, b.state # "half_open", NEW n, NEW d,
             at[t] = "call", Record(t, b, n, d)
      PROVE  TrialInv'
  <2> DEFINE m == ManagerOf[t]
             s == call[t].service
  <2>1. m \in Managers /\ s \in Services
    BY <1>0 DEF Calls
  <2>2. /\ mem' = [mem EXCEPT ![m][s] = b]
        /\ at'[t] = "snapshot" /\ call'[t].trial = FALSE
        /\ \A u \in Threads : u # t => call'[u] = call[u] /\ at'[u] = at[u]
        /\ UNCHANGED <<crashes, lostCall>>
    BY <1>0, <1>2 DEF Record, Calls
  <2>3. \A k \in Managers, r \in Services :
           /\ k = m /\ r = s => mem'[k][r] = b
           /\ k # m \/ r # s => mem'[k][r] = mem[k][r]
    BY <1>0, <2>1, <2>2
  <2>4. TrialInFlight'
    <3> SUFFICES ASSUME crashes = 0, ~lostCall, NEW k \in Managers,
                        NEW r \in Services, mem'[k][r].state = "half_open"
                 PROVE  \E u \in Threads : /\ ManagerOf[u] = k
                                           /\ call'[u].service = r /\ call'[u].trial
      BY <2>2 DEF TrialInFlight
    <3>1. (k # m \/ r # s) /\ mem[k][r].state = "half_open"
      BY <1>2, <2>3
    <3>2. PICK u \in Threads : /\ ManagerOf[u] = k
                               /\ call[u].service = r /\ call[u].trial
      BY <3>1 DEF TrialInv, TrialInFlight
    <3> QED
      BY <2>2, <3>1, <3>2
  <2> QED
    BY <1>c, <2>2, <2>4 DEF TrialInv
<1>3. ASSUME NEW t \in Threads, CallSucceeds(t) PROVE TrialInv'
  <2>1. RecordSuccess(BreakerOf(t)).state # "half_open"
    BY DEF RecordSuccess, Closed
  <2> QED
    BY <1>2, <1>3, <2>1 DEF CallSucceeds
<1>4. ASSUME NEW t \in Threads, CallFails(t) PROVE TrialInv'
  <2>1. RecordFailure(BreakerOf(t)).state # "half_open"
    <3>1. ManagerOf[t] \in Managers /\ call[t].service \in Services
      BY <1>0 DEF Calls
    <3> QED
      BY <1>a, <3>1, HalfOpenCause DEF BreakerOf
  <2> QED
    BY <1>2, <1>4, <2>1 DEF CallFails
<1>5. ASSUME NEW t \in Threads, Snapshot(t) \/ Save(t) PROVE TrialInv'
  BY <1>0, <1>5 DEF Snapshot, Save, ghosts, TrialInv, TrialInFlight
<1>6. ASSUME NEW t \in Threads, Replace(t) PROVE TrialInv'
  <2>1. UNCHANGED <<mem, crashes, lostCall>>
    BY <1>6 DEF Replace, ghosts
  <2>2. \A u \in Threads : u # t => call'[u] = call[u] /\ at'[u] = at[u]
    BY <1>0, <1>6 DEF Replace, Resume
  <2>3. CASE call[t].then = "call"
    <3>1. call' = call /\ at'[t] = "call"
      BY <1>0, <1>6, <2>3 DEF Replace, Resume
    <3> QED
      BY <2>1, <2>2, <3>1 DEF TrialInv, TrialInFlight
  <2>4. CASE call[t].then # "call"
    <3>1. call'[t] = NoCall /\ ~call[t].trial
      BY <1>0, <1>6, <1>c, <2>4 DEF Replace, Resume
    <3> QED
      BY <1>b, <2>1, <2>2, <3>1 DEF TrialInv, TrialInFlight
  <2> QED
    BY <2>3, <2>4
<1>7. ASSUME NEW t \in Threads, ReplaceFails(t) PROVE TrialInv'
  <2>1. /\ UNCHANGED <<mem, crashes>> /\ call'[t] = NoCall
        /\ \A u \in Threads : u # t => call'[u] = call[u] /\ at'[u] = at[u]
        /\ lostCall' = (lostCall \/ call[t].then = "call")
    BY <1>0, <1>7 DEF ReplaceFails
  <2>2. ~lostCall' => ~lostCall /\ ~call[t].trial
    BY <1>c, <2>1
  <2> QED
    BY <1>b, <2>1, <2>2 DEF TrialInv, TrialInFlight
<1>8. CASE Tick
  <2>1. UNCHANGED <<at, call, crashes, lostCall>>
    BY <1>8 DEF Tick
  <2>2. \A m \in Managers, s \in Services : mem'[m][s].state = mem[m][s].state
    BY <1>8, OlderTable DEF Tick, TypeInv, SoundState
  <2> QED
    BY <2>1, <2>2 DEF TrialInv, TrialInFlight
<1>9. ASSUME NEW m \in Managers, Restart(m) PROVE TrialInv'
  <2>1. crashes' # 0
    BY <1>0, <1>9 DEF Restart
  <2>2. \A t \in Threads : call'[t] = NoCall \/ (call'[t] = call[t] /\ at'[t] = at[t])
    BY <1>9 DEF Restart
  <2> QED
    BY <1>b, <2>1, <2>2 DEF TrialInv, TrialInFlight
<1>10. CASE UNCHANGED vars
  BY <1>10 DEF vars, local, ghosts, TrialInv, TrialInFlight
<1> QED
  BY <1>0, <1>1, <1>3, <1>4, <1>5, <1>6, <1>7, <1>8, <1>9, <1>10
     DEF Next, Progress

(***************************************************************************)
(* Unless a process died or a save raised, a half-open breaker always has  *)
(* a trial on its way, so that it cannot stay half-open for good.          *)
(***************************************************************************)
THEOREM HalfOpenHasTrial == Spec => []TrialInFlight
<1>1. Init => TrialInv
  BY DEF Init, TrialInv, TrialInFlight, EmptyTable, Closed, NoCall
<1>2. TrialInv => TrialInFlight
  BY DEF TrialInv
<1> QED
  BY <1>1, <1>2, TypeInit, TypeStep, TrialStep, PTL DEF Spec

-----------------------------------------------------------------------------
(* The file and the memory.                                                *)

\* How far the save of the only call in flight has come: before the
\* snapshot nothing is known of the file, after the rename it is current.
SavedSoFar(m) ==
    /\ \A t, u \in Threads : at[t] # "idle" /\ at[u] # "idle" => t = u
    /\ \A t \in Threads :
          /\ at[t] = "save" => snap[t] = mem[m]
          /\ at[t] = "replace" => tmp.exists = TRUE /\ tmp.table = mem[m]
          /\ at[t] = "call" => mem[m] = disk
    /\ (\A t \in Threads : at[t] = "idle") => mem[m] = disk

DiskInv == ~overlap => \A m \in Managers : Managers = {m} => SavedSoFar(m)

(***************************************************************************)
(* As long as calls come one at a time, every step of the save of the one  *)
(* manager brings the file up to date or leaves it so; a restart in the    *)
(* middle loads the file it finds.                                         *)
(***************************************************************************)
LEMMA DiskStep == TypeInv /\ DiskInv /\ [Next]_vars => DiskInv'
<1> SUFFICES ASSUME TypeInv, DiskInv, [Next]_vars, ~overlap',
                    NEW m \in Managers, Managers = {m}
             PROVE  SavedSoFar(m)'
  BY DEF DiskInv
<1>0. /\ ManagerOf \in [Threads -> Managers]
      /\ \A t \in Threads : ManagerOf[t] = m
  BY BreakerConstants
<1>1. /\ mem \in [Managers -> Tables] /\ at \in [Threads -> Places]
      /\ call \in [Threads -> Calls] /\ snap \in [Threads -> Tables]
      /\ tmp \in [exists : BOOLEAN, table : Tables] /\ overlap \in BOOLEAN
  BY DEF TypeInv, TypeOK
<1>2. ASSUME NEW t \in Threads, NEW s \in Uses[t], Admit(t, s) \/ Refuse(t, s)
      PROVE  SavedSoFar(m)'
  <2>1. /\ at' = [at EXCEPT ![t] = "snapshot"]
        /\ \A u \in Threads : at[u] = "idle"
    BY <1>2 DEF Admit, Refuse, Wrap
  <2> QED
    BY <1>1, <2>1 DEF SavedSoFar
<1>3. ASSUME UNCHANGED overlap PROVE SavedSoFar(m)
  BY <1>3 DEF DiskInv
<1>4. ASSUME NEW t \in Threads, Snapshot(t) PROVE SavedSoFar(m)'
  BY <1>0, <1>1, <1>3, <1>4 DEF Snapshot, SavedSoFar, files
<1>5. ASSUME NEW t \in Threads, Save(t) PROVE SavedSoFar(m)'
  BY <1>0, <1>1, <1>3, <1>5 DEF Save, SavedSoFar
<1>6. ASSUME NEW t \in Threads, Replace(t) PROVE SavedSoFar(m)'
  <2>1. /\ disk' = mem'[m]
        /\ \E to \in {"idle", "call"} : at' = [at EXCEPT ![t] = to]
        /\ \A u \in Threads : u # t => at[u] = "idle"
    BY <1>3, <1>6 DEF Replace, Resume, SavedSoFar
  <2> QED
    BY <1>1, <2>1 DEF SavedSoFar
<1>7. ASSUME NEW t \in Threads, ReplaceFails(t) PROVE SavedSoFar(m)'
  BY <1>3, <1>7 DEF ReplaceFails, SavedSoFar
<1>8. ASSUME NEW t \in Threads, CallSucceeds(t) \/ CallFails(t)
      PROVE  SavedSoFar(m)'
  <2>1. /\ at[t] = "call" /\ at' = [at EXCEPT ![t] = "snapshot"]
        /\ UNCHANGED overlap
    BY <1>8 DEF CallSucceeds, CallFails, Record
  <2> QED
    BY <1>1, <1>3, <2>1 DEF SavedSoFar
<1>9. CASE Tick
  <2>1. /\ UNCHANGED <<at, overlap>>
        /\ mem'[m] = Older(mem[m]) /\ disk' = Older(disk)
        /\ tmp'.exists = tmp.exists /\ tmp'.table = Older(tmp.table)
        /\ \A t \in Threads : snap'[t] = Older(snap[t])
    BY <1>1, <1>9 DEF Tick
  <2> QED
    BY <1>3, <2>1 DEF SavedSoFar
<1>10. ASSUME NEW n \in Managers, Restart(n) PROVE SavedSoFar(m)'
  <2>1. /\ n = m /\ mem'[m] = disk' /\ \A t \in Threads : at'[t] = "idle"
    BY <1>0, <1>1, <1>10 DEF Restart, files
  <2> QED
    BY <2>1 DEF SavedSoFar
<1>11. CASE UNCHANGED vars
  BY <1>3, <1>11 DEF vars, files, local, SavedSoFar
<1> QED
  BY <1>2, <1>4, <1>5, <1>6, <1>7, <1>8, <1>9, <1>10, <1>11 DEF Next, Progress

(***************************************************************************)
(* With one manager and one call at a time, breakers.json agrees with the  *)
(* manager whenever no call is in flight, for any number of services and   *)
(* through any number of restarts in the middle of a call.                 *)
(***************************************************************************)
THEOREM RestartLosesNothing == Spec => []DiskIsCurrent
<1>1. Init => DiskInv
  BY DEF Init, DiskInv, SavedSoFar
<1>2. DiskInv => DiskIsCurrent
  BY DEF DiskInv, SavedSoFar, DiskIsCurrent
<1> QED
  BY <1>1, <1>2, TypeInit, TypeStep, DiskStep, PTL DEF Spec
=============================================================================
