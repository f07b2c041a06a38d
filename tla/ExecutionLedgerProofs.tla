----------------------- MODULE ExecutionLedgerProofs -----------------------
(***************************************************************************)
(* Proofs about ExecutionLedger, for every number of threads, processes    *)
(* and keys and every BENJAMIN_LEDGER_MAX.                                 *)
(***************************************************************************)
EXTENDS ExecutionLedger, SequenceTheorems, TLAPS

-----------------------------------------------------------------------------
(* Lemmas about sequences of records.                                      *)

(***************************************************************************)
(* A key has one latest status (_latest_record_by_key is a dict).          *)
(***************************************************************************)
LEMMA LatestUnique ==
    ASSUME NEW f \in Seq(Records), NEW k, NEW s, NEW t,
           LatestIs(f, k, s), LatestIs(f, k, t)
    PROVE  s = t
<1>1. PICK i \in 1..Len(f) :
          /\ f[i] = [key |-> k, status |-> s]
          /\ \A j \in (i + 1)..Len(f) : f[j].key # k
  BY DEF LatestIs
<1>2. PICK p \in 1..Len(f) :
          /\ f[p] = [key |-> k, status |-> t]
          /\ \A j \in (p + 1)..Len(f) : f[j].key # k
  BY DEF LatestIs
<1>3. Len(f) \in Nat
  OBVIOUS
<1>4. ~(i < p) /\ ~(p < i)
  BY <1>1, <1>2, <1>3
<1>5. i = p
  BY <1>3, <1>4
<1> QED
  BY <1>1, <1>2, <1>5

(***************************************************************************)
(* The status of a key is that of its latest record.                       *)
(***************************************************************************)
LEMMA StatusOfLatest ==
    ASSUME NEW f \in Seq(Records), NEW k, NEW s \in RecordStatuses
    PROVE  LatestIs(f, k, s) => StatusOf(f, k) = s
<1> SUFFICES ASSUME LatestIs(f, k, s) PROVE StatusOf(f, k) = s
  OBVIOUS
<1> DEFINE t == CHOOSE r \in RecordStatuses : LatestIs(f, k, r)
<1>1. t \in RecordStatuses /\ LatestIs(f, k, t)
  OBVIOUS
<1>2. t = s
  BY <1>1, LatestUnique
<1> QED
  BY <1>2 DEF StatusOf

(***************************************************************************)
(* StatusOf is a status of the atomic table, and a key is Claimed exactly  *)
(* when that status is started or succeeded.                               *)
(***************************************************************************)
LEMMA StatusOfType ==
    ASSUME NEW f \in Seq(Records), NEW k
    PROVE  /\ StatusOf(f, k) \in RecordStatuses \cup {"none"}
           /\ Claimed(f, k) <=> StatusOf(f, k) \in {"started", "succeeded"}
<1>1. CASE \E s \in RecordStatuses : LatestIs(f, k, s)
  <2>1. PICK s \in RecordStatuses : LatestIs(f, k, s)
    BY <1>1
  <2>2. StatusOf(f, k) = s
    BY <2>1, StatusOfLatest
  <2>3. Claimed(f, k) => s \in {"started", "succeeded"}
    BY <2>1, LatestUnique DEF Claimed
  <2> QED
    BY <2>1, <2>2, <2>3 DEF Claimed
<1>2. CASE ~ \E s \in RecordStatuses : LatestIs(f, k, s)
  <2>1. StatusOf(f, k) = "none"
    BY <1>2 DEF StatusOf
  <2>2. ~Claimed(f, k)
    BY <1>2 DEF Claimed, RecordStatuses
  <2> QED
    BY <2>1, <2>2
<1> QED
  BY <1>1, <1>2

(***************************************************************************)
(* _append makes its record the latest of its key and no other key's.      *)
(***************************************************************************)
LEMMA LatestAppend ==
    ASSUME NEW f \in Seq(Records), NEW r \in Records, NEW k, NEW s
    PROVE  LatestIs(Append(f, r), k, s) <=>
               IF r.key = k THEN r.status = s ELSE LatestIs(f, k, s)
<1> DEFINE g == Append(f, r)
<1>1. /\ Len(f) \in Nat
      /\ Len(g) = Len(f) + 1
      /\ g[Len(f) + 1] = r
      /\ \A i \in 1..Len(f) : g[i] = f[i]
  OBVIOUS
<1>2. r = [key |-> r.key, status |-> r.status]
  BY DEF Records
<1> HIDE DEF g
<1>3. CASE r.key = k
  <2>1. ASSUME LatestIs(g, k, s) PROVE r.status = s
    <3>1. PICK i \in 1..Len(g) :
              /\ g[i] = [key |-> k, status |-> s]
              /\ \A j \in (i + 1)..Len(g) : g[j].key # k
      BY <2>1 DEF LatestIs
    <3>2. i = Len(f) + 1
      BY <1>1, <1>3, <3>1
    <3> QED
      BY <1>1, <3>1, <3>2
  <2>2. ASSUME r.status = s PROVE LatestIs(g, k, s)
    <3>1. g[Len(f) + 1] = [key |-> k, status |-> s]
      BY <1>1, <1>2, <1>3, <2>2
    <3>2. /\ Len(f) + 1 \in 1..Len(g)
          /\ \A j \in (Len(f) + 1 + 1)..Len(g) : FALSE
      BY <1>1
    <3> QED
      BY <3>1, <3>2 DEF LatestIs
  <2> QED
    BY <1>3, <2>1, <2>2 DEF g
<1>4. CASE r.key # k
  <2>1. ASSUME LatestIs(g, k, s) PROVE LatestIs(f, k, s)
    <3>1. PICK i \in 1..Len(g) :
              /\ g[i] = [key |-> k, status |-> s]
              /\ \A j \in (i + 1)..Len(g) : g[j].key # k
      BY <2>1 DEF LatestIs
    <3>2. i # Len(f) + 1
      BY <1>1, <1>4, <3>1
    <3>3. i \in 1..Len(f)
      BY <1>1, <3>2
    <3>4. \A j \in (i + 1)..Len(f) : f[j].key # k
      BY <1>1, <3>1, <3>3
    <3> QED
      BY <1>1, <3>1, <3>3, <3>4 DEF LatestIs
  <2>2. ASSUME LatestIs(f, k, s) PROVE LatestIs(g, k, s)
    <3>1. PICK i \in 1..Len(f) :
              /\ f[i] = [key |-> k, status |-> s]
              /\ \A j \in (i + 1)..Len(f) : f[j].key # k
      BY <2>2 DEF LatestIs
    <3>2. i \in 1..Len(g) /\ g[i] = [key |-> k, status |-> s]
      BY <1>1, <3>1
    <3>3. \A j \in (i + 1)..Len(g) : g[j].key # k
      BY <1>1, <1>4, <3>1
    <3> QED
      BY <3>2, <3>3 DEF LatestIs
  <2> QED
    BY <1>4, <2>1, <2>2 DEF g
<1> QED
  BY <1>3, <1>4

(***************************************************************************)
(* _append sets the status of its record's key and of no other.            *)
(***************************************************************************)
LEMMA StatusAppend ==
    ASSUME NEW f \in Seq(Records), NEW r \in Records, NEW k
    PROVE  StatusOf(Append(f, r), k) =
               IF r.key = k THEN r.status ELSE StatusOf(f, k)
<1>1. r.status \in RecordStatuses /\ Append(f, r) \in Seq(Records)
  BY DEF Records
<1>2. CASE r.key = k
  BY <1>1, <1>2, LatestAppend, StatusOfLatest
<1>3. CASE r.key # k
  <2>1. \A s : LatestIs(Append(f, r), k, s) <=> LatestIs(f, k, s)
    BY <1>3, LatestAppend
  <2> QED
    BY <1>3, <2>1 DEF StatusOf
<1> QED
  BY <1>2, <1>3

(***************************************************************************)
(* The trim keeps the newest MaxRecords records, in order.                 *)
(***************************************************************************)
LEMMA LastRecordsShape ==
    ASSUME NEW f \in Seq(Records), NeedsTrim(f)
    PROVE  /\ LastRecords(f) \in Seq(Records)
           /\ Len(LastRecords(f)) = MaxRecords
           /\ \A p \in 1..MaxRecords :
                 LastRecords(f)[p] = f[p + (Len(f) - MaxRecords)]
<1> DEFINE m == Len(f) - MaxRecords + 1
<1>1. /\ Len(f) \in Nat
      /\ MaxRecords \in Int /\ MaxRecords > 0 /\ Len(f) > MaxRecords
  BY LedgerConstants DEF NeedsTrim
<1>2. m \in 1..Len(f) /\ Len(f) \in m..Len(f)
  BY <1>1
<1>3. /\ SubSeq(f, m, Len(f)) \in Seq(Records)
      /\ Len(SubSeq(f, m, Len(f))) = Len(f) - m + 1
      /\ \A p \in 1..(Len(f) - m + 1) : SubSeq(f, m, Len(f))[p] = f[m + p - 1]
  BY <1>1, <1>2, SubSeqProperties
<1>4. Len(f) - m + 1 = MaxRecords
  BY <1>1
<1>5. \A p \in 1..MaxRecords : m + p - 1 = p + (Len(f) - MaxRecords)
  BY <1>1
<1> QED
  BY <1>3, <1>4, <1>5 DEF LastRecords

(***************************************************************************)
(* The trim forgets the keys it keeps no record of and changes the status  *)
(* of no other key.                                                        *)
(***************************************************************************)
LEMMA StatusTrim ==
    ASSUME NEW f \in Seq(Records), NeedsTrim(f), NEW k
    PROVE  StatusOf(LastRecords(f), k) =
               IF Mentions(f, k) /\ ~Mentions(LastRecords(f), k)
                 THEN "none" ELSE StatusOf(f, k)
<1> DEFINE g == LastRecords(f)
           d == Len(f) - MaxRecords
<1>1. /\ Len(f) \in Nat /\ d \in Nat /\ MaxRecords \in Nat
      /\ Len(g) = MaxRecords /\ Len(f) = MaxRecords + d
      /\ \A p \in 1..MaxRecords : g[p] = f[p + d]
  BY LastRecordsShape, LedgerConstants DEF NeedsTrim
<1> HIDE DEF g, d
<1>2. ASSUME NEW s, LatestIs(g, k, s) PROVE LatestIs(f, k, s)
  <2>1. PICK i \in 1..Len(g) :
            /\ g[i] = [key |-> k, status |-> s]
            /\ \A j \in (i + 1)..Len(g) : g[j].key # k
    BY <1>2 DEF LatestIs
  <2>2. i + d \in 1..Len(f) /\ f[i + d] = [key |-> k, status |-> s]
    BY <1>1, <2>1
  <2>3. ASSUME NEW j \in (i + d + 1)..Len(f) PROVE f[j].key # k
    <3>1. j - d \in (i + 1)..Len(g) /\ j - d \in 1..MaxRecords /\ (j - d) + d = j
      BY <1>1, <2>1, <2>3
    <3>2. g[j - d] = f[j]
      BY <1>1, <3>1
    <3> QED
      BY <2>1, <3>1, <3>2
  <2> QED
    BY <2>2, <2>3 DEF LatestIs
<1>3. ASSUME NEW s, LatestIs(f, k, s), Mentions(g, k) PROVE LatestIs(g, k, s)
  <2>1. PICK i \in 1..Len(f) :
            /\ f[i] = [key |-> k, status |-> s]
            /\ \A j \in (i + 1)..Len(f) : f[j].key # k
    BY <1>3 DEF LatestIs
  <2>2. PICK p \in 1..Len(g) : g[p].key = k
    BY <1>3 DEF Mentions
  <2>3. p + d \in 1..Len(f) /\ f[p + d].key = k
    BY <1>1, <2>2
  <2>4. ~(i < p + d)
    BY <1>1, <2>1, <2>3
  <2>5. i - d \in 1..Len(g) /\ i - d \in 1..MaxRecords /\ (i - d) + d = i
    BY <1>1, <2>1, <2>2, <2>4
  <2>6. g[i - d] = [key |-> k, status |-> s]
    BY <1>1, <2>1, <2>5
  <2>7. ASSUME NEW j \in ((i - d) + 1)..Len(g) PROVE g[j].key # k
    <3>1. j + d \in (i + 1)..Len(f) /\ j \in 1..MaxRecords
      BY <1>1, <2>1, <2>5, <2>7
    <3> QED
      BY <1>1, <2>1, <3>1
  <2> QED
    BY <2>5, <2>6, <2>7 DEF LatestIs
<1>4. \A s : LatestIs(f, k, s) => Mentions(f, k)
  BY DEF LatestIs, Mentions
<1>5. \A s : LatestIs(g, k, s) => Mentions(g, k)
  BY DEF LatestIs, Mentions
<1>6. CASE Mentions(g, k)
  <2>1. \A s : LatestIs(g, k, s) <=> LatestIs(f, k, s)
    BY <1>2, <1>3, <1>6
  <2> QED
    BY <1>6, <2>1 DEF StatusOf, g
<1>7. CASE ~Mentions(g, k)
  <2>1. StatusOf(g, k) = "none"
    BY <1>5, <1>7 DEF StatusOf
  <2>2. ~Mentions(f, k) => StatusOf(f, k) = "none"
    BY <1>4 DEF StatusOf
  <2> QED
    BY <1>7, <2>1, <2>2 DEF g
<1> QED
  BY <1>6, <1>7

-----------------------------------------------------------------------------
(* The inductive invariant.                                                *)

\* The lock file exists exactly while its creator is in its critical section.
LockInv ==
    /\ lock # Stale
    /\ \A a \in Actors : phase[a] \in Critical <=> lock = a

\* What a thread knows about its own call.
CallInv ==
    \A a \in Actors :
        /\ call[a].outcome # "raised"
        /\ call[a].outcome = "duplicate" =>
              call[a].op = "try_start" /\ phase[a] = "release"
        /\ call[a].op = "try_start" => call[a].status = "started"
        /\ call[a].op = "mark" => call[a].status \in {"succeeded", "failed"}
        /\ phase[a] = "run" => call[a].op = "try_start"
        /\ phase[a] = "idle" => call[a].op = "try_start"

\* What a thread has read is still so when it writes.
FreshInv ==
    \A a \in Actors :
        /\ phase[a] = "append" /\ call[a].op = "try_start" =>
              ~Claimed(file, call[a].key)
        /\ phase[a] = "replace" =>
              /\ NeedsTrim(file)
              /\ tmp = [exists |-> TRUE, records |-> LastRecords(file)]

IndInv == TypeOK /\ LockInv /\ CallInv /\ FreshInv /\ NoRecordLost

-----------------------------------------------------------------------------
(* Type correctness holds with or without the lock.                        *)

(***************************************************************************)
(* The calls that threads make are calls.                                  *)
(***************************************************************************)
LEMMA CallTypes ==
    /\ \A k \in Keys : TryStartOf(k) \in Calls
    /\ \A k \in Keys, s \in RecordStatuses : MarkOf(k, s) \in Calls
    /\ NoCall \in Calls
  BY LedgerConstants DEF TryStartOf, MarkOf, NoCall, Calls, RecordStatuses

(***************************************************************************)
(* The empty ledger is well typed.                                         *)
(***************************************************************************)
LEMMA TypeInit == Init => TypeOK
  BY LedgerConstants, CallTypes
     DEF Init, TypeOK, NoTmp, Phases

(***************************************************************************)
(* Every step of every thread, and every crash, keeps the types.           *)
(***************************************************************************)
LEMMA TypeStep == TypeOK /\ [Next]_vars => TypeOK'
<1> SUFFICES ASSUME TypeOK, [Next]_vars PROVE TypeOK'
  OBVIOUS
<1> USE LedgerConstants, CallTypes
    DEF TypeOK, Goto, files, ghosts, counters, Phases
<1>1. ASSUME NEW a \in Actors, NEW k \in Keys, TryStart(a, k) PROVE TypeOK'
  BY <1>1 DEF TryStart
<1>2. ASSUME NEW a \in Actors, Acquire(a) PROVE TypeOK'
  BY <1>2 DEF Acquire
<1>3. ASSUME NEW a \in Actors, LockTimeout(a) PROVE TypeOK'
  BY <1>3 DEF LockTimeout
<1>4. ASSUME NEW a \in Actors, Read(a) PROVE TypeOK'
  <2>1. [call EXCEPT ![a].outcome = "duplicate"] \in [Actors -> Calls]
    BY ZenonT(40) DEF Calls
  <2> QED
    BY <1>4, <2>1 DEF Read
<1>5. ASSUME NEW a \in Actors, AppendRecord(a) PROVE TypeOK'
  <2>1. [key |-> call[a].key, status |-> call[a].status] \in Records
    BY DEF Calls, Records
  <2> QED
    BY <1>5, <2>1 DEF AppendRecord
<1>6. ASSUME NEW a \in Actors, Trim(a) PROVE TypeOK'
  <2>1. NeedsTrim(file) => LastRecords(file) \in Seq(Records)
    BY LastRecordsShape
  <2>2. CASE NeedsTrim(file)
    <3>1. tmp' = [exists |-> TRUE, records |-> LastRecords(file)]
      BY <1>6, <2>2 DEF Trim
    <3>2. LastRecords(file) \in Seq(Records)
      BY <2>1, <2>2
    <3>3. tmp' \in [exists : BOOLEAN, records : Seq(Records)]
      BY <3>1, <3>2, Zenon
    <3> QED
      BY <1>6, <2>2, <3>3 DEF Trim
  <2>3. CASE ~NeedsTrim(file)
    BY <1>6, <2>3 DEF Trim
  <2> QED
    BY <2>2, <2>3
<1>7. ASSUME NEW a \in Actors, Replace(a) PROVE TypeOK'
  <2>1. [call EXCEPT ![a].outcome = "raised"] \in [Actors -> Calls]
    BY ZenonT(40) DEF Calls
  <2>2. NoTmp \in [exists : BOOLEAN, records : Seq(Records)]
    BY DEF NoTmp
  <2>3. tmp.records \in Seq(Records)
    OBVIOUS
  <2>4. CASE tmp.exists
    BY <1>7, <2>2, <2>3, <2>4 DEF Replace
  <2>5. CASE ~tmp.exists
    BY <1>7, <2>1, <2>5 DEF Replace
  <2> QED
    BY <2>4, <2>5
<1>8. ASSUME NEW a \in Actors, ReleaseGranted(a) PROVE TypeOK'
  BY <1>8 DEF ReleaseGranted, Unlock
<1>9. ASSUME NEW a \in Actors, ReleaseDone(a) PROVE TypeOK'
  BY <1>9 DEF ReleaseDone, Unlock
<1>10. ASSUME NEW a \in Actors, ReleaseRetry(a) PROVE TypeOK'
  <2>1. MarkOf(call[a].key, "failed") \in Calls
    BY DEF Calls, RecordStatuses
  <2> QED
    BY <1>10, <2>1 DEF ReleaseRetry, Unlock
<1>11. ASSUME NEW a \in Actors, RunSucceeds(a) PROVE TypeOK'
  <2>1. MarkOf(call[a].key, "succeeded") \in Calls /\ call[a].key \in Keys
    BY DEF Calls, RecordStatuses
  <2> QED
    BY <1>11, <2>1 DEF RunSucceeds
<1>12. ASSUME NEW a \in Actors, RunFails(a) PROVE TypeOK'
  <2>1. MarkOf(call[a].key, "failed") \in Calls
    BY DEF Calls, RecordStatuses
  <2> QED
    BY <1>12, <2>1 DEF RunFails
<1>13. ASSUME NEW h \in Hosts, Crash(h) PROVE TypeOK'
  BY <1>13 DEF Crash
<1>14. CASE UNCHANGED vars
  BY <1>14 DEF vars
<1> QED
  BY <1>1, <1>2, <1>3, <1>4, <1>5, <1>6, <1>7, <1>8, <1>9, <1>10, <1>11,
     <1>12, <1>13, <1>14 DEF Next, Step, Lock, Run, Release

(***************************************************************************)
(* Every variable keeps its type, whatever the lock does.                  *)
(***************************************************************************)
THEOREM LedgerTypeCorrect == Spec => []TypeOK
  BY TypeInit, TypeStep, PTL DEF Spec

-----------------------------------------------------------------------------
(* With the lock intact, the whole invariant is inductive.                 *)

(***************************************************************************)
(* The lock excludes: two threads are never in the critical section of     *)
(* _file_lock together.                                                    *)
(***************************************************************************)
LEMMA OneInCriticalSection ==
    ASSUME LockInv, NEW a \in Actors, NEW b \in Actors,
           phase[a] \in Critical, phase[b] \in Critical
    PROVE  a = b
  BY DEF LockInv

(***************************************************************************)
(* The empty ledger satisfies the invariant.                               *)
(***************************************************************************)
LEMMA IndInit == Init => IndInv
<1> SUFFICES ASSUME Init PROVE IndInv
  OBVIOUS
<1>1. TypeOK
  BY TypeInit
<1>2. LockInv
  BY LedgerConstants DEF Init, LockInv, Critical
<1>3. CallInv
  BY LedgerConstants DEF Init, CallInv, NoCall, TryStartOf
<1>4. FreshInv
  BY DEF Init, FreshInv
<1>5. NoRecordLost
  BY DEF Init, NoRecordLost
<1> QED
  BY <1>1, <1>2, <1>3, <1>4, <1>5 DEF IndInv

(***************************************************************************)
(* The lock file follows the critical section.                             *)
(***************************************************************************)
LEMMA LockStep == LockIntact /\ IndInv /\ [Next]_vars => LockInv'
<1> SUFFICES ASSUME LockIntact, IndInv, [Next]_vars PROVE LockInv'
  OBVIOUS
<1> USE LedgerConstants
    DEF IndInv, LockInv, LockIntact, Critical, TypeOK, Goto, files, ghosts,
        counters
<1>1. ASSUME NEW a \in Actors, NEW k \in Keys, TryStart(a, k) PROVE LockInv'
  BY <1>1 DEF TryStart
<1>2. ASSUME NEW a \in Actors, Acquire(a) PROVE LockInv'
  BY <1>2 DEF Acquire
<1>3. ASSUME NEW a \in Actors, LockTimeout(a) PROVE LockInv'
  BY <1>3 DEF LockTimeout
<1>4. ASSUME NEW a \in Actors, Read(a) PROVE LockInv'
  BY <1>4 DEF Read
<1>5. ASSUME NEW a \in Actors, AppendRecord(a) PROVE LockInv'
  BY <1>5 DEF AppendRecord
<1>6. ASSUME NEW a \in Actors, Trim(a) PROVE LockInv'
  BY <1>6 DEF Trim
<1>7. ASSUME NEW a \in Actors, Replace(a) PROVE LockInv'
  BY <1>7 DEF Replace
<1>8. ASSUME NEW a \in Actors, ReleaseGranted(a) PROVE LockInv'
  BY <1>8 DEF ReleaseGranted, Unlock
<1>9. ASSUME NEW a \in Actors, ReleaseDone(a) PROVE LockInv'
  BY <1>9 DEF ReleaseDone, Unlock
<1>10. ASSUME NEW a \in Actors, ReleaseRetry(a) PROVE LockInv'
  BY <1>10 DEF ReleaseRetry, Unlock
<1>11. ASSUME NEW a \in Actors, RunSucceeds(a) PROVE LockInv'
  BY <1>11 DEF RunSucceeds
<1>12. ASSUME NEW a \in Actors, RunFails(a) PROVE LockInv'
  BY <1>12 DEF RunFails
<1>13. ASSUME NEW h \in Hosts, Crash(h) PROVE LockInv'
  BY <1>13 DEF Crash, ThreadsOf
<1>14. CASE UNCHANGED vars
  BY <1>14 DEF vars
<1> QED
  BY <1>1, <1>2, <1>3, <1>4, <1>5, <1>6, <1>7, <1>8, <1>9, <1>10, <1>11,
     <1>12, <1>13, <1>14 DEF Next, Step, Lock, Run, Release

(***************************************************************************)
(* A thread's record of its own call stays consistent; in particular the   *)
(* rename of the temporary file never raises while the lock works.         *)
(***************************************************************************)
LEMMA CallStep == LockIntact /\ IndInv /\ [Next]_vars => CallInv'
<1> SUFFICES ASSUME LockIntact, IndInv, [Next]_vars PROVE CallInv'
  OBVIOUS
<1> USE LedgerConstants
    DEF IndInv, CallInv, LockIntact, TypeOK, Goto, files, ghosts, counters,
        TryStartOf, MarkOf, NoCall, Calls
<1>1. ASSUME NEW a \in Actors, NEW k \in Keys, TryStart(a, k) PROVE CallInv'
  BY <1>1 DEF TryStart
<1>2. ASSUME NEW a \in Actors, Acquire(a) PROVE CallInv'
  BY <1>2 DEF Acquire
<1>3. ASSUME NEW a \in Actors, LockTimeout(a) PROVE CallInv'
  BY <1>3 DEF LockTimeout
<1>4. ASSUME NEW a \in Actors, Read(a) PROVE CallInv'
  <2>1. CASE call[a].op = "try_start" /\ Claimed(file, call[a].key)
    <3>1. /\ call' = [call EXCEPT ![a].outcome = "duplicate"]
          /\ phase' = [phase EXCEPT ![a] = "release"]
      BY <1>4, <2>1 DEF Read
    <3>2. ASSUME NEW b \in Actors, b # a
          PROVE  call'[b] = call[b] /\ phase'[b] = phase[b]
      BY <3>1, <3>2
    <3>3. /\ call'[a].outcome = "duplicate" /\ phase'[a] = "release"
          /\ call'[a].op = call[a].op /\ call'[a].status = call[a].status
      BY <3>1
    <3> QED
      BY <2>1, <3>2, <3>3
  <2>2. CASE ~(call[a].op = "try_start" /\ Claimed(file, call[a].key))
    BY <1>4, <2>2 DEF Read
  <2> QED
    BY <2>1, <2>2
<1>5. ASSUME NEW a \in Actors, AppendRecord(a) PROVE CallInv'
  BY <1>5 DEF AppendRecord
<1>6. ASSUME NEW a \in Actors, Trim(a) PROVE CallInv'
  BY <1>6 DEF Trim
<1>7. ASSUME NEW a \in Actors, Replace(a) PROVE CallInv'
  <2>1. tmp = [exists |-> TRUE, records |-> LastRecords(file)]
    BY <1>7 DEF Replace, FreshInv
  <2>2. tmp.exists
    BY <2>1, Zenon
  <2> QED
    BY <1>7, <2>2 DEF Replace
<1>8. ASSUME NEW a \in Actors, ReleaseGranted(a) PROVE CallInv'
  BY <1>8 DEF ReleaseGranted
<1>9. ASSUME NEW a \in Actors, ReleaseDone(a) PROVE CallInv'
  BY <1>9 DEF ReleaseDone
<1>10. ASSUME NEW a \in Actors, ReleaseRetry(a) PROVE CallInv'
  BY <1>10 DEF ReleaseRetry
<1>11. ASSUME NEW a \in Actors, RunSucceeds(a) PROVE CallInv'
  BY <1>11 DEF RunSucceeds
<1>12. ASSUME NEW a \in Actors, RunFails(a) PROVE CallInv'
  BY <1>12 DEF RunFails
<1>13. ASSUME NEW h \in Hosts, Crash(h) PROVE CallInv'
  BY <1>13 DEF Crash
<1>14. CASE UNCHANGED vars
  BY <1>14 DEF vars
<1> QED
  BY <1>1, <1>2, <1>3, <1>4, <1>5, <1>6, <1>7, <1>8, <1>9, <1>10, <1>11,
     <1>12, <1>13, <1>14 DEF Next, Step, Lock, Run, Release

(***************************************************************************)
(* What a thread has read under the lock does not change before it writes. *)
(***************************************************************************)
LEMMA FreshStep == LockIntact /\ IndInv /\ [Next]_vars => FreshInv'
<1> SUFFICES ASSUME LockIntact, IndInv, [Next]_vars PROVE FreshInv'
  OBVIOUS
<1> USE LedgerConstants
    DEF IndInv, FreshInv, LockInv, LockIntact, Critical, TypeOK, Goto, files,
        ghosts, counters
<1>1. ASSUME NEW a \in Actors, NEW k \in Keys, TryStart(a, k) PROVE FreshInv'
  BY <1>1 DEF TryStart
<1>2. ASSUME NEW a \in Actors, Acquire(a) PROVE FreshInv'
  BY <1>2 DEF Acquire
<1>3. ASSUME NEW a \in Actors, LockTimeout(a) PROVE FreshInv'
  BY <1>3 DEF LockTimeout
<1>4. ASSUME NEW a \in Actors, Read(a) PROVE FreshInv'
  BY <1>4 DEF Read
<1>5. ASSUME NEW a \in Actors, AppendRecord(a) PROVE FreshInv'
  BY <1>5 DEF AppendRecord
<1>6. ASSUME NEW a \in Actors, Trim(a) PROVE FreshInv'
  BY <1>6 DEF Trim
<1>7. ASSUME NEW a \in Actors, Replace(a) PROVE FreshInv'
  BY <1>7 DEF Replace
<1>8. ASSUME NEW a \in Actors, ReleaseGranted(a) PROVE FreshInv'
  BY <1>8 DEF ReleaseGranted
<1>9. ASSUME NEW a \in Actors, ReleaseDone(a) PROVE FreshInv'
  BY <1>9 DEF ReleaseDone
<1>10. ASSUME NEW a \in Actors, ReleaseRetry(a) PROVE FreshInv'
  BY <1>10 DEF ReleaseRetry
<1>11. ASSUME NEW a \in Actors, RunSucceeds(a) PROVE FreshInv'
  BY <1>11 DEF RunSucceeds
<1>12. ASSUME NEW a \in Actors, RunFails(a) PROVE FreshInv'
  BY <1>12 DEF RunFails
<1>13. ASSUME NEW h \in Hosts, Crash(h) PROVE FreshInv'
  BY <1>13 DEF Crash
<1>14. CASE UNCHANGED vars
  BY <1>14 DEF vars
<1> QED
  BY <1>1, <1>2, <1>3, <1>4, <1>5, <1>6, <1>7, <1>8, <1>9, <1>10, <1>11,
     <1>12, <1>13, <1>14 DEF Next, Step, Lock, Run, Release

(***************************************************************************)
(* Appends and trims keep the file a suffix of everything appended, no     *)
(* shorter than the retention asks for.                                    *)
(***************************************************************************)
LEMMA NoRecordLostStep == LockIntact /\ IndInv /\ [Next]_vars => NoRecordLost'
<1> SUFFICES ASSUME LockIntact, IndInv, [Next]_vars PROVE NoRecordLost'
  OBVIOUS
<1>1. ASSUME NEW a \in Actors, AppendRecord(a) PROVE NoRecordLost'
  <2> DEFINE r == [key |-> call[a].key, status |-> call[a].status]
             n == Len(file)
             m == Len(log)
  <2>1. file \in Seq(Records) /\ log \in Seq(Records) /\ r \in Records
    BY DEF IndInv, TypeOK, Calls, Records
  <2>2. file' = Append(file, r) /\ log' = Append(log, r)
    BY <1>1 DEF AppendRecord
  <2>3. /\ n \in Nat /\ m \in Nat
        /\ Len(file') = n + 1 /\ Len(log') = m + 1
        /\ \A i \in 1..n : file'[i] = file[i]
        /\ \A i \in 1..m : log'[i] = log[i]
        /\ file'[n + 1] = r /\ log'[m + 1] = r
    BY <2>1, <2>2
  <2>4. /\ n <= m
        /\ \A i \in 1..n : file[i] = log[m - n + i]
        /\ n < m => MaxRecords > 0 /\ n >= MaxRecords
    BY DEF IndInv, NoRecordLost
  <2> HIDE DEF n, m, r
  <2>5. ASSUME NEW i \in 1..(n + 1)
        PROVE  file'[i] = log'[(m + 1) - (n + 1) + i]
    <3>1. CASE i = n + 1
      BY <2>3, <2>4, <3>1
    <3>2. CASE i # n + 1
      <4>1. i \in 1..n /\ m - n + i \in 1..m /\ (m + 1) - (n + 1) + i = m - n + i
        BY <2>3, <2>4, <2>5, <3>2
      <4> QED
        BY <2>3, <2>4, <4>1
    <3> QED
      BY <3>1, <3>2
  <2>6. n + 1 <= m + 1 /\ (n + 1 < m + 1 => MaxRecords > 0 /\ n + 1 >= MaxRecords)
    BY <2>3, <2>4, LedgerConstants
  <2> QED
    BY <2>3, <2>5, <2>6 DEF NoRecordLost
<1>2. ASSUME NEW a \in Actors, Replace(a) PROVE NoRecordLost'
  <2> DEFINE n == Len(file)
             m == Len(log)
             d == n - MaxRecords
  <2>1. /\ NeedsTrim(file)
        /\ tmp = [exists |-> TRUE, records |-> LastRecords(file)]
    BY <1>2 DEF IndInv, FreshInv, Replace
  <2>2. tmp.exists /\ tmp.records = LastRecords(file)
    BY <2>1, Zenon
  <2>3. file' = LastRecords(file) /\ log' = log
    BY <1>2, <2>2 DEF Replace
  <2>4. /\ file \in Seq(Records) /\ log \in Seq(Records)
        /\ n \in Nat /\ m \in Nat
    BY DEF IndInv, TypeOK
  <2>5. /\ Len(file') = MaxRecords
        /\ \A p \in 1..MaxRecords : file'[p] = file[p + d]
    BY <2>1, <2>3, <2>4, LastRecordsShape
  <2>6. MaxRecords \in Nat /\ MaxRecords > 0 /\ d \in Nat /\ n = MaxRecords + d
    BY <2>1, <2>4, LedgerConstants DEF NeedsTrim
  <2>7. n <= m /\ \A i \in 1..n : file[i] = log[m - n + i]
    BY DEF IndInv, NoRecordLost
  <2> HIDE DEF n, m, d
  <2>8. ASSUME NEW p \in 1..MaxRecords
        PROVE  file'[p] = log[m - MaxRecords + p]
    <3>1. p + d \in 1..n /\ m - n + (p + d) = m - MaxRecords + p
      BY <2>4, <2>6, <2>7, <2>8
    <3> QED
      BY <2>5, <2>7, <3>1
  <2>9. MaxRecords <= m
    BY <2>4, <2>6, <2>7
  <2>10. Len(log') = m
    BY <2>3 DEF m
  <2> QED
    BY <2>3, <2>5, <2>6, <2>8, <2>9, <2>10 DEF NoRecordLost
<1>3. CASE UNCHANGED <<file, log>>
  BY <1>3 DEF IndInv, NoRecordLost
<1>4. CASE UNCHANGED vars
  BY <1>3, <1>4 DEF vars, files, ghosts
<1>5. ASSUME NEW a \in Actors, Step(a) PROVE NoRecordLost'
  BY <1>1, <1>2, <1>3, <1>5
     DEF Step, Lock, Run, Release, Acquire, LockTimeout, Read, Trim,
         ReleaseGranted, ReleaseDone, ReleaseRetry, RunSucceeds, RunFails,
         files, ghosts
<1>6. ASSUME NEW a \in Actors, NEW k \in Keys, TryStart(a, k)
      PROVE  NoRecordLost'
  BY <1>3, <1>6 DEF TryStart, files, ghosts
<1>7. ASSUME NEW h \in Hosts, Crash(h) PROVE NoRecordLost'
  BY <1>3, <1>7 DEF Crash, ghosts
<1> QED
  BY <1>4, <1>5, <1>6, <1>7 DEF Next

(***************************************************************************)
(* The invariant is inductive.                                             *)
(***************************************************************************)
LEMMA IndStep == LockIntact /\ IndInv /\ [Next]_vars => IndInv'
  BY TypeStep, LockStep, CallStep, FreshStep, NoRecordLostStep DEF IndInv

(***************************************************************************)
(* With the lock intact, the invariant holds in every reachable state.     *)
(***************************************************************************)
LEMMA LedgerInvariant == ASSUME LockIntact PROVE Spec => []IndInv
<1>1. IndInv /\ [Next]_vars => IndInv'
  BY IndStep
<1> QED
  BY <1>1, IndInit, PTL DEF Spec

(***************************************************************************)
(* With the lock intact, no appended record is lost but by the retention   *)
(* limit, in whatever order the threads append and trim.                   *)
(***************************************************************************)
THEOREM LedgerLosesNoRecord == ASSUME LockIntact PROVE Spec => []NoRecordLost
<1>1. IndInv => NoRecordLost
  BY DEF IndInv
<1> QED
  BY <1>1, LedgerInvariant, PTL

-----------------------------------------------------------------------------
(* The ledger implements the atomic table.                                 *)

(***************************************************************************)
(* The empty file is the empty table.                                      *)
(***************************************************************************)
LEMMA TableInit == Init => Table!Init
<1> SUFFICES ASSUME Init PROVE Table!Init
  OBVIOUS
<1>1. \A k, s : ~LatestIs(<<>>, k, s)
  BY DEF LatestIs
<1>2. \A k \in Keys : StatusOf(file, k) = "none"
  BY <1>1 DEF Init, StatusOf
<1>3. \A a \in Actors : ~Granted(a) /\ \A s : ~Settling(a, s)
  BY DEF Init, Granted, Settling
<1> QED
  BY <1>2, <1>3
     DEF Init, Table!Init, StatusBar, RunningBar, FinishedBar

(***************************************************************************)
(* A step that changes neither the file nor who holds which claim is       *)
(* invisible in the table.                                                 *)
(***************************************************************************)
LEMMA TableStutter ==
    ASSUME UNCHANGED <<file, done, forgotten>>,
           \A b \in Actors :
               /\ (Granted(b) \/ Settling(b, "failed"))' <=>
                      Granted(b) \/ Settling(b, "failed")
               /\ Settling(b, "succeeded")' <=> Settling(b, "succeeded")
               /\ Granted(b) \/ Settling(b, "failed")
                      \/ Settling(b, "succeeded") => call'[b].key = call[b].key
    PROVE  UNCHANGED Table!vars
<1>1. StatusBar' = StatusBar
  BY DEF StatusBar
<1>2. RunningBar' = RunningBar
  BY DEF RunningBar
<1>3. FinishedBar' = FinishedBar
  BY DEF FinishedBar
<1> QED
  BY <1>1, <1>2, <1>3 DEF Table!vars

(***************************************************************************)
(* Appending a record moves the table as try_start or mark promises.       *)
(***************************************************************************)
LEMMA TableAppend ==
    ASSUME IndInv, NEW a \in Actors, AppendRecord(a)
    PROVE  Table!Next
<1> DEFINE k == call[a].key
           r == [key |-> call[a].key, status |-> call[a].status]
<1>1. /\ file \in Seq(Records) /\ r \in Records /\ k \in Keys
      /\ r.key = k /\ r.status = call[a].status
  BY DEF IndInv, TypeOK, Calls, Records
<1>2. /\ file' = Append(file, r) /\ call' = call
      /\ phase[a] = "append" /\ phase' = [phase EXCEPT ![a] = "trim"]
      /\ UNCHANGED <<done, forgotten>>
  BY DEF AppendRecord, Goto
<1>3. ASSUME NEW j \in Keys
      PROVE  StatusBar'[j] = IF j = k THEN call[a].status ELSE StatusBar[j]
  <2>1. StatusOf(Append(file, r), j) =
            IF r.key = j THEN r.status ELSE StatusOf(file, j)
    BY <1>1, StatusAppend
  <2> QED
    BY <1>1, <1>2, <2>1 DEF StatusBar
<1>4. StatusBar' = [StatusBar EXCEPT ![k] = call[a].status]
  BY <1>3 DEF StatusBar
<1>5. ASSUME NEW b \in Actors, b # a
      PROVE  /\ Granted(b)' <=> Granted(b)
             /\ \A s : Settling(b, s)' <=> Settling(b, s)
  BY <1>2, <1>5 DEF Granted, Settling, IndInv, TypeOK
<1>6. /\ phase \in [Actors -> Phases] /\ phase'[a] = "trim"
      /\ ~Granted(a) /\ \A s : ~Settling(a, s)'
  BY <1>2 DEF Granted, Settling, IndInv, TypeOK
<1>7. /\ call[a].op \in {"try_start", "mark"}
      /\ call[a].outcome = "ok"
      /\ call[a].op = "try_start" => call[a].status = "started"
      /\ call[a].op = "mark" => call[a].status \in {"succeeded", "failed"}
  BY <1>2 DEF IndInv, CallInv, TypeOK, Calls
<1> HIDE DEF k, r
<1>8. CASE call[a].op = "try_start"
  <2>1. Granted(a)' /\ \A s : ~Settling(a, s)
    BY <1>2, <1>6, <1>7, <1>8 DEF Granted, Settling
  <2>2. RunningBar' = [RunningBar EXCEPT ![k] = @ \cup {a}]
    BY <1>1, <1>2, <1>5, <1>6, <2>1 DEF RunningBar, k
  <2>3. FinishedBar' = FinishedBar
    BY <1>2, <1>5, <1>6, <2>1 DEF FinishedBar
  <2>4. ~Claimed(file, k)
    BY <1>2, <1>8 DEF IndInv, FreshInv, k
  <2>5. StatusBar[k] \notin {"started", "succeeded"}
    BY <1>1, <2>4, StatusOfType DEF StatusBar
  <2>6. Table!Claim(a, k)
    BY <1>2, <1>4, <1>7, <1>8, <2>2, <2>3, <2>5 DEF Table!Claim, Table!Claimable
  <2> QED
    BY <1>1, <2>6 DEF Table!Next
<1>9. CASE call[a].op = "mark" /\ call[a].status = "succeeded"
  <2>1. /\ ~Granted(a)' /\ Settling(a, "succeeded") /\ ~Settling(a, "failed")
    BY <1>2, <1>6, <1>9 DEF Granted, Settling
  <2>2. RunningBar' = RunningBar
    BY <1>2, <1>5, <1>6, <2>1 DEF RunningBar
  <2>3. FinishedBar' = [FinishedBar EXCEPT ![k] = @ \ {a}]
    BY <1>1, <1>2, <1>5, <1>6, <2>1 DEF FinishedBar, k
  <2>4. a \in FinishedBar[k]
    BY <1>1, <2>1 DEF FinishedBar, k
  <2>5. Table!MarkSucceeded(a, k)
    BY <1>2, <1>4, <1>9, <2>2, <2>3, <2>4 DEF Table!MarkSucceeded
  <2> QED
    BY <1>1, <2>5 DEF Table!Next
<1>10. CASE call[a].op = "mark" /\ call[a].status = "failed"
  <2>1. /\ ~Granted(a)' /\ Settling(a, "failed") /\ ~Settling(a, "succeeded")
    BY <1>2, <1>6, <1>10 DEF Granted, Settling
  <2>2. RunningBar' = [RunningBar EXCEPT ![k] = @ \ {a}]
    BY <1>1, <1>2, <1>5, <1>6, <2>1 DEF RunningBar, k
  <2>3. FinishedBar' = FinishedBar
    BY <1>2, <1>5, <1>6, <2>1 DEF FinishedBar
  <2>4. a \in RunningBar[k]
    BY <1>1, <2>1 DEF RunningBar, k
  <2>5. Table!MarkFailed(a, k)
    BY <1>2, <1>4, <1>10, <2>2, <2>3, <2>4 DEF Table!MarkFailed
  <2> QED
    BY <1>1, <2>5 DEF Table!Next
<1> QED
  BY <1>7, <1>8, <1>9, <1>10

(***************************************************************************)
(* The rename that ends a trim makes the table forget the keys of which no *)
(* record is kept.                                                         *)
(***************************************************************************)
LEMMA TableReplace ==
    ASSUME IndInv, NEW a \in Actors, Replace(a)
    PROVE  Table!Next
<1> DEFINE g == LastRecords(file)
           K == {k \in Keys : Mentions(file, k) /\ ~Mentions(g, k)}
<1>1. /\ NeedsTrim(file) /\ file \in Seq(Records)
      /\ tmp = [exists |-> TRUE, records |-> g]
  BY DEF IndInv, TypeOK, FreshInv, Replace
<1>2. tmp.exists /\ tmp.records = g
  BY <1>1, Zenon
<1>3. /\ file' = g /\ forgotten' = forgotten \cup K
      /\ phase[a] = "replace" /\ phase' = [phase EXCEPT ![a] = "release"]
      /\ call' = call /\ done' = done
  BY <1>2 DEF Replace, Goto
<1>4. ASSUME NEW k \in Keys
      PROVE  StatusBar'[k] = IF k \in K THEN "none" ELSE StatusBar[k]
  <2>1. StatusOf(g, k) = IF Mentions(file, k) /\ ~Mentions(g, k)
                           THEN "none" ELSE StatusOf(file, k)
    BY <1>1, StatusTrim
  <2> QED
    BY <1>3, <2>1 DEF StatusBar
<1> HIDE DEF g, K
<1>5. StatusBar' = [k \in Keys |-> IF k \in K THEN "none" ELSE StatusBar[k]]
  BY <1>4 DEF StatusBar
<1>6. ASSUME NEW b \in Actors
      PROVE  /\ Granted(b)' <=> Granted(b)
             /\ \A s : Settling(b, s)' <=> Settling(b, s)
  BY <1>3 DEF Granted, Settling, IndInv, TypeOK
<1>7. RunningBar' = RunningBar /\ FinishedBar' = FinishedBar
  BY <1>3, <1>6 DEF RunningBar, FinishedBar
<1>8. Table!Forget(K)
  BY <1>3, <1>5, <1>7 DEF Table!Forget
<1>9. K \in SUBSET Keys
  BY DEF K
<1> QED
  BY <1>8, <1>9 DEF Table!Next

(***************************************************************************)
(* The success of a protected action is a step of the table.               *)
(***************************************************************************)
LEMMA TableRunSucceeds ==
    ASSUME IndInv, NEW a \in Actors, RunSucceeds(a)
    PROVE  Table!Next
<1> DEFINE k == call[a].key
<1>1. /\ k \in Keys /\ phase[a] = "run"
      /\ phase' = [phase EXCEPT ![a] = "acquire"]
      /\ call' = [call EXCEPT ![a] = MarkOf(k, "succeeded")]
      /\ done' = [done EXCEPT ![k] = @ + 1]
      /\ file' = file /\ forgotten' = forgotten
      /\ phase \in [Actors -> Phases] /\ call \in [Actors -> Calls]
  BY DEF RunSucceeds, IndInv, TypeOK, Calls, Goto, files
<1>2. /\ phase'[a] = "acquire"
      /\ call'[a].key = k /\ call'[a].op = "mark"
      /\ call'[a].status = "succeeded"
  BY <1>1 DEF MarkOf
<1>3. ASSUME NEW b \in Actors, b # a
      PROVE  phase'[b] = phase[b] /\ call'[b] = call[b]
  BY <1>1, <1>3
<1> HIDE DEF k
<1>4. ASSUME NEW b \in Actors, b # a
      PROVE  /\ Granted(b)' <=> Granted(b)
             /\ \A s : Settling(b, s)' <=> Settling(b, s)
  BY <1>3, <1>4 DEF Granted, Settling
<1>5. /\ Granted(a) /\ ~Granted(a)'
      /\ ~Settling(a, "succeeded") /\ Settling(a, "succeeded")'
      /\ ~Settling(a, "failed") /\ ~Settling(a, "failed")'
  BY <1>1, <1>2 DEF Granted, Settling
<1>6. RunningBar' = [RunningBar EXCEPT ![k] = @ \ {a}]
  BY <1>1, <1>2, <1>3, <1>4, <1>5, ZenonT(40) DEF RunningBar, k
<1>7. FinishedBar' = [FinishedBar EXCEPT ![k] = @ \cup {a}]
  BY <1>1, <1>2, <1>3, <1>4, <1>5, ZenonT(40) DEF FinishedBar, k
<1>8. StatusBar' = StatusBar /\ a \in RunningBar[k]
  BY <1>1, <1>5 DEF StatusBar, RunningBar, k
<1>9. Table!Succeed(a, k)
  BY <1>1, <1>6, <1>7, <1>8 DEF Table!Succeed
<1> QED
  BY <1>1, <1>9 DEF Table!Next

(***************************************************************************)
(* A crash drops the claims of the threads of its process and nothing else *)
(* of the table: the keys stay started.                                    *)
(***************************************************************************)
LEMMA TableCrash ==
    ASSUME IndInv, NEW h \in Hosts, Crash(h)
    PROVE  Table!Next
<1> DEFINE A == ThreadsOf(h)
<1>1. /\ file' = file /\ done' = done /\ forgotten' = forgotten
      /\ phase' = [a \in Actors |-> IF HostOf[a] = h THEN "idle" ELSE phase[a]]
      /\ call' = [a \in Actors |-> IF HostOf[a] = h THEN NoCall ELSE call[a]]
  BY DEF Crash, ghosts
<1>2. ASSUME NEW b \in Actors, b \in A
      PROVE  ~Granted(b)' /\ \A s : ~Settling(b, s)'
  BY <1>1, <1>2 DEF ThreadsOf, Granted, Settling, NoCall, TryStartOf
<1>3. ASSUME NEW b \in Actors, b \notin A
      PROVE  /\ Granted(b)' <=> Granted(b)
             /\ \A s : Settling(b, s)' <=> Settling(b, s)
             /\ call'[b] = call[b]
  BY <1>1, <1>3 DEF ThreadsOf, Granted, Settling
<1> HIDE DEF A
<1>4. RunningBar' = [k \in Keys |-> RunningBar[k] \ A]
  BY <1>2, <1>3 DEF RunningBar
<1>5. FinishedBar' = [k \in Keys |-> FinishedBar[k] \ A]
  BY <1>2, <1>3 DEF FinishedBar
<1>6. Table!Die(A)
  BY <1>1, <1>4, <1>5 DEF Table!Die, StatusBar
<1>7. A \in SUBSET Actors
  BY DEF A, ThreadsOf
<1> QED
  BY <1>6, <1>7 DEF Table!Next

(***************************************************************************)
(* Every other step is invisible in the table.                             *)
(***************************************************************************)
LEMMA TableSilent ==
    ASSUME LockIntact, IndInv, NEW a \in Actors,
           \/ \E k \in Keys : TryStart(a, k)
           \/ Lock(a) \/ Read(a) \/ Trim(a) \/ Release(a) \/ RunFails(a)
    PROVE  UNCHANGED Table!vars
<1>1. UNCHANGED <<file, done, forgotten>>
  BY DEF TryStart, Lock, Acquire, LockTimeout, Read, Trim, Release,
         ReleaseGranted, ReleaseDone, ReleaseRetry, RunFails, files, ghosts
<1>2. phase \in [Actors -> Phases] /\ call \in [Actors -> Calls]
  BY DEF IndInv, TypeOK
<1>3. ASSUME NEW b \in Actors, b # a
      PROVE  phase'[b] = phase[b] /\ call'[b] = call[b]
  BY <1>2, <1>3
     DEF TryStart, Lock, Acquire, LockTimeout, Read, Trim, Release,
         ReleaseGranted, ReleaseDone, ReleaseRetry, RunFails, Goto
<1> DEFINE Same ==
        /\ (Granted(a) \/ Settling(a, "failed"))' <=>
               Granted(a) \/ Settling(a, "failed")
        /\ Settling(a, "succeeded")' <=> Settling(a, "succeeded")
        /\ Granted(a) \/ Settling(a, "failed") \/ Settling(a, "succeeded")
               => call'[a].key = call[a].key
<1>4. Same
  <2> USE <1>2 DEF Granted, Settling, Goto, Calls
  <2>1. CASE \E k \in Keys : TryStart(a, k)
    BY <2>1 DEF TryStart, TryStartOf, IndInv, CallInv
  <2>2. CASE Acquire(a)
    BY <2>2 DEF Acquire
  <2>3. CASE LockTimeout(a)
    BY <2>3 DEF LockTimeout
  <2>4. CASE Read(a)
    <3>1. CASE call[a].op = "try_start" /\ Claimed(file, call[a].key)
      BY <2>4, <3>1 DEF Read
    <3>2. CASE ~(call[a].op = "try_start" /\ Claimed(file, call[a].key))
      BY <2>4, <3>2 DEF Read
    <3> QED
      BY <3>1, <3>2
  <2>5. CASE Trim(a)
    BY <2>5 DEF Trim
  <2>6. CASE ReleaseGranted(a)
    BY <2>6 DEF ReleaseGranted
  <2>7. CASE ReleaseDone(a)
    BY <2>7 DEF ReleaseDone
  <2>8. CASE ReleaseRetry(a)
    BY <2>8 DEF ReleaseRetry, IndInv, CallInv
  <2>9. CASE RunFails(a)
    BY <2>9 DEF RunFails, MarkOf
  <2> QED
    BY <2>1, <2>2, <2>3, <2>4, <2>5, <2>6, <2>7, <2>8, <2>9 DEF Lock, Release
<1>5. ASSUME NEW b \in Actors, b # a
      PROVE  /\ Granted(b)' <=> Granted(b)
             /\ \A s : Settling(b, s)' <=> Settling(b, s)
             /\ call'[b].key = call[b].key
  BY <1>3, <1>5 DEF Granted, Settling
<1> QED
  BY <1>1, <1>4, <1>5, TableStutter

(***************************************************************************)
(* Every step of the ledger is a step of the table or invisible in it.     *)
(***************************************************************************)
LEMMA TableStep ==
    LockIntact /\ IndInv /\ [Next]_vars => [Table!Next]_(Table!vars)
<1> SUFFICES ASSUME LockIntact, IndInv, [Next]_vars
             PROVE  [Table!Next]_(Table!vars)
  OBVIOUS
<1>1. ASSUME NEW a \in Actors, NEW k \in Keys, TryStart(a, k)
      PROVE  UNCHANGED Table!vars
  BY <1>1, TableSilent
<1>2. ASSUME NEW a \in Actors, Step(a) PROVE [Table!Next]_(Table!vars)
  BY <1>2, TableSilent, TableAppend, TableReplace, TableRunSucceeds
     DEF Step, Run
<1>3. ASSUME NEW h \in Hosts, Crash(h) PROVE Table!Next
  BY <1>3, TableCrash
<1>4. CASE UNCHANGED vars
  BY <1>4 DEF vars, files, ghosts, Table!vars, StatusBar, RunningBar,
              FinishedBar, Granted, Settling
<1> QED
  BY <1>1, <1>2, <1>3, <1>4 DEF Next

(***************************************************************************)
(* With the lock intact, the JSONL file, the lock file and the trim        *)
(* implement the atomic table, for any number of threads and processes,    *)
(* any keys and any retention limit, through crashes.                      *)
(***************************************************************************)
THEOREM LedgerImplementsTable ==
    ASSUME LockIntact PROVE Spec => ImplementsTable
<1>1. IndInv /\ [Next]_vars => [Table!Next]_(Table!vars)
  BY TableStep
<1> QED
  BY <1>1, TableInit, LedgerInvariant, PTL DEF Spec, Table!Spec, ImplementsTable

(***************************************************************************)
(* With the lock intact, the action of a key that was not evicted succeeds *)
(* at most once and is never run by two threads together: what the table   *)
(* promises, read back through the refinement mapping.                     *)
(***************************************************************************)
THEOREM LedgerSafety ==
    ASSUME LockIntact PROVE Spec => [](AtMostOnce /\ ExclusiveRun)
<1>1. Table!Spec => [](Table!AtMostOnce /\ Table!ExclusiveRun)
  BY Table!AtomicSafety
<1>2. Table!AtMostOnce => AtMostOnce
  BY DEF Table!AtMostOnce, AtMostOnce
<1>3. IndInv /\ Table!ExclusiveRun => ExclusiveRun
  <2> SUFFICES ASSUME IndInv, Table!ExclusiveRun,
                      NEW k \in Keys \ forgotten, NEW a \in Actors,
                      NEW b \in Actors,
                      phase[a] = "run", call[a].key = k,
                      phase[b] = "run", call[b].key = k
               PROVE  a = b
    BY DEF ExclusiveRun
  <2>1. a \in RunningBar[k] /\ b \in RunningBar[k]
    BY DEF RunningBar, Granted
  <2> QED
    BY <2>1 DEF Table!ExclusiveRun
<1> QED
  BY <1>1, <1>2, <1>3, LedgerInvariant, LedgerImplementsTable, PTL
     DEF ImplementsTable

(***************************************************************************)
(* The half of LedgerSafety about concurrency: two threads, of one process *)
(* or of two, that were both answered True for a key that was not evicted  *)
(* are never inside its action together.                                   *)
(***************************************************************************)
COROLLARY LedgerRunsAlone ==
    ASSUME LockIntact PROVE Spec => []ExclusiveRun
  BY LedgerSafety, PTL
=============================================================================
