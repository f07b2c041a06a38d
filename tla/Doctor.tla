------------------------------- MODULE Doctor -------------------------------
(***************************************************************************)
(* The JSON-lines files of the state directory, their writers (episodic    *)
(* memory, semantic memory, task history) and the doctor that repairs and  *)
(* compacts them (core/ops/doctor.py), with the maintenance jobs that run  *)
(* it and record its outcome in maintenance.json.                          *)
(*                                                                         *)
(* No file has a lock.  Appends are single steps; a rewrite in place       *)
(* (TaskStore, SemanticMemoryStore) truncates the file when it opens it    *)
(* and writes when it closes it; the doctor renames a new file over the    *)
(* old one after copying that to a backup named after the second.          *)
(***************************************************************************)
EXTENDS Naturals, FiniteSets, SequencesExt

CONSTANTS
    Actors,       \* threads of the API, of the worker, and doctor.py
    Artifacts,    \* the JSON-lines files, in the doctor's order
    Deduped,      \* those that are compacted by id
    Retention,    \* how many rows a compaction keeps of each; 0: all
    FactKeys,     \* keys of facts
    Starts,       \* contents of the files to start from
    StartIds,     \* the ids of rows in Starts are at most this
    Flags,        \* options of doctor.py: records [repair, compact]
    MaxTime,      \* bound on the clock, in seconds
    MaxRequests,  \* bound on the requests
    MaxOverlap,   \* bound on the requests that may overlap: the first ones
    MaxCrashes    \* bound on torn writes and dead processes

Files == Range(Artifacts)
Jobs == {"doctor_validate", "weekly_compact"}

\* A line is a valid row, is not valid, or is torn: not valid, and without
\* its end of line.
Rows == [id : Nat, kind : {"good", "bad", "torn"}, val : Nat]
Row(id, kind, val) == [id |-> id, kind |-> kind, val |-> val]
Good(row) == row.kind = "good"

\* Only the last line of a file lacks its end of line.
Lines == {rows \in Seq(Rows) :
            \A i \in DOMAIN rows : rows[i].kind = "torn" => i = Len(rows)}

ASSUME DoctorConstants ==
    /\ Artifacts \in Seq(Files)
    /\ {"semantic", "episodic", "tasks"} \subseteq Files
    /\ Deduped \subseteq Files
    /\ Retention \in [Files -> Nat]
    /\ Retention["tasks"] > 0 \* TaskStore: max(1, max_records)
    /\ FactKeys \subseteq Nat
    /\ Flags \subseteq [repair : BOOLEAN, compact : BOOLEAN]
    /\ StartIds \in Nat /\ MaxTime \in Nat
    /\ MaxRequests \in Nat /\ MaxOverlap \in Nat /\ MaxCrashes \in Nat

\* What the stores have left: one fact of a key, and no task line twice (the
\* values tell copies apart), none with an id that is still to come.
ASSUME DoctorStarts ==
    \A start \in Starts :
        /\ start \in [Files -> Lines]
        /\ \A i, j \in DOMAIN start["semantic"] :
              LET facts == start["semantic"]
              IN  Good(facts[i]) /\ Good(facts[j]) /\ facts[i].id = facts[j].id => i = j
        /\ \A i, j \in DOMAIN start["tasks"] : start["tasks"][i] = start["tasks"][j] => i = j
        /\ \A f \in Files : \A i \in DOMAIN start[f] : start[f][i].id <= StartIds

VARIABLES
    file,      \* the rows of each file
    backup,    \* backup[f][t]: the rows of <file>.bak.<t>, if there is one
    status,    \* maintenance.json: the last run of each job and its outcome
    now,       \* the clock, in seconds
    phase,     \* where each thread is inside its operation
    req,       \* the operation of each thread
    requests, crashes,  \* used up so far
    history,   \* ghost: every row that was written to each file, in order
    excused,   \* ghost: rows whose loss is accounted for (see NothingVanishes)
    collided,  \* ghost: files that were written while they were rewritten in place
    recorded,  \* ghost: the last outcome that each job has saved
    setBack    \* ghost: jobs whose outcome an overlapping save has undone

disk == <<file, backup>>
bounds == <<requests, crashes>>
ghosts == <<history, excused, collided, recorded, setBack>>
vars == <<disk, status, now, phase, req, bounds, ghosts>>

\* The valid rows, in the order of the file.
ValidRows(rows) ==
    FoldRight(LAMBDA row, valid : IF Good(row) THEN <<row>> \o valid ELSE valid, rows, <<>>)
InvalidCount(rows) == Len(rows) - Len(ValidRows(rows))

NoRun == [n |-> 0, ok |-> TRUE]
Idle == [op |-> "none", repair |-> FALSE, compact |-> FALSE, n |-> 0, key |-> 0,
         todo |-> <<>>, rows |-> <<>>, bad |-> 0, changed |-> FALSE,
         status |-> [j \in Jobs |-> NoRun],
         stale |-> FALSE, detached |-> FALSE, torn |-> FALSE]

Doctoring == {"read", "repair_backup", "repair_write", "compact_backup",
              "compact_write", "report"}
Rewriting == {"load", "truncate", "write"}
Phases == {"idle", "append", "load_status", "save_status", "episode"}
             \cup Doctoring \cup Rewriting

\* A thread that will write to f what it makes of the rows it has read.
Holds(a, f) ==
    /\ phase[a] \in (Doctoring \cup Rewriting) \ {"read", "load", "report"}
    /\ Head(req[a].todo) = f

Init ==
    /\ file \in Starts
    /\ backup = [f \in Files |-> [t \in 0..MaxTime |-> <<>>]]
    /\ status = [j \in Jobs |-> NoRun]
    /\ now = 0
    /\ phase = [a \in Actors |-> "idle"]
    /\ req = [a \in Actors |-> Idle]
    /\ requests = 0 /\ crashes = 0
    /\ history = file
    /\ excused = [f \in Files |-> {}]
    /\ collided = {}
    /\ recorded = status
    /\ setBack = {}

-----------------------------------------------------------------------------
(* Steps.                                                                  *)

Goto(a, p, r) ==
    /\ phase' = [phase EXCEPT ![a] = p]
    /\ req' = [req EXCEPT ![a] = r]

\* f changes: what the other threads have read of it is out of date.  A
\* rename leaves a thread that has the old file open with the old file.
GotoChanging(a, p, r, f, renamed, torn) ==
    /\ phase' = [phase EXCEPT ![a] = p]
    /\ req' = [b \in Actors |->
          IF b = a THEN r
          ELSE [req[b] EXCEPT !.stale = @ \/ Holds(b, f),
                              !.detached = @ \/ (renamed /\ Holds(b, f)
                                                         /\ phase[b] = "write"),
                              !.torn = @ \/ (torn /\ req[b].repair)]]

Begin(a, op, flags, key) ==
    LET n == requests + 1
    IN  /\ phase[a] = "idle"
        /\ requests < MaxRequests
        /\ requests < MaxOverlap \/ \A b \in Actors : phase[b] = "idle"
        /\ requests' = n
        /\ Goto(a, CASE op \in {"episode", "task"} -> "append"
                     [] op = "fact" -> "load"
                     [] OTHER -> "read",
                [Idle EXCEPT !.op = op, !.n = n, !.key = key,
                     !.repair = op = "doctor" /\ flags.repair,
                     !.compact = op = "weekly_compact" \/ (op = "doctor" /\ flags.compact),
                     !.todo = CASE op = "episode" -> <<"episodic">>
                                [] op = "task" -> <<"tasks">>
                                [] op = "fact" -> <<"semantic">>
                                [] OTHER -> Artifacts])
        /\ UNCHANGED <<disk, status, now, crashes, ghosts>>

Fresh(a) == Row(StartIds + req[a].n, "good", 0)

\* A mistaken form of Appended: the row gets a line of its own.
AppendedOnNewLine(rows, row) == Append(rows, row)

\* A row appended to a torn line makes one line with it, that is not valid.
Appended(rows, row) ==
    IF rows # <<>> /\ Last(rows).kind = "torn"
      THEN Append(Front(rows), [row EXCEPT !.kind = "bad"])
      ELSE Append(rows, row)

Append1(f, row) ==
    /\ file' = [file EXCEPT ![f] = Appended(@, row)]
    /\ history' = [history EXCEPT ![f] = Append(@, row)]
    /\ excused' = [excused EXCEPT ![f] = @ \cup
                     (Range(Append(file[f], row)) \ Range(Appended(file[f], row)))]

\* EpisodicMemoryStore.append
AppendEpisode(a) ==
    /\ phase[a] \in {"append", "episode"} /\ req[a].op # "task"
    /\ Append1("episodic", Fresh(a))
    /\ GotoChanging(a, "idle", Idle, "episodic", FALSE, FALSE)
    /\ UNCHANGED <<backup, status, now, bounds, collided, recorded, setBack>>

\* TaskStore.append, which goes on to trim
AppendTask(a) ==
    /\ phase[a] = "append" /\ req[a].op = "task"
    /\ Append1("tasks", Fresh(a))
    /\ GotoChanging(a, "load", req[a], "tasks", FALSE, FALSE)
    /\ UNCHANGED <<backup, status, now, bounds, collided, recorded, setBack>>

\* The process dies, or the disk is full, in the middle of the line.
AppendTorn(a) ==
    LET f == Head(req[a].todo)
        row == [Fresh(a) EXCEPT !.kind = "torn"]
    IN  /\ phase[a] = "append"
        /\ crashes < MaxCrashes
        /\ crashes' = crashes + 1
        /\ Append1(f, row)
        /\ GotoChanging(a, "idle", Idle, f, FALSE, TRUE)
        /\ UNCHANGED <<backup, status, now, requests, collided, recorded, setBack>>

-----------------------------------------------------------------------------
(* Rewriting in place: SemanticMemoryStore.upsert and TaskStore.trim.      *)

\* A mistaken form of Upserted: the fact is always added.
UpsertedTwice(rows, key, val) == Append(rows, Row(key, "good", val))

Upserted(rows, key, val) ==
    IF \E i \in DOMAIN rows : rows[i].id = key
      THEN LET i == CHOOSE i \in DOMAIN rows :
                      rows[i].id = key /\ \A j \in 1..(i - 1) : rows[j].id # key
           IN  [rows EXCEPT ![i].val = val]
      ELSE Append(rows, Row(key, "good", val))

LastRows(rows, n) == SubSeq(rows, IF Len(rows) > n THEN Len(rows) - n + 1 ELSE 1, Len(rows))

\* Another thread that rewrites f has truncated it.
Truncated(f) == \E b \in Actors : Holds(b, f) /\ phase[b] = "write"

\* _load_all skips what is not valid.  The trim stops here if there are no
\* more than max_records.
Load(a) ==
    LET f == Head(req[a].todo)
        rows == ValidRows(file[f])
    IN  /\ phase[a] = "load"
        /\ IF req[a].op = "fact"
             THEN Goto(a, "truncate", [req[a] EXCEPT !.stale = Truncated(f),
                          !.rows = Upserted(rows, req[a].key, req[a].n)])
           ELSE IF Len(rows) <= Retention[f] THEN Goto(a, "idle", Idle)
             ELSE Goto(a, "truncate", [req[a] EXCEPT !.stale = Truncated(f),
                          !.rows = LastRows(rows, Retention[f])])
        /\ UNCHANGED <<disk, status, now, bounds, ghosts>>

\* What a thread removes from f that has not read the latest rows of f, or
\* finds them out of order after a collision.
Dropped(a, old, new) ==
    IF req[a].stale \/ Head(req[a].todo) \in collided THEN Range(old) \ Range(new) ELSE {}

Truncate(a) ==
    LET f == Head(req[a].todo)
        fact == IF req[a].op = "fact" THEN <<Row(req[a].key, "good", req[a].n)>> ELSE <<>>
    IN  /\ phase[a] = "truncate"
        /\ file' = [file EXCEPT ![f] = <<>>]
        /\ history' = [history EXCEPT ![f] = @ \o fact]
        /\ excused' = [excused EXCEPT ![f] = @ \cup Dropped(a, file[f], req[a].rows)]
        /\ GotoChanging(a, "write", req[a], f, FALSE, FALSE)
        /\ UNCHANGED <<backup, status, now, bounds, collided, recorded, setBack>>

\* The text overwrites the lines that others have written since; the end of
\* a longer text outlives it, from somewhere inside a line.
Overwritten(old, new) ==
    {new} \cup {new \o SubSeq(old, k, Len(old)) : k \in 2..Len(old)}
          \cup {new \o <<[old[k] EXCEPT !.kind = IF k = Len(old) /\ @ = "torn"
                                                  THEN "torn" ELSE "bad"]>>
                    \o SubSeq(old, k + 1, Len(old)) : k \in DOMAIN old}

Write(a) ==
    LET f == Head(req[a].todo)
    IN  /\ phase[a] = "write"
        /\ \E rows \in IF req[a].detached THEN {file[f]} ELSE Overwritten(file[f], req[a].rows) :
              /\ file' = [file EXCEPT ![f] = rows]
              /\ excused' = [excused EXCEPT ![f] = @ \cup Dropped(a, file[f] \o req[a].rows, rows)]
              /\ GotoChanging(a, "idle", Idle, f, FALSE, InvalidCount(rows) > 0)
        /\ collided' = IF file[f] = <<>> THEN collided ELSE collided \cup {f}
        /\ UNCHANGED <<backup, status, now, bounds, history, recorded, setBack>>

-----------------------------------------------------------------------------
(* run_doctor, artifact by artifact.                                       *)

\* _compact_rows, backwards: the rows whose id was not seen yet.
DedupedRows(rows) ==
    LET Keep(kept, row) == IF \E i \in DOMAIN kept : kept[i].id = row.id
                             THEN kept ELSE <<row>> \o kept
    IN  FoldRight(LAMBDA row, kept : Keep(kept, row), rows, <<>>)

\* A mistaken form of CompactRows: the first copy of a row is kept.
CompactFirstRows(f, rows) ==
    LET deduped == IF f \in Deduped THEN Reverse(DedupedRows(Reverse(rows))) ELSE rows
    IN  IF Retention[f] > 0 THEN LastRows(deduped, Retention[f]) ELSE deduped

CompactRows(f, rows) ==
    LET deduped == IF f \in Deduped THEN DedupedRows(rows) ELSE rows
    IN  IF Retention[f] > 0 THEN LastRows(deduped, Retention[f]) ELSE deduped

\* The doctor goes on to its next artifact, or is done; a job saves how it
\* went.
NextArtifact(a, r) ==
    LET left == [r EXCEPT !.todo = Tail(@), !.rows = <<>>, !.changed = FALSE]
    IN  IF Len(r.todo) > 1 THEN Goto(a, "read", left)
        ELSE IF r.op \in Jobs THEN Goto(a, "load_status", left)
        ELSE Goto(a, "idle", Idle)

\* The phase after the repair, if there was one.
AfterRepair(a, r) ==
    IF r.compact /\ CompactRows(Head(r.todo), r.rows) # r.rows THEN "compact_backup"
    ELSE IF r.changed THEN "report" ELSE "read"

\* _jsonl_report: nothing to rewrite, or a rewrite follows.
Read(a) ==
    LET f == Head(req[a].todo)
        bad == InvalidCount(file[f])
        r == [req[a] EXCEPT !.rows = ValidRows(file[f]), !.stale = Truncated(f)]
    IN  /\ phase[a] = "read"
        /\ IF r.repair /\ bad > 0 THEN Goto(a, "repair_backup", r)
           ELSE IF AfterRepair(a, r) = "compact_backup" THEN Goto(a, "compact_backup", r)
           ELSE NextArtifact(a, [r EXCEPT !.bad = @ + bad])
        /\ UNCHANGED <<disk, status, now, bounds, ghosts>>

\* A mistaken form of Backup: the file is not copied.
BackupNothing(a) ==
    /\ phase[a] \in {"repair_backup", "compact_backup"}
    /\ Goto(a, IF phase[a] = "repair_backup" THEN "repair_write" ELSE "compact_write", req[a])
    /\ UNCHANGED <<disk, status, now, bounds, ghosts>>

\* shutil.copy2: a second backup in the same second replaces the first.
Backup(a) ==
    LET f == Head(req[a].todo)
    IN  /\ phase[a] \in {"repair_backup", "compact_backup"}
        /\ backup' = [backup EXCEPT ![f][now] = file[f]]
        /\ excused' = [excused EXCEPT ![f] = @ \cup (Range(backup[f][now]) \ Range(file[f]))]
        /\ Goto(a, IF phase[a] = "repair_backup" THEN "repair_write" ELSE "compact_write", req[a])
        /\ UNCHANGED <<file, status, now, bounds, history, collided, recorded, setBack>>

\* _write_jsonl_atomic
Replace(a, rows, p) ==
    LET f == Head(req[a].todo)
    IN  /\ file' = [file EXCEPT ![f] = rows]
        /\ excused' = [excused EXCEPT ![f] = @ \cup Dropped(a, file[f], rows)]
        /\ GotoChanging(a, p, [req[a] EXCEPT !.changed = TRUE, !.rows = rows], f, TRUE, FALSE)
        /\ UNCHANGED <<backup, status, now, bounds, history, collided, recorded, setBack>>

\* A mistaken form of RepairWrite: the lines that are not valid are kept.
RepairNothing(a) ==
    /\ phase[a] = "repair_write"
    /\ Replace(a, file[Head(req[a].todo)], AfterRepair(a, [req[a] EXCEPT !.changed = TRUE]))

RepairWrite(a) ==
    /\ phase[a] = "repair_write"
    /\ Replace(a, req[a].rows, AfterRepair(a, [req[a] EXCEPT !.changed = TRUE]))

CompactWrite(a) ==
    /\ phase[a] = "compact_write"
    /\ Replace(a, CompactRows(Head(req[a].todo), req[a].rows), "report")

\* The rewritten file is read again for the report.
Report(a) ==
    /\ phase[a] = "report"
    /\ NextArtifact(a, [req[a] EXCEPT !.bad = @ + InvalidCount(file[Head(req[a].todo)])])
    /\ UNCHANGED <<disk, status, now, bounds, ghosts>>

-----------------------------------------------------------------------------
(* The maintenance jobs, scheduled by the worker or asked for through the  *)
(* API or the web interface, save their outcome and write an episode.      *)

LoadStatus(a) ==
    /\ phase[a] = "load_status"
    /\ Goto(a, "save_status", [req[a] EXCEPT !.status = status])
    /\ UNCHANGED <<disk, status, now, bounds, ghosts>>

Outcome(a) ==
    [n |-> req[a].n, ok |-> req[a].op = "weekly_compact" \/ req[a].bad = 0]

\* A mistaken form of SaveStatus: the other job's outcome is left out.
SaveOwnStatus(a) ==
    LET job == req[a].op
    IN  /\ phase[a] = "save_status"
        /\ status' = [j \in Jobs |-> IF j = job THEN Outcome(a) ELSE NoRun]
        /\ recorded' = [recorded EXCEPT ![job] = Outcome(a)]
        /\ UNCHANGED setBack
        /\ Goto(a, "episode", [Idle EXCEPT !.op = job, !.n = req[a].n])
        /\ UNCHANGED <<disk, now, bounds, history, excused, collided>>

SaveStatus(a) ==
    LET job == req[a].op
        saved == [req[a].status EXCEPT ![job] = Outcome(a)]
        undone == {j \in Jobs \ {job} : status[j] # req[a].status[j]}
    IN  /\ phase[a] = "save_status"
        /\ status' = saved
        /\ recorded' = [recorded EXCEPT ![job] = Outcome(a)]
        /\ setBack' = (setBack \ {job}) \cup undone
        /\ Goto(a, "episode", [Idle EXCEPT !.op = job, !.n = req[a].n])
        /\ UNCHANGED <<disk, now, bounds, history, excused, collided>>

-----------------------------------------------------------------------------
Tick ==
    /\ now < MaxTime
    /\ now' = now + 1
    /\ UNCHANGED <<disk, status, phase, req, bounds, ghosts>>

\* Between the truncation and the write the rows are nowhere.
Crash(a) ==
    /\ phase[a] # "idle"
    /\ crashes < MaxCrashes
    /\ crashes' = crashes + 1
    /\ excused' = IF phase[a] # "write" THEN excused
                  ELSE [excused EXCEPT ![Head(req[a].todo)] = @ \cup Range(req[a].rows)]
    /\ Goto(a, "idle", Idle)
    /\ UNCHANGED <<disk, status, now, requests, history, collided, recorded, setBack>>

Request(a) ==
    \/ \E op \in {"episode", "task"} \cup Jobs : Begin(a, op, Idle, 0)
    \/ \E key \in FactKeys : Begin(a, "fact", Idle, key)
    \/ \E flags \in Flags : Begin(a, "doctor", flags, 0)

Step(a) ==
    \/ AppendEpisode(a) \/ AppendTask(a) \/ AppendTorn(a)
    \/ Load(a) \/ Truncate(a) \/ Write(a)
    \/ Read(a) \/ Backup(a) \/ RepairWrite(a) \/ CompactWrite(a) \/ Report(a)
    \/ LoadStatus(a) \/ SaveStatus(a)

Next == Tick \/ \E a \in Actors : Request(a) \/ Step(a) \/ Crash(a)

Spec == Init /\ [][Next]_vars

-----------------------------------------------------------------------------
(* Properties.                                                             *)

Runs == [n : Nat, ok : BOOLEAN]

(***************************************************************************)
(* The files, backups and threads have the values that the stores and the  *)
(* doctor give them; only the last line of a file lacks its end of line.   *)
(***************************************************************************)
TypeOK ==
    /\ file \in [Files -> Lines]
    /\ status \in [Jobs -> Runs]
    /\ now \in 0..MaxTime
    /\ phase \in [Actors -> Phases]
    /\ requests \in 0..MaxRequests
    /\ crashes \in 0..MaxCrashes

\* The threads that have truncated f and will write to it.
Writers(f) == {a \in Actors : phase[a] = "write" /\ Holds(a, f)}

\* The rows of f that are on disk, in the file or in a backup of it, or on
\* their way from a truncated file back into it.
Present(f) ==
    Range(file[f])
      \cup (UNION {Range(backup[f][t]) : t \in 0..MaxTime})
      \cup (UNION {Range(req[a].rows) : a \in Writers(f)})

(***************************************************************************)
(* No row that was written vanishes: it is in its file or in a backup,     *)
(* unless a newer value of the fact or enough newer tasks have taken its   *)
(* place.  A row can only be lost to a rewrite by a thread that read the   *)
(* file before it last changed, to a crash between truncating and writing, *)
(* to a second backup in the same second, or to a torn line it was         *)
(* appended to (README, "--repair / --compact always create backups").     *)
(* Lines that are not valid are kept like this too in the files that only  *)
(* the doctor rewrites.                                                    *)
(***************************************************************************)
NothingVanishes ==
    \A f \in Files : \A i \in DOMAIN history[f] :
        LET row == history[f][i]
        IN  \/ row \in Present(f) \cup excused[f]
            \/ f = "semantic" /\ \E j \in DOMAIN history[f] :
                                    j > i /\ history[f][j].id = row.id
            \/ f = "tasks" /\ Len(history[f]) - i >= Retention[f]
            \/ f # "episodic" /\ ~Good(row)

(***************************************************************************)
(* A compaction keeps exactly the newest copy of each id, in the order of  *)
(* the file, and of these the newest ones that the retention allows;       *)
(* compacting the result changes nothing.                                  *)
(***************************************************************************)
NewestCopiesSurvive ==
    \A a \in Actors : phase[a] \in {"compact_backup", "compact_write"} =>
        LET f == Head(req[a].todo)
            rows == req[a].rows
            kept == CompactRows(f, rows)
            newest == {i \in DOMAIN rows :
                         f \in Deduped => \A j \in (i + 1)..Len(rows) : rows[j].id # rows[i].id}
            within == {i \in newest : Retention[f] = 0
                          \/ Cardinality({j \in newest : j > i}) < Retention[f]}
        IN  /\ Len(kept) = Cardinality(within)
            /\ \A i \in within :
                  kept[Cardinality({j \in within : j <= i})] = rows[i]
            /\ CompactRows(f, kept) = kept

(***************************************************************************)
(* There is one fact of a key, whichever upserts overlap with each other   *)
(* and with a repair, unless two of them wrote into the same truncated     *)
(* file.                                                                   *)
(***************************************************************************)
OneFactPerKey ==
    "semantic" \notin collided =>
        LET facts == ValidRows(file["semantic"])
        IN  \A i, j \in DOMAIN facts : facts[i].id = facts[j].id => i = j

(***************************************************************************)
(* A repair leaves nothing for the doctor to complain of: it reports an    *)
(* invalid line only if one was written while it ran.                      *)
(***************************************************************************)
RepairHeals ==
    \A a \in Actors : req[a].repair /\ req[a].bad > 0 => req[a].torn

(***************************************************************************)
(* maintenance.json holds the latest outcome of both jobs, unless the job  *)
(* that ran last had loaded the file before the other one saved it.        *)
(***************************************************************************)
StatusIsLatest ==
    \A j \in Jobs : j \notin setBack => status[j] = recorded[j]
=============================================================================
