------------------------------- MODULE Rules -------------------------------
(***************************************************************************)
(* The rule engine (core/rules): rules.jsonl, the routes that edit it, the *)
(* evaluator that runs every few minutes or on request, and the actions of *)
(* a rule: notifications, and proposals that the execution ledger protects *)
(* (AtomicLedger, shown to be implemented by ExecutionLedger).             *)
(*                                                                         *)
(* An evaluation loads all rules once, works through them and saves each   *)
(* one with upsert, which loads, truncates and writes the file without a   *)
(* lock.  A rule is cut at every access to shared state.  What a connector *)
(* answers (its query, window, order and max_results) is any sequence of   *)
(* distinct items; a degraded or failing service answers none.             *)
(***************************************************************************)
EXTENDS Naturals, FiniteSets, Sequences

CONSTANTS
    Actors,       \* threads of the API and worker processes
    Hosts,        \* the processes
    HostOf,       \* the process of each thread
    RuleIds,      \* rule ids
    Items,        \* mail threads, calendar events, heartbeats
    NoItem,       \* no cursor yet
    NoRule,       \* no record of a rule
    TsOf,         \* the timestamp of each item; 0 for one that has none
    AllDay,       \* items whose timestamp is a date without a time zone
    Bodies,       \* what update_rule replaces: actions, condition, limits
    SeenMax,      \* state.seen_ids_max
    Policies,     \* the initial policies to consider
    Regimes,      \* which values of orderly to consider
    MaxTime,      \* bound on the clock, in minutes
    MaxRequests,  \* bound on the requests and scheduled evaluations, per regime
    MaxToggles,   \* bound on the changes of safe mode and policy, per regime
    MaxCrashes    \* bound on the crashes

\* An action is "notify" or the signature of a proposal.
Signatures == (UNION {{b.actions[i] : i \in DOMAIN b.actions} : b \in Bodies})
                 \ {"notify"}
Indices == UNION {DOMAIN b.actions : b \in Bodies}

ASSUME RulesConstants ==
    /\ HostOf \in [Actors -> Hosts]
    /\ RuleIds # {}
    /\ IsFiniteSet(Items) /\ NoItem \notin Items
    /\ TsOf \in [Items -> Nat]
    /\ AllDay \subseteq Items
    /\ \A b \in Bodies : /\ b.actions \in Seq({"notify"} \cup Signatures)
                         /\ b.matching \subseteq Items
                         /\ b.cooldown \in Nat /\ b.cap \in Nat
    /\ SeenMax \in Nat \ {0}
    /\ Policies \subseteq [safe : BOOLEAN, allowed : BOOLEAN, scope : BOOLEAN]
    /\ Regimes \subseteq BOOLEAN
    /\ MaxTime \in Nat /\ MaxRequests \in [BOOLEAN -> Nat]
    /\ MaxToggles \in [BOOLEAN -> Nat] /\ MaxCrashes \in Nat

VARIABLES
    file,      \* rules.jsonl: the record of each rule, or NoRule
    now,       \* the clock
    policy,    \* safe_mode.json and policy_overrides.json
    phase,     \* where each thread is inside its request
    ev,        \* the request each thread handles, its local variables
    requests, toggles, crashes,  \* used up so far
    orderly,   \* requests come one at a time and no process dies
    handled,   \* ghost: items an evaluation has recorded in the cursors
    told,      \* ghost: items of the notifications sent for each rule
    fired,     \* ghost: when each rule last acted and recorded it
    wanted,    \* ghost: what the last finished edit made of each rule
    clean,     \* ghost: every write was based on the file as it then was
    status, running, finished, done, forgotten  \* the ledger (AtomicLedger)

ledgerVars == <<status, running, finished, done, forgotten>>
counters == <<requests, toggles, crashes>>
ghosts == <<handled, told, fired, wanted, clean>>
vars == <<file, now, policy, phase, ev, counters, orderly, ghosts, ledgerVars>>

\* The keys of job_run_key and rule_action_key: a minute of the evaluator's
\* job; a rule, the index of an action, the first matching item and the
\* action's signature.
JobKeys == {<<t>> : t \in 0..MaxTime}
ActionKeys == RuleIds \X Indices \X Items \X Signatures
Ledger == INSTANCE AtomicLedger WITH Keys <- JobKeys \cup ActionKeys

Elements(s) == {s[i] : i \in DOMAIN s}
Stamped(m) == TsOf[m] > 0

Records == [on : BOOLEAN, body : Bodies, until : Nat, seen : Seq(Items),
            cursor : Items \cup {NoItem}]
Files == [RuleIds -> Records \cup {NoRule}]
EmptyFile == [r \in RuleIds |-> NoRule]
NewRule(b) ==
    [on |-> TRUE, body |-> b, until |-> 0, seen |-> <<>>, cursor |-> NoItem]

\* What an edit asks for: the rule is enabled or not, with a body, or gone.
Wishes == [on : BOOLEAN, body : Bodies \cup {NoRule}]
Gone == [on |-> FALSE, body |-> NoRule]

\* NoRule stands for None.
ASSUME NoRuleIsNone == NoRule \notin Records \cup Bodies \cup Wishes

Edits == {"create", "update", "enable", "disable", "delete", "reset"}
Evaluations == {"job", "evaluate_now"}
Ops == Edits \cup Evaluations
Acting == {"act", "claim", "policy", "create", "settle", "finish"}
Phases == {"idle", "job", "engine", "list", "pick", "mark_job",
           "get", "load", "truncate", "write"} \cup Acting

NoWork ==
    [op |-> "none", key |-> <<0>>, r |-> CHOOSE r \in RuleIds : TRUE,
     todo |-> EmptyFile, text |-> EmptyFile, rec |-> NoRule, at |-> 0,
     cands |-> <<>>, match |-> <<>>, i |-> 1,
     acted |-> {}, dup |-> {}, promised |-> {}, stale |-> FALSE,
     allowed |-> TRUE, scope |-> TRUE]

AllIdle == \A a \in Actors : phase[a] = "idle"

\* The file is truncated and not written yet.
Writing == \E a \in Actors : phase[a] = "write"

Init ==
    /\ file \in [RuleIds -> {NoRule} \cup {NewRule(b) : b \in Bodies}]
    /\ now = 0
    /\ policy \in Policies
    /\ phase = [a \in Actors |-> "idle"]
    /\ ev = [a \in Actors |-> NoWork]
    /\ requests = 0 /\ toggles = 0 /\ crashes = 0
    /\ orderly \in Regimes
    /\ handled = [r \in RuleIds |-> {}]
    /\ told = [r \in RuleIds |-> {}]
    /\ fired = [r \in RuleIds |-> {}]
    /\ wanted = [r \in RuleIds |-> IF file[r] = NoRule THEN NoRule
                                   ELSE [on |-> TRUE, body |-> file[r].body]]
    /\ clean = TRUE
    /\ Ledger!Init

-----------------------------------------------------------------------------
(* Steps within a request.                                                 *)

Goto(a, to, work) ==
    /\ phase' = [phase EXCEPT ![a] = to]
    /\ ev' = [ev EXCEPT ![a] = work]

Finish(a) == Goto(a, "idle", NoWork)

\* Nothing outside the thread changes.
Quiet == UNCHANGED <<file, now, policy, counters, orderly, ghosts, ledgerVars>>
QuietButLedger == UNCHANGED <<file, now, policy, counters, orderly, ghosts>>

\* A new rule has a fresh uuid4.
Fresh(r) ==
    /\ wanted[r] = NoRule
    /\ \A b \in Actors : ev[b].op = "create" => ev[b].r # r

FirstPhase ==
    [op \in Ops |-> CASE op \in {"create", "delete"} -> "load"
                      [] op \in Edits \ {"create", "delete"} -> "get"
                      [] op = "job" -> "job"
                      [] op = "evaluate_now" -> "engine"]

\* A route is called, or the scheduler starts the rules-evaluator job.
Begin(a, op, r, b) ==
    /\ phase[a] = "idle"
    /\ orderly => AllIdle
    /\ requests < MaxRequests[orderly]
    /\ IF op = "create" THEN Fresh(r) ELSE op \in Edits => wanted[r] # NoRule
    /\ op \in Evaluations => r = NoWork.r
    /\ op \notin {"create", "update"} => b = CHOOSE c \in Bodies : TRUE
    /\ requests' = requests + 1
    /\ Goto(a, FirstPhase[op],
            [NoWork EXCEPT !.op = op, !.r = r,
                           !.rec = IF op \in Edits THEN NewRule(b) ELSE NoRule])
    /\ UNCHANGED <<file, now, policy, toggles, crashes, orderly, ghosts,
                   ledgerVars>>

(* The edits: update_rule, set_enabled and reset_rule_state change the     *)
(* record they get and upsert it.                                          *)

\* A mistaken form of Edited: an update leaves the rule disabled.
EditedOff(op, rec, new) ==
    CASE op = "update" -> [rec EXCEPT !.body = new.body]
      [] op = "enable" -> [rec EXCEPT !.on = TRUE]
      [] op = "disable" -> [rec EXCEPT !.on = FALSE]
      [] op = "reset" -> [rec EXCEPT !.until = 0, !.seen = <<>>, !.cursor = NoItem]

Edited(op, rec, new) ==
    CASE op = "update" -> [rec EXCEPT !.on = new.on, !.body = new.body]
      [] op = "enable" -> [rec EXCEPT !.on = TRUE]
      [] op = "disable" -> [rec EXCEPT !.on = FALSE]
      [] op = "reset" -> [rec EXCEPT !.until = 0, !.seen = <<>>, !.cursor = NoItem]

Get(a) ==
    /\ phase[a] = "get"
    /\ IF file[ev[a].r] = NoRule
         THEN Finish(a)
         ELSE Goto(a, "load", [ev[a] EXCEPT !.stale = Writing,
                 !.rec = Edited(ev[a].op, file[ev[a].r], ev[a].rec)])
    /\ Quiet

(* The store: upsert and delete load the whole file and rewrite it.        *)

Upserted(a) ==
    [file EXCEPT ![ev[a].r] = IF ev[a].op = "delete" THEN NoRule ELSE ev[a].rec]

Load(a) ==
    /\ phase[a] = "load"
    /\ IF ev[a].op = "delete" /\ file[ev[a].r] = NoRule
         THEN Finish(a)
         ELSE Goto(a, "truncate", [ev[a] EXCEPT !.text = Upserted(a),
                 !.stale = Writing \/ (@ /\ ev[a].op \notin {"create", "delete"})])
    /\ Quiet

\* The thread changes the file: what the others have read is stale.
Outdated(a, work) ==
    [b \in Actors |-> IF b = a THEN work
                      ELSE [ev[b] EXCEPT !.stale = phase[b] # "idle"]]

\* _write_all opens the file with mode "w" ...
Truncate(a) ==
    /\ phase[a] = "truncate"
    /\ file' = EmptyFile
    /\ phase' = [phase EXCEPT ![a] = "write"]
    /\ ev' = Outdated(a, ev[a])
    /\ UNCHANGED <<now, policy, counters, orderly, ghosts, ledgerVars>>

\* ... and writes when it closes it; the last lines of a longer text that
\* another thread has written since may outlive it.
Written(a) ==
    LET longer == {r \in RuleIds : ev[a].text[r] = NoRule /\ file[r] # NoRule}
    IN  /\ \E kept \in SUBSET longer :
              file' = [r \in RuleIds |-> IF r \in kept THEN file[r]
                                                      ELSE ev[a].text[r]]
        /\ clean' = (clean /\ ~ev[a].stale)

WriteEdit(a) ==
    LET r == ev[a].r
        op == ev[a].op
    IN  /\ phase[a] = "write" /\ op \in Edits
        /\ Written(a)
        /\ phase' = [phase EXCEPT ![a] = "idle"]
        /\ ev' = Outdated(a, NoWork)
        /\ wanted' = [wanted EXCEPT ![r] =
              IF op = "delete" THEN Gone
              ELSE [on |-> IF op = "reset" THEN ev[a].rec.on ELSE op # "disable",
                    body |-> ev[a].rec.body]]
        /\ handled' = IF op = "reset" THEN [handled EXCEPT ![r] = {}] ELSE handled
        /\ told' = IF op = "reset" THEN [told EXCEPT ![r] = {}] ELSE told
        /\ fired' = IF op \in {"reset", "update"} THEN [fired EXCEPT ![r] = {}]
                                                  ELSE fired
        /\ UNCHANGED <<now, policy, counters, orderly, ledgerVars>>

\* run_rules_evaluation goes on to its next rule.
WriteEvaluated(a) ==
    /\ phase[a] = "write" /\ ev[a].op \in Evaluations
    /\ Written(a)
    /\ phase' = [phase EXCEPT ![a] = "pick"]
    /\ ev' = Outdated(a, [NoWork EXCEPT !.op = ev[a].op, !.key = ev[a].key,
                             !.todo = ev[a].todo, !.stale = ev[a].stale,
                             !.allowed = ev[a].allowed, !.scope = ev[a].scope])
    /\ UNCHANGED <<now, policy, counters, orderly, handled, told, fired, wanted,
                   ledgerVars>>

-----------------------------------------------------------------------------
(* run_rules_evaluation.                                                   *)

ClaimJob(a) ==
    /\ phase[a] = "job"
    /\ Ledger!Claim(a, <<now>>)
    /\ Goto(a, "engine", [ev[a] EXCEPT !.key = <<now>>])
    /\ QuietButLedger

DuplicateJob(a) ==
    /\ phase[a] = "job"
    /\ ~Ledger!Claimable(<<now>>)
    /\ Finish(a)
    /\ Quiet

\* RuleEngine.__init__ reads the rules' allowlist and the scopes, once.
BuildEngine(a) ==
    /\ phase[a] = "engine"
    /\ Goto(a, "list", [ev[a] EXCEPT !.allowed = policy.allowed, !.scope = policy.scope])
    /\ Quiet

\* list_all, the loop's "if not rule.enabled: continue" included
ListAll(a) ==
    /\ phase[a] = "list"
    /\ Goto(a, "pick", [ev[a] EXCEPT
          !.todo = [r \in RuleIds |-> IF file[r] # NoRule /\ file[r].on
                                        THEN file[r] ELSE NoRule],
          !.stale = Writing])
    /\ Quiet

\* No rule is left: mark the job.
EvaluatedAll(a) ==
    /\ phase[a] = "pick"
    /\ \A r \in RuleIds : ev[a].todo[r] = NoRule
    /\ IF ev[a].op = "job"
         THEN Ledger!Succeed(a, ev[a].key) /\ Goto(a, "mark_job", ev[a])
         ELSE UNCHANGED ledgerVars /\ Finish(a)
    /\ QuietButLedger

MarkJob(a) ==
    /\ phase[a] = "mark_job"
    /\ Ledger!MarkSucceeded(a, ev[a].key)
    /\ Finish(a)
    /\ QuietButLedger

\* upsert raises (a full disk): the job is marked failed.
SaveRaises(a) ==
    /\ phase[a] = "load" /\ ev[a].op \in Evaluations
    /\ ~orderly
    /\ crashes < MaxCrashes
    /\ crashes' = crashes + 1
    /\ IF ev[a].op = "job" THEN Ledger!MarkFailed(a, ev[a].key)
                           ELSE UNCHANGED ledgerVars
    /\ Finish(a)
    /\ UNCHANGED <<file, now, policy, requests, toggles, orderly, ghosts>>

-----------------------------------------------------------------------------
(* _evaluate_rule.                                                         *)

\* _is_cooldown_active
Cooling(rec) == rec.body.cooldown > 0 /\ rec.until > now

\* A date and a timestamp with a time zone cannot be compared (TypeError).
Clash(m, n) ==
    /\ m # NoItem /\ n # NoItem
    /\ Stamped(m) /\ Stamped(n)
    /\ (m \in AllDay) # (n \in AllDay)

\* _filter_new_items leaves out an item that is old.
IsOld(rec, m) ==
    \/ m \in Elements(rec.seen)
    \/ rec.cursor # NoItem /\ Stamped(m) /\ TsOf[m] <= TsOf[rec.cursor]

FilterRaises(rec, found) ==
    \E m \in Elements(found) \ Elements(rec.seen) : Clash(m, rec.cursor)

UpdateRaises(rec, cands) ==
    \E m, n \in Elements(cands) \cup {rec.cursor} : Clash(m, n)

\* The newest timestamp among the cursor and the candidates.
Newest(cursor, cands) ==
    LET stamped == {m \in Elements(cands) : Stamped(m)}
                      \cup (IF cursor = NoItem THEN {} ELSE {cursor})
    IN  IF stamped = {} THEN cursor
        ELSE CHOOSE m \in stamped : \A n \in stamped : TsOf[n] <= TsOf[m]

\* A mistaken form of Advanced: the seen ids are not cut.
AdvancedUncut(rec, cands) ==
    IF cands = <<>> THEN rec
    ELSE [rec EXCEPT !.seen = @ \o cands,
                     !.cursor = Newest(@, cands)]

\* A mistaken form of Advanced: the cursor is the last item, not the newest.
AdvancedToLast(rec, cands) ==
    LET all == rec.seen \o cands
    IN  IF cands = <<>> THEN rec
        ELSE [rec EXCEPT
                !.seen = SubSeq(all, IF Len(all) > SeenMax THEN Len(all) - SeenMax + 1
                                                           ELSE 1, Len(all)),
                !.cursor = cands[Len(cands)]]

\* _update_cursors
Advanced(rec, cands) ==
    LET all == rec.seen \o cands
    IN  IF cands = <<>> THEN rec
        ELSE [rec EXCEPT
                !.seen = SubSeq(all, IF Len(all) > SeenMax THEN Len(all) - SeenMax + 1
                                                           ELSE 1, Len(all)),
                !.cursor = Newest(rec.cursor, cands)]

\* A mistaken form of PlannedActions: the rules' allowlist is forgotten.
PlannedUnlisted(body) ==
    LET blocked(i) == body.actions[i] # "notify" /\ (policy.safe \/ ~policy.scope)
    IN  {i \in DOMAIN body.actions : i <= body.cap /\ ~blocked(i)}

\* plan_actions: the proposals and notifications a test of the rule promises.
\* The cap counts the blocked ones too.
PlannedActions(body) ==
    LET blocked(i) == /\ body.actions[i] # "notify"
                      /\ policy.safe \/ ~policy.allowed \/ ~policy.scope
    IN  {i \in DOMAIN body.actions : i <= body.cap /\ ~blocked(i)}

\* The rule is cooling down: only last_run_iso changes.
CooldownActive(a, r) ==
    /\ phase[a] = "pick"
    /\ ev[a].todo[r] # NoRule
    /\ Cooling(ev[a].todo[r])
    /\ Goto(a, "load", [ev[a] EXCEPT !.r = r, !.rec = ev[a].todo[r],
                                     !.todo[r] = NoRule])
    /\ Quiet

AfterActions(body, i, acted) ==
    IF i > Len(body.actions) \/ Cardinality(acted) >= body.cap THEN "finish" ELSE "act"

\* The answers of a connector.
Answers == {s \in UNION {[1..n -> Items] : n \in 0..Cardinality(Items)} :
               \A i, j \in DOMAIN s : s[i] = s[j] => i = j}

\* The loops of _filter_new_items and _matching_items keep, in the order of
\* the answer, the items of a set.
Selects(t, s, S) ==
    /\ Elements(t) = Elements(s) \cap S
    /\ \A i, j \in DOMAIN t, k, l \in DOMAIN s :
          i < j /\ t[i] = s[k] /\ t[j] = s[l] => k < l

Only(s, S) == CHOOSE t \in Answers : Selects(t, s, S)

FilterNewItems(rec, found) == Only(found, {m \in Items : ~IsOld(rec, m)})
MatchingItems(body, cands) == Only(cands, body.matching)

\* evaluate_rule_preview of a rule that is not cooling down
Preview(body, match) == IF match = <<>> THEN {} ELSE PlannedActions(body)

\* compute_matches; an exception ends the evaluation of the rule.
ComputeMatches(a, r, found) ==
    LET rec == ev[a].todo[r]
        cands == FilterNewItems(rec, found)
        match == MatchingItems(rec.body, cands)
        work == [ev[a] EXCEPT !.r = r, !.rec = rec, !.todo[r] = NoRule]
        fresh == ev[a].allowed = policy.allowed /\ ev[a].scope = policy.scope
    IN  /\ phase[a] = "pick"
        /\ rec # NoRule
        /\ ~Cooling(rec)
        /\ IF FilterRaises(rec, found)
             THEN Goto(a, "load", work)
             ELSE Goto(a, IF match = <<>> THEN "finish" ELSE AfterActions(rec.body, 1, {}),
                       [work EXCEPT !.at = now, !.cands = cands, !.match = match,
                           !.promised = IF fresh THEN Preview(rec.body, match) ELSE {}])
        /\ Quiet

Action(a) == ev[a].rec.body.actions[ev[a].i]
ActionKey(a) == <<ev[a].r, ev[a].i, ev[a].match[1], Action(a)>>

\* The loop goes on to the next action.
Advance(a, acted, dup) ==
    Goto(a, AfterActions(ev[a].rec.body, ev[a].i + 1, acted),
         [ev[a] EXCEPT !.i = @ + 1, !.acted = acted, !.dup = dup])

Notify(a) ==
    /\ phase[a] = "act" /\ Action(a) = "notify"
    /\ Advance(a, ev[a].acted \cup {ev[a].i}, ev[a].dup)
    /\ Quiet

ProposeSafeMode(a) ==
    /\ phase[a] = "act" /\ Action(a) # "notify"
    /\ policy.safe
    /\ Advance(a, ev[a].acted, ev[a].dup)
    /\ Quiet

ProposeNotSafeMode(a) ==
    /\ phase[a] = "act" /\ Action(a) # "notify"
    /\ ~policy.safe
    /\ Goto(a, "claim", ev[a])
    /\ Quiet

Claim(a) ==
    /\ phase[a] = "claim"
    /\ Ledger!Claim(a, ActionKey(a))
    /\ Goto(a, "policy", ev[a])
    /\ QuietButLedger

Deduped(a) ==
    /\ phase[a] = "claim"
    /\ ~Ledger!Claimable(ActionKey(a))
    /\ Advance(a, ev[a].acted, ev[a].dup \cup {ev[a].i})
    /\ Quiet

PolicyDenied(a) ==
    /\ phase[a] = "policy"
    /\ ~ev[a].allowed \/ ~ev[a].scope
    /\ Ledger!MarkFailed(a, ActionKey(a))
    /\ Advance(a, ev[a].acted, ev[a].dup)
    /\ QuietButLedger

PolicyAllowed(a) ==
    /\ phase[a] = "policy"
    /\ ev[a].allowed /\ ev[a].scope
    /\ Goto(a, "create", ev[a])
    /\ Quiet

\* The items of the notifications the rule has sent.
Notified(a) ==
    IF \E i \in ev[a].acted : ev[a].rec.body.actions[i] = "notify"
      THEN Elements(ev[a].match) ELSE {}

\* A mistaken form of CreateRaises: the cursors are updated all the same.
CreateRaisesAfterCursors(a) ==
    /\ phase[a] = "create"
    /\ policy.safe \/ ~policy.scope
    /\ Ledger!MarkFailed(a, ActionKey(a))
    /\ Goto(a, "load", [ev[a] EXCEPT !.rec = Advanced(@, ev[a].cands)])
    /\ told' = [told EXCEPT ![ev[a].r] = @ \cup Notified(a)]
    /\ UNCHANGED <<file, now, policy, counters, orderly, handled, fired, wanted, clean>>

\* create_pending checks safe mode and the scopes again and raises: the rest
\* of the evaluation of the rule, the cursors included, is skipped.
CreateRaises(a) ==
    /\ phase[a] = "create"
    /\ policy.safe \/ ~policy.scope
    /\ Ledger!MarkFailed(a, ActionKey(a))
    /\ Goto(a, "load", ev[a])
    /\ told' = [told EXCEPT ![ev[a].r] = @ \cup Notified(a)]
    /\ UNCHANGED <<file, now, policy, counters, orderly, handled, fired, wanted, clean>>

CreatePending(a) ==
    /\ phase[a] = "create"
    /\ ~policy.safe /\ policy.scope
    /\ Ledger!Succeed(a, ActionKey(a))
    /\ Goto(a, "settle", ev[a])
    /\ QuietButLedger

\* A mistaken form of Settle: the proposal is recorded as failed.
SettleAsFailed(a) ==
    /\ phase[a] = "settle"
    /\ status' = [status EXCEPT ![ActionKey(a)] = "failed"]
    /\ finished' = [finished EXCEPT ![ActionKey(a)] = @ \ {a}]
    /\ UNCHANGED <<running, done, forgotten>>
    /\ Advance(a, ev[a].acted \cup {ev[a].i}, ev[a].dup)
    /\ QuietButLedger

Settle(a) ==
    /\ phase[a] = "settle"
    /\ Ledger!MarkSucceeded(a, ActionKey(a))
    /\ Advance(a, ev[a].acted \cup {ev[a].i}, ev[a].dup)
    /\ QuietButLedger

\* A mistaken form of Cooled: only proposals count as actions.
CooledByProposal(a) ==
    LET body == ev[a].rec.body
    IN  IF body.cooldown > 0 /\ \E i \in ev[a].acted : body.actions[i] # "notify"
          THEN [ev[a].rec EXCEPT !.until = ev[a].at + body.cooldown]
          ELSE ev[a].rec

Cooled(a) ==
    LET body == ev[a].rec.body
    IN  IF body.cooldown > 0 /\ ev[a].acted # {}
          THEN [ev[a].rec EXCEPT !.until = ev[a].at + body.cooldown]
          ELSE ev[a].rec

\* last_match_iso, cooldown and cursors; the cursors may raise.
Conclude(a) ==
    LET r == ev[a].r
        raises == UpdateRaises(ev[a].rec, ev[a].cands)
        rec == IF raises THEN Cooled(a) ELSE Advanced(Cooled(a), ev[a].cands)
        lost == {m \in Items : ~Stamped(m) /\ m \notin Elements(rec.seen)}
    IN  /\ phase[a] = "finish"
        /\ Goto(a, "load", [ev[a] EXCEPT !.rec = rec])
        /\ handled' = [handled EXCEPT ![r] =
              IF raises THEN @ ELSE (@ \cup Elements(ev[a].cands)) \ lost]
        /\ told' = [told EXCEPT ![r] =
              IF raises THEN @ \cup Notified(a) ELSE (@ \cup Notified(a)) \ lost]
        /\ fired' = IF ev[a].acted = {} THEN fired
                    ELSE [fired EXCEPT ![r] = {ev[a].at}]
        /\ UNCHANGED <<file, now, policy, counters, orderly, wanted, clean, ledgerVars>>

-----------------------------------------------------------------------------
(* The world around the requests.                                          *)

Tick ==
    /\ now < MaxTime
    /\ now' = now + 1
    /\ UNCHANGED <<file, policy, phase, ev, counters, orderly, ghosts, ledgerVars>>

\* The operator switches safe mode, the rules' allowlist or a scope.
Toggle(field) ==
    /\ toggles < MaxToggles[orderly]
    /\ toggles' = toggles + 1
    /\ policy' = [policy EXCEPT ![field] = ~@]
    /\ ev' = [a \in Actors |-> [ev[a] EXCEPT !.promised = {}]]
    /\ UNCHANGED <<file, now, phase, requests, crashes, orderly, ghosts, ledgerVars>>

\* A process dies; its threads vanish, the files stay as they are.
ThreadsOf(h) == {a \in Actors : HostOf[a] = h}

Crash(h) ==
    /\ ~orderly
    /\ crashes < MaxCrashes
    /\ \E a \in ThreadsOf(h) : phase[a] # "idle"
    /\ crashes' = crashes + 1
    /\ phase' = [a \in Actors |-> IF HostOf[a] = h THEN "idle" ELSE phase[a]]
    /\ ev' = [a \in Actors |-> IF HostOf[a] = h THEN NoWork ELSE ev[a]]
    /\ clean' = (clean /\ \A a \in ThreadsOf(h) : phase[a] # "write")
    /\ Ledger!Die(ThreadsOf(h))
    /\ UNCHANGED <<file, now, policy, requests, toggles, orderly,
                   handled, told, fired, wanted>>

Edit(a) == Get(a) \/ Load(a) \/ Truncate(a) \/ WriteEdit(a)

Evaluate(a) ==
    \/ ClaimJob(a) \/ DuplicateJob(a) \/ BuildEngine(a) \/ ListAll(a) \/ EvaluatedAll(a)
    \/ MarkJob(a) \/ SaveRaises(a) \/ WriteEvaluated(a)

EvaluateRule(a) ==
    \/ \E r \in RuleIds : CooldownActive(a, r)
    \/ \E r \in RuleIds, found \in Answers : ComputeMatches(a, r, found)
    \/ Notify(a) \/ ProposeSafeMode(a) \/ ProposeNotSafeMode(a)
    \/ Claim(a) \/ Deduped(a) \/ PolicyDenied(a) \/ PolicyAllowed(a)
    \/ CreateRaises(a) \/ CreatePending(a) \/ Settle(a) \/ Conclude(a)

Next ==
    \/ \E a \in Actors, op \in Ops, r \in RuleIds, b \in Bodies : Begin(a, op, r, b)
    \/ \E a \in Actors : Edit(a) \/ Evaluate(a) \/ EvaluateRule(a)
    \/ Tick
    \/ \E field \in {"safe", "allowed", "scope"} : Toggle(field)
    \/ \E h \in Hosts : Crash(h)

Spec == Init /\ [][Next]_vars

-----------------------------------------------------------------------------
(* Properties.                                                             *)

(***************************************************************************)
(* Rule records are what schemas.py allows, with at most seen_ids_max seen *)
(* ids, and the threads and the ledger have the values that the engine,    *)
(* the evaluator and the store give them.                                  *)
(***************************************************************************)
TypeOK ==
    /\ file \in Files
    /\ \A r \in RuleIds : file[r] # NoRule => Len(file[r].seen) <= SeenMax
    /\ now \in 0..MaxTime
    /\ policy \in [safe : BOOLEAN, allowed : BOOLEAN, scope : BOOLEAN]
    /\ phase \in [Actors -> Phases]
    /\ requests \in 0..MaxRequests[orderly]
    /\ toggles \in 0..MaxToggles[orderly]
    /\ crashes \in 0..MaxCrashes
    /\ orderly \in Regimes
    /\ Ledger!TypeOK

(***************************************************************************)
(* A rule proposes an action for an item at most once, and the scheduled   *)
(* evaluation of a minute completes at most once, whatever evaluations     *)
(* overlap, whichever save of rules.jsonl is lost, whenever a rule is      *)
(* reset and whenever a process dies (README, "Idempotency and replay      *)
(* safety").                                                               *)
(***************************************************************************)
OncePerKey == \A k \in JobKeys \cup ActionKeys : done[k] <= 1

(***************************************************************************)
(* What a test of the rule promises (plan_actions) is what an evaluation   *)
(* at that moment does, unless the ledger has it already or the policy has *)
(* changed since the evaluation read it.                                   *)
(***************************************************************************)
PreviewIsKept ==
    \A a \in Actors : phase[a] = "finish" =>
        ev[a].promised \subseteq ev[a].acted \cup ev[a].dup

(***************************************************************************)
(* When evaluations do not overlap, a notification never tells of an item  *)
(* that an earlier notification of the rule told of and whose evaluation   *)
(* recorded it in the cursors, unless the rule was reset or an item        *)
(* without a timestamp has left the seen ids.                              *)
(***************************************************************************)
NotifiedOnce ==
    orderly => \A a \in Actors : phase[a] \in Acting =>
        Notified(a) \cap told[ev[a].r] \cap handled[ev[a].r] = {}

(***************************************************************************)
(* After a rule has acted, it does not act again before its cooldown is    *)
(* over, unless it was reset or edited (README, "cooldown_minutes blocks   *)
(* repeated firing").                                                      *)
(***************************************************************************)
CooldownSpacing ==
    orderly => \A a \in Actors : phase[a] \in Acting /\ ev[a].acted # {} =>
        \A t \in fired[ev[a].r] : ev[a].at >= t + ev[a].rec.body.cooldown

(***************************************************************************)
(* Nothing is skipped: an item the rule will not look at any more was      *)
(* handled by an evaluation, or its timestamp is not after that of one     *)
(* that was.  A cooldown, a degraded service or a failed evaluation uses   *)
(* nothing up.                                                             *)
(***************************************************************************)
SkippedOnlyIfOvertaken ==
    orderly /\ AllIdle =>
        \A r \in RuleIds, m \in Items :
            file[r] # NoRule /\ IsOld(file[r], m) =>
                \/ m \in handled[r]
                \/ Stamped(m) /\ \E n \in handled[r] : TsOf[m] <= TsOf[n]

(***************************************************************************)
(* Evaluations undo no edit: the file holds what the last finished edit of *)
(* each rule asked for, unless a thread has written what it read before    *)
(* another one changed the file, or died while the file was truncated.     *)
(***************************************************************************)
EditSurvives ==
    clean /\ AllIdle =>
        \A r \in RuleIds :
            IF wanted[r] \in {NoRule, Gone} THEN file[r] = NoRule
            ELSE /\ file[r] # NoRule
                 /\ wanted[r] = [on |-> file[r].on, body |-> file[r].body]

(***************************************************************************)
(* A notification never tells of an item again (README, "This prevents     *)
(* duplicate notifications ... across periodic evaluations").              *)
(***************************************************************************)
NoDuplicateNotification ==
    orderly => \A a \in Actors : phase[a] \in Acting =>
        Notified(a) \cap told[ev[a].r] = {}
=============================================================================
