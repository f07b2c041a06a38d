---------------------------- MODULE RulesProofs ----------------------------
(***************************************************************************)
(* Proofs about Rules, for every number of threads, processes, rules,      *)
(* bodies and items, every policy and both regimes.                        *)
(***************************************************************************)
EXTENDS Rules, FiniteSetTheorems, SequenceTheorems,
        WellFoundedInduction, TLAPS

-----------------------------------------------------------------------------
(* Sequences of items.                                                     *)

(***************************************************************************)
(* Every non-empty set of natural numbers has a least element: what the    *)
(* proofs by induction on the length of an answer rest on.                 *)
(***************************************************************************)
LEMMA LeastNat ==
    ASSUME NEW T \in SUBSET Nat, T # {}
    PROVE  \E n \in T : \A m \in T : n <= m
<1> DEFINE R == OpToRel(<, Nat)
<1>1. IsWellFoundedOn(R, Nat)
  BY NatLessThanWellFounded
<1>2. \A x, y \in Nat : y < x => <<y, x>> \in R
  BY DEF OpToRel
<1> HIDE DEF R
<1>3. PICK n \in T : \A m \in T : ~(<<m, n>> \in R)
  BY <1>1, WFMin
<1>4. ASSUME NEW m \in T PROVE n <= m
  <2>1. n \in Nat /\ m \in Nat /\ ~(m < n)
    BY <1>2, <1>3
  <2> QED BY <2>1
<1> QED BY <1>4

(***************************************************************************)
(* The elements of a sequence of items, with another item at its end, and  *)
(* of two sequences in a row.                                              *)
(***************************************************************************)
LEMMA ElementsOfAppend ==
    ASSUME NEW s \in Seq(Items), NEW x \in Items
    PROVE  Elements(Append(s, x)) = Elements(s) \cup {x}
<1>1. \A i \in DOMAIN s : i \in DOMAIN Append(s, x) /\ Append(s, x)[i] = s[i]
  OBVIOUS
<1>2. Len(s) + 1 \in DOMAIN Append(s, x) /\ Append(s, x)[Len(s) + 1] = x
  OBVIOUS
<1>3. \A i \in DOMAIN Append(s, x) : i \in DOMAIN s \/ i = Len(s) + 1
  OBVIOUS
<1> QED
  BY <1>1, <1>2, <1>3 DEF Elements

LEMMA ElementsOfConcat ==
    ASSUME NEW s \in Seq(Items), NEW t \in Seq(Items)
    PROVE  Elements(s \o t) = Elements(s) \cup Elements(t)
<1>1. \A i \in DOMAIN s : i \in DOMAIN (s \o t) /\ (s \o t)[i] = s[i]
  OBVIOUS
<1>2. \A i \in DOMAIN t : /\ Len(s) + i \in DOMAIN (s \o t)
                          /\ (s \o t)[Len(s) + i] = t[i]
  OBVIOUS
<1>3. \A i \in DOMAIN (s \o t) :
          i \in DOMAIN s \/ \E j \in DOMAIN t : i = Len(s) + j
  <2> TAKE i \in DOMAIN (s \o t)
  <2>1. CASE i <= Len(s)
    BY <2>1
  <2>2. CASE i > Len(s)
    <3>1. i - Len(s) \in DOMAIN t /\ i = Len(s) + (i - Len(s))
      BY <2>2
    <3> QED BY <3>1
  <2> QED BY <2>1, <2>2
<1>4. Elements(s) \cup Elements(t) \subseteq Elements(s \o t)
  BY <1>1, <1>2 DEF Elements
<1>5. ASSUME NEW m \in Elements(s \o t) PROVE m \in Elements(s) \cup Elements(t)
  <2>1. PICK i \in DOMAIN (s \o t) : m = (s \o t)[i]
    BY DEF Elements
  <2>2. CASE i \in DOMAIN s
    BY <1>1, <2>1, <2>2 DEF Elements
  <2>3. CASE \E j \in DOMAIN t : i = Len(s) + j
    BY <1>2, <2>1, <2>3 DEF Elements
  <2> QED BY <1>3, <2>2, <2>3
<1> QED
  BY <1>4, <1>5

(***************************************************************************)
(* A connector's answer is a sequence of distinct items.                   *)
(***************************************************************************)
LEMMA AnswersAreSequences ==
    \A s : s \in Answers <=> /\ s \in Seq(Items) /\ Len(s) \in 0..Cardinality(Items)
                             /\ \A i, j \in DOMAIN s : s[i] = s[j] => i = j
<1>1. Cardinality(Items) \in Nat
  BY RulesConstants, FS_CardinalityType
<1>2. ASSUME NEW s \in Answers
      PROVE  s \in Seq(Items) /\ Len(s) \in 0..Cardinality(Items)
  BY <1>1 DEF Answers
<1>3. ASSUME NEW s \in Seq(Items), Len(s) \in 0..Cardinality(Items)
      PROVE  \E n \in 0..Cardinality(Items) : s \in [1..n -> Items]
  BY <1>3
<1> QED
  BY <1>2, <1>3 DEF Answers

(***************************************************************************)
(* The loops of _filter_new_items and _matching_items have a result,       *)
(* whatever the answer and the items to keep: the items of an answer that  *)
(* lie in a set, in the answer's order, by induction on the length of the  *)
(* answer.                                                                 *)
(***************************************************************************)
LEMMA SelectionExists ==
    ASSUME NEW s \in Answers, NEW S
    PROVE  \E t \in Answers : Selects(t, s, S)
<1> DEFINE Sel(t, u) == t \in Answers /\ Len(t) <= Len(u) /\ Selects(t, u, S)
           Bad == {n \in Nat : \E u \in Answers : Len(u) = n /\ ~\E t : Sel(t, u)}
<1>1. SUFFICES ASSUME Bad # {} PROVE FALSE
  BY AnswersAreSequences
<1>2. PICK n \in Bad : \A m \in Bad : n <= m
  BY <1>1, LeastNat
<1>3. PICK u \in Answers : Len(u) = n /\ ~\E t : Sel(t, u)
  BY <1>2
<1>4. /\ n \in Nat /\ n \in 0..Cardinality(Items) /\ Cardinality(Items) \in Nat
      /\ u \in Seq(Items) /\ DOMAIN u = 1..n
      /\ \A i, j \in 1..n : u[i] = u[j] => i = j
  <2>1. u \in Seq(Items) /\ \A i, j \in DOMAIN u : u[i] = u[j] => i = j
    BY AnswersAreSequences
  <2>2. Cardinality(Items) \in Nat
    BY RulesConstants, FS_CardinalityType
  <2> QED
    BY <2>1, <2>2, <1>3, AnswersAreSequences
<1>5. CASE n = 0
  <2>1. u = <<>> /\ <<>> \in Answers
    BY <1>3, <1>4, <1>5, AnswersAreSequences
  <2>2. Sel(<<>>, u)
    BY <2>1 DEF Selects, Elements
  <2> QED BY <1>3, <2>2
<1>6. CASE n > 0
  <2> DEFINE v == SubSeq(u, 1, n - 1)
             x == u[n]
  <2>1. /\ v \in Seq(Items) /\ Len(v) = n - 1 /\ x \in Items /\ x = u[n]
        /\ DOMAIN v = 1..(n - 1) /\ DOMAIN u = 1..n
        /\ \A i \in 1..(n - 1) : v[i] = u[i]
    BY <1>3, <1>4, <1>6
  <2>2. u = Append(v, x)
    <3>1. Append(v, x) \in Seq(Items) /\ Len(Append(v, x)) = n
      BY <2>1
    <3>2. \A i \in 1..n : Append(v, x)[i] = u[i]
      BY <2>1
    <3> QED
      BY <3>1, <3>2, <1>3, <1>4, SeqEqual
  <2> HIDE DEF v, x
  <2>3. v \in Answers
    <3>1. \A i, j \in DOMAIN v : v[i] = v[j] => i = j
      BY <2>1, <1>4
    <3>2. Len(v) \in 0..Cardinality(Items)
      BY <2>1, <1>4, <1>6
    <3> QED
      BY <2>1, <3>1, <3>2, AnswersAreSequences
  <2>4. PICK t : Sel(t, v)
    <3>1. n - 1 \in Nat /\ n - 1 \notin Bad
      BY <1>2, <1>6
    <3> QED BY <2>1, <2>3, <3>1
  <2>5. t \in Seq(Items) /\ Elements(t) = Elements(v) \cap S
    BY <2>4, AnswersAreSequences DEF Selects
  <2>6. Elements(u) = Elements(v) \cup {x} /\ x \notin Elements(v)
    <3>1. x \notin Elements(v)
      BY <2>1, <1>4, <1>6 DEF Elements
    <3> QED
      BY <2>1, <2>2, <3>1, ElementsOfAppend
  <2>7. CASE x \notin S
    <3>1. Elements(t) = Elements(u) \cap S
      BY <2>5, <2>6, <2>7
    <3>2. ASSUME NEW i \in DOMAIN t, NEW j \in DOMAIN t, NEW k \in DOMAIN u,
                 NEW l \in DOMAIN u, i < j, t[i] = u[k], t[j] = u[l]
          PROVE  k < l
      <4>1. t[i] \in Elements(v) /\ t[j] \in Elements(v)
        BY <2>5 DEF Elements
      <4>2. k \in DOMAIN v /\ l \in DOMAIN v
        BY <4>1, <3>2, <2>1, <2>6
      <4>3. v[k] = u[k] /\ v[l] = u[l]
        BY <4>2, <2>1
      <4> QED
        BY <3>2, <4>2, <4>3, <2>4 DEF Selects
    <3> QED
      BY <1>3, <2>1, <2>4, <3>1, <3>2 DEF Selects
  <2>8. CASE x \in S
    <3> DEFINE w == Append(t, x)
    <3>1. Elements(w) = Elements(u) \cap S
      BY <2>1, <2>5, <2>6, <2>8, ElementsOfAppend
    <3>2. /\ w \in Seq(Items) /\ Len(w) = Len(t) + 1 /\ Len(t) \in Nat
          /\ DOMAIN t = 1..Len(t) /\ DOMAIN w = 1..(Len(t) + 1)
          /\ \A i \in 1..Len(t) : w[i] = t[i]
          /\ w[Len(t) + 1] = x
      BY <2>1, <2>5
    <3>3. \A i \in 1..Len(t) : t[i] \in Elements(v)
      BY <2>5, <3>2 DEF Elements
    <3> HIDE DEF w
    <3>4. w \in Answers
      <4>1. \A i, j \in 1..Len(t) : t[i] = t[j] => i = j
        BY <2>4, <2>5, <3>2, AnswersAreSequences
      <4>2. \A i, j \in DOMAIN w : w[i] = w[j] => i = j
        BY <4>1, <3>3, <3>2, <2>6
      <4>3. Len(w) \in 0..Cardinality(Items)
        BY <3>2, <2>4, <2>1, <1>4
      <4> QED
        BY <4>2, <4>3, <3>2, AnswersAreSequences
    <3>5. ASSUME NEW i \in DOMAIN w, NEW j \in DOMAIN w, NEW k \in DOMAIN u,
                 NEW l \in DOMAIN u, i < j, w[i] = u[k], w[j] = u[l]
          PROVE  k < l
      <4>1. i \in 1..Len(t) /\ w[i] = t[i] /\ t[i] \in Elements(v)
        BY <3>3, <3>2, <3>5
      <4>2. k \in DOMAIN v /\ v[k] = u[k]
        BY <4>1, <3>5, <2>1, <2>6
      <4>3. CASE j = Len(t) + 1
        <5>1. l = n
          BY <4>3, <3>2, <3>5, <2>1, <2>6, <1>4, <1>6
        <5> QED BY <5>1, <4>2, <2>1
      <4>4. CASE j \in 1..Len(t)
        <5>1. l \in DOMAIN v /\ v[l] = u[l]
          BY <4>4, <3>3, <3>2, <3>5, <2>1, <2>6
        <5> QED
          BY <5>1, <4>1, <4>2, <4>4, <3>2, <3>5, <2>4, <2>5 DEF Selects
      <4> QED BY <4>3, <4>4, <3>2
    <3>6. Selects(w, u, S)
      BY <3>1, <3>5 DEF Selects
    <3>7. Len(w) <= Len(u)
      BY <1>3, <1>4, <2>1, <2>4, <3>2
    <3> QED
      BY <1>3, <3>4, <3>6, <3>7
  <2> QED BY <2>7, <2>8
<1> QED
  BY <1>2, <1>5, <1>6

(***************************************************************************)
(* What the loops keep are answers, too: distinct items of their input.    *)
(***************************************************************************)
LEMMA OnlySelects ==
    ASSUME NEW s \in Answers, NEW S
    PROVE  Only(s, S) \in Answers /\ Elements(Only(s, S)) = Elements(s) \cap S
<1>1. Only(s, S) \in Answers /\ Selects(Only(s, S), s, S)
  BY SelectionExists DEF Only
<1> QED
  BY <1>1 DEF Selects

(***************************************************************************)
(* Among some items one has the latest timestamp, by induction on their    *)
(* number.                                                                 *)
(***************************************************************************)
LEMMA LatestExists ==
    ASSUME NEW M \in SUBSET Items, M # {}
    PROVE  \E m \in M : \A n \in M : TsOf[n] <= TsOf[m]
<1> DEFINE HasLatest(X) == \E m \in X : \A n \in X : TsOf[n] <= TsOf[m]
           Bad == {n \in Nat : \E X \in SUBSET Items :
                        X # {} /\ Cardinality(X) = n /\ ~HasLatest(X)}
<1>1. \A X \in SUBSET Items : IsFiniteSet(X) /\ Cardinality(X) \in Nat
  BY RulesConstants, FS_Subset, FS_CardinalityType
<1>2. SUFFICES ASSUME Bad # {} PROVE FALSE
  BY <1>1
<1>3. PICK n \in Bad : \A k \in Bad : n <= k
  BY <1>2, LeastNat
<1>4. PICK X \in SUBSET Items : X # {} /\ Cardinality(X) = n /\ ~HasLatest(X)
  BY <1>3
<1>5. PICK x \in X : TRUE
  BY <1>4
<1>6. X \ {x} \in SUBSET Items /\ Cardinality(X \ {x}) < n /\ n \in Nat
  <2>1. IsFiniteSet(X) /\ Cardinality(X) \in Nat /\ x \in X
    BY <1>1, <1>5
  <2>2. Cardinality(X \ {x}) = Cardinality(X) - 1
    BY <2>1, FS_RemoveElement
  <2> QED
    BY <1>4, <2>1, <2>2
<1>7. CASE X \ {x} = {}
  BY <1>4, <1>7, RulesConstants
<1>8. CASE X \ {x} # {}
  <2>1. HasLatest(X \ {x})
    <3>1. Cardinality(X \ {x}) \in Nat /\ Cardinality(X \ {x}) \notin Bad
      <4> HIDE DEF Bad
      <4> QED
        BY <1>1, <1>3, <1>6
    <3> HIDE DEF HasLatest
    <3> QED
      BY <1>6, <1>8, <3>1
  <2>2. PICK y \in X \ {x} : \A m \in X \ {x} : TsOf[m] <= TsOf[y]
    BY <2>1
  <2>3. \A m \in X : TsOf[m] \in Nat
    BY RulesConstants
  <2>4. CASE TsOf[x] <= TsOf[y]
    BY <1>4, <2>2, <2>4
  <2>5. CASE TsOf[y] < TsOf[x]
    <3>1. \A m \in X : TsOf[m] <= TsOf[x]
      BY <2>2, <2>3, <2>5
    <3> QED BY <1>4, <3>1
  <2> QED BY <2>2, <2>3, <2>4, <2>5
<1> QED BY <1>7, <1>8

(***************************************************************************)
(* The cursor that _update_cursors stores is the old one or a candidate    *)
(* with a timestamp, and no candidate's timestamp, nor the old cursor's,   *)
(* is after its own.                                                       *)
(***************************************************************************)
LEMMA NewestCursor ==
    ASSUME NEW cursor \in Items \cup {NoItem}, NEW cands \in Seq(Items)
    PROVE  LET new == Newest(cursor, cands)
           IN  /\ new \in Items \cup {NoItem}
               /\ new = cursor \/ (new \in Elements(cands) /\ Stamped(new))
               /\ \A m \in Elements(cands) :
                     Stamped(m) => new # NoItem /\ TsOf[m] <= TsOf[new]
               /\ cursor # NoItem => new # NoItem /\ TsOf[cursor] <= TsOf[new]
<1> DEFINE stamped == {m \in Elements(cands) : Stamped(m)}
                          \cup (IF cursor = NoItem THEN {} ELSE {cursor})
<1>1. Elements(cands) \in SUBSET Items
  BY DEF Elements
<1>2. stamped \in SUBSET Items
  BY <1>1
<1>3. Newest(cursor, cands) =
          IF stamped = {} THEN cursor
          ELSE CHOOSE m \in stamped : \A n \in stamped : TsOf[n] <= TsOf[m]
  BY DEF Newest
<1>4. CASE stamped = {}
  <2>1. cursor = NoItem /\ \A m \in Elements(cands) : ~Stamped(m)
    BY <1>4
  <2>2. Newest(cursor, cands) = cursor
    BY <1>3, <1>4
  <2> QED
    BY <2>1, <2>2
<1>5. CASE stamped # {}
  <2>1. /\ Newest(cursor, cands) \in stamped
        /\ \A n \in stamped : TsOf[n] <= TsOf[Newest(cursor, cands)]
    BY <1>2, <1>3, <1>5, LatestExists
  <2>2. Newest(cursor, cands) \in Items /\ Newest(cursor, cands) # NoItem
    BY <1>2, <2>1, RulesConstants
  <2>3. cursor # NoItem => cursor \in stamped
    OBVIOUS
  <2>4. \A m \in Elements(cands) : Stamped(m) => m \in stamped
    OBVIOUS
  <2>5. \A m \in stamped : m = cursor \/ (m \in Elements(cands) /\ Stamped(m))
    OBVIOUS
  <2> HIDE DEF stamped
  <2> QED BY <2>1, <2>2, <2>3, <2>4, <2>5
<1> QED BY <1>4, <1>5

-----------------------------------------------------------------------------
(* Types.                                                                  *)

\* A record that the store may hold: at most seen_ids_max seen ids.
Stored == {rec \in Records : Len(rec.seen) <= SeenMax}
StoredFiles == [RuleIds -> Stored \cup {NoRule}]

Works ==
    [op : Ops \cup {"none"}, key : JobKeys, r : RuleIds,
     todo : StoredFiles, text : StoredFiles, rec : Stored \cup {NoRule}, at : Nat,
     cands : Seq(Items), match : Seq(Items), i : Nat,
     acted : SUBSET Nat, dup : SUBSET Nat, promised : SUBSET Nat,
     stale : BOOLEAN, allowed : BOOLEAN, scope : BOOLEAN]

\* Phases in which a thread works on an action of its rule.
AtAction == {"act", "claim", "policy", "create", "settle"}

\* Phases of an evaluation that is not inside a rule.
Starting == {"job", "engine", "list", "pick"}

\* A thread has what its phase works on: an editable record, a rule that
\* matched, an action of it, a proposal.
LocatedAt(p, w) ==
    /\ p \in Starting => w.i = 1 /\ w.acted = {} /\ w.dup = {}
    /\ p = "get" => w.op \in Edits \ {"create", "delete"} /\ w.rec \in Stored
    /\ p \in Acting => w.rec \in Stored
    /\ p \in AtAction => w.i \in DOMAIN w.rec.body.actions /\ w.match # <<>>
    /\ p \in AtAction \ {"act"} => w.rec.body.actions[w.i] # "notify"

ThreadInv ==
    /\ phase \in [Actors -> Phases]
    /\ ev \in [Actors -> Works]
    /\ \A a \in Actors : LocatedAt(phase[a], ev[a])

WorldTypes ==
    /\ file \in StoredFiles
    /\ now \in 0..MaxTime
    /\ policy \in [safe : BOOLEAN, allowed : BOOLEAN, scope : BOOLEAN]
    /\ requests \in 0..MaxRequests[orderly]
    /\ toggles \in 0..MaxToggles[orderly]
    /\ crashes \in 0..MaxCrashes
    /\ orderly \in Regimes

RuleInv == WorldTypes /\ ThreadInv

(***************************************************************************)
(* The records that the routes and the engine make are records.            *)
(***************************************************************************)
LEMMA RecordTypes ==
    /\ NoWork \in Works /\ NoWork.op = "none" /\ NoWork.i = 1
    /\ NoWork.acted = {} /\ NoWork.dup = {}
    /\ \A b \in Bodies : NewRule(b) \in Stored
    /\ EmptyFile \in StoredFiles
    /\ \A op \in Edits \ {"create", "delete"}, rec, new \in Stored :
          Edited(op, rec, new) \in Stored
<1>1. \A b \in Bodies : NewRule(b) \in Stored
  BY RulesConstants DEF NewRule, Stored, Records
<1>2. EmptyFile \in StoredFiles
  BY DEF EmptyFile, StoredFiles
<1>3. (CHOOSE r \in RuleIds : TRUE) \in RuleIds
  BY RulesConstants
<1>4. <<0>> \in JobKeys
  BY RulesConstants DEF JobKeys
<1>5. NoWork \in Works /\ NoWork.op = "none" /\ NoWork.i = 1
    /\ NoWork.acted = {} /\ NoWork.dup = {}
  BY <1>2, <1>3, <1>4 DEF NoWork, Works
<1>6. ASSUME NEW op \in Edits \ {"create", "delete"}, NEW rec \in Stored,
             NEW new \in Stored
      PROVE  Edited(op, rec, new) \in Stored
  <2>1. CASE op = "update"
    BY <2>1 DEF Edited, Stored, Records
  <2>2. CASE op = "enable"
    BY <2>2 DEF Edited, Stored, Records
  <2>3. CASE op = "disable"
    BY <2>3 DEF Edited, Stored, Records
  <2>4. CASE op = "reset"
    <3>1. <<>> \in Seq(Items) /\ Len(<<>>) = 0
      BY EmptySeq
    <3>2. Edited(op, rec, new) =
              [on |-> rec.on, body |-> rec.body, until |-> 0, seen |-> <<>>,
               cursor |-> NoItem]
      BY <2>4 DEF Edited, Stored, Records
    <3> QED
      BY <3>1, <3>2, RulesConstants DEF Stored, Records
  <2> QED
    BY <2>1, <2>2, <2>3, <2>4 DEF Edits
<1> QED
  BY <1>1, <1>2, <1>5, <1>6

(***************************************************************************)
(* _update_cursors and the cooldown keep a record storable; only the       *)
(* cooldown's end changes, then the seen ids and the cursor.               *)
(***************************************************************************)
LEMMA AdvancedType ==
    ASSUME NEW rec \in Stored, NEW cands \in Seq(Items)
    PROVE  Advanced(rec, cands) \in Stored
<1> DEFINE all == rec.seen \o cands
           first == IF Len(all) > SeenMax THEN Len(all) - SeenMax + 1 ELSE 1
           seen == SubSeq(all, first, Len(all))
<1>1. all \in Seq(Items)
  BY DEF Stored, Records
<1>2. seen \in Seq(Items) /\ Len(seen) <= SeenMax
  <2>1. Len(all) \in Nat /\ SeenMax \in Nat \ {0}
    BY <1>1, RulesConstants
  <2> HIDE DEF all
  <2>2. first \in 1..(Len(all) + 1) /\ Len(all) - first + 1 <= SeenMax
    BY <2>1
  <2> HIDE DEF first
  <2>3. seen \in Seq(Items)
    BY <1>1, <2>2
  <2>4. Len(seen) = IF first <= Len(all) THEN Len(all) - first + 1 ELSE 0
    BY <1>1, <2>1, <2>2
  <2> QED
    BY <2>1, <2>2, <2>3, <2>4
<1>3. Newest(rec.cursor, cands) \in Items \cup {NoItem}
  BY NewestCursor DEF Stored, Records
<1>4. CASE cands = <<>>
  BY <1>4 DEF Advanced
<1>5. CASE cands # <<>>
  <2>1. Advanced(rec, cands) =
            [rec EXCEPT !.seen = seen, !.cursor = Newest(rec.cursor, cands)]
    BY <1>5 DEF Advanced
  <2> HIDE DEF seen
  <2> QED
    BY <1>2, <1>3, <2>1 DEF Stored, Records
<1> QED BY <1>4, <1>5

(***************************************************************************)
(* The cooldown changes the record's end of cooldown only.                 *)
(***************************************************************************)
LEMMA CooledType ==
    ASSUME NEW a \in Actors, ev[a] \in Works, ev[a].rec \in Stored
    PROVE  Cooled(a) \in Stored
<1> DEFINE rec == ev[a].rec
           until == ev[a].at + rec.body.cooldown
<1>1. rec \in Stored /\ rec.body \in Bodies /\ until \in Nat
  <2>1. rec.body \in Bodies /\ ev[a].at \in Nat
    BY DEF Works, Stored, Records
  <2> QED
    BY <2>1, RulesConstants
<1>2. Cooled(a) \in {rec, [rec EXCEPT !.until = until]}
  BY DEF Cooled
<1> HIDE DEF rec, until
<1> QED
  BY <1>1, <1>2 DEF Stored, Records

(***************************************************************************)
(* What the filters leave of an answer are answers.                        *)
(***************************************************************************)
LEMMA FilterTypes ==
    ASSUME NEW rec \in Stored, NEW found \in Answers
    PROVE  /\ FilterNewItems(rec, found) \in Answers
           /\ MatchingItems(rec.body, FilterNewItems(rec, found)) \in Answers
  BY OnlySelects DEF FilterNewItems, MatchingItems

(***************************************************************************)
(* The actions that plan_actions promises are actions of the body.         *)
(***************************************************************************)
LEMMA PreviewType ==
    ASSUME NEW b \in Bodies, NEW match
    PROVE  Preview(b, match) \in SUBSET Nat
  BY RulesConstants DEF Preview, PlannedActions

(***************************************************************************)
(* The loop over the actions is at an action of the body or at its end.    *)
(***************************************************************************)
LEMMA AfterActionsType ==
    ASSUME NEW b \in Bodies, NEW n \in Nat \ {0}, NEW acted
    PROVE  \/ AfterActions(b, n, acted) = "finish"
           \/ AfterActions(b, n, acted) = "act" /\ n \in DOMAIN b.actions
  BY RulesConstants DEF AfterActions

(***************************************************************************)
(* A thread that goes where its work is located keeps the invariant of the *)
(* threads.                                                                *)
(***************************************************************************)
LEMMA GotoThread ==
    ASSUME ThreadInv, NEW a \in Actors, NEW to \in Phases, NEW work \in Works,
           LocatedAt(to, work), Goto(a, to, work)
    PROVE  ThreadInv'
  BY DEF Goto, ThreadInv

(***************************************************************************)
(* A thread that ends its request keeps the invariant of the threads.      *)
(***************************************************************************)
LEMMA FinishThread ==
    ASSUME ThreadInv, NEW a \in Actors, Finish(a)
    PROVE  ThreadInv'
<1>1. "idle" \in Phases /\ LocatedAt("idle", NoWork)
  BY DEF Phases, LocatedAt, Acting, AtAction, Starting
<1> QED
  BY <1>1, RecordTypes, GotoThread DEF Finish

(***************************************************************************)
(* The loop over the actions goes on to the next action of the rule or to  *)
(* its end.                                                                *)
(***************************************************************************)
LEMMA AdvanceThread ==
    ASSUME ThreadInv, NEW a \in Actors, phase[a] \in AtAction,
           NEW acted \in SUBSET Nat, NEW dup \in SUBSET Nat,
           Advance(a, acted, dup)
    PROVE  ThreadInv'
<1> DEFINE n == ev[a].i + 1
           work == [ev[a] EXCEPT !.i = n, !.acted = acted, !.dup = dup]
           to == AfterActions(ev[a].rec.body, n, acted)
<1>1. /\ ev[a] \in Works /\ n \in Nat \ {0} /\ ev[a].rec \in Stored
      /\ ev[a].match # <<>> /\ ev[a].rec.body \in Bodies
  <2>1. /\ ev[a] \in Works /\ ev[a].rec \in Stored /\ ev[a].match # <<>>
        /\ ev[a].i \in Nat
    BY DEF ThreadInv, LocatedAt, AtAction, Acting, Starting, Works
  <2> QED
    BY <2>1 DEF Stored, Records
<1>2. to = "finish" \/ (to = "act" /\ n \in DOMAIN ev[a].rec.body.actions)
  BY <1>1, AfterActionsType
<1>3. Goto(a, to, work)
  BY DEF Advance
<1> HIDE DEF n
<1>4. work \in Works
  BY <1>1 DEF Works
<1>5. work.i = n /\ work.rec = ev[a].rec /\ work.match = ev[a].match
  BY <1>1 DEF Works
<1> HIDE DEF work, to
<1>6. to \in Phases /\ LocatedAt(to, work)
  BY <1>1, <1>2, <1>5 DEF LocatedAt, AtAction, Acting, Starting, Phases
<1> QED
  BY <1>3, <1>4, <1>6, GotoThread

(***************************************************************************)
(* A write of the file makes what the other threads have read stale, and   *)
(* changes nothing else of their work.                                     *)
(***************************************************************************)
LEMMA OutdatedThread ==
    ASSUME ThreadInv, NEW a \in Actors, NEW to \in Phases, NEW work \in Works,
           LocatedAt(to, work), phase' = [phase EXCEPT ![a] = to],
           ev' = Outdated(a, work)
    PROVE  ThreadInv'
<1>1. ASSUME NEW b \in Actors, b # a
      PROVE  ev'[b] \in Works /\ LocatedAt(phase'[b], ev'[b])
  <2> DEFINE st == (phase[b] # "idle")
  <2>1. ev'[b] = [ev[b] EXCEPT !.stale = st] /\ phase'[b] = phase[b]
    BY <1>1 DEF Outdated, ThreadInv
  <2>2. ev[b] \in Works /\ st \in BOOLEAN /\ LocatedAt(phase[b], ev[b])
    BY DEF ThreadInv
  <2> HIDE DEF st
  <2>3. /\ ev'[b] \in Works /\ ev'[b].op = ev[b].op /\ ev'[b].rec = ev[b].rec
        /\ ev'[b].i = ev[b].i /\ ev'[b].match = ev[b].match
    BY <2>1, <2>2 DEF Works
  <2> QED
    BY <2>1, <2>2, <2>3 DEF LocatedAt
<1>2. ev'[a] = work /\ phase'[a] = to
  BY DEF Outdated, ThreadInv
<1>3. DOMAIN ev' = Actors /\ ev' = [b \in Actors |-> ev'[b]]
  BY DEF Outdated
<1> QED
  BY <1>1, <1>2, <1>3 DEF ThreadInv

(***************************************************************************)
(* The files and the counters keep their types.                            *)
(***************************************************************************)
LEMMA WorldTypesStep == RuleInv /\ [Next]_vars => WorldTypes'
<1> SUFFICES ASSUME RuleInv, [Next]_vars PROVE WorldTypes'
  OBVIOUS
<1> USE RulesConstants
    DEF RuleInv, WorldTypes, Quiet, QuietButLedger, counters, ghosts
<1>1. ASSUME NEW a \in Actors, NEW op \in Ops, NEW r \in RuleIds, NEW b \in Bodies,
             Begin(a, op, r, b)
      PROVE  WorldTypes'
  BY <1>1 DEF Begin
<1>2. ASSUME NEW a \in Actors, Truncate(a) PROVE WorldTypes'
  BY <1>2, RecordTypes DEF Truncate
<1>3. ASSUME NEW a \in Actors, WriteEdit(a) \/ WriteEvaluated(a) PROVE WorldTypes'
  <2>1. ev[a].text \in StoredFiles
    BY DEF ThreadInv, Works
  <2>2. file' \in StoredFiles
    BY <1>3, <2>1, ZenonT(40) DEF WriteEdit, WriteEvaluated, Written, StoredFiles
  <2> QED
    BY <1>3, <2>2 DEF WriteEdit, WriteEvaluated
<1>4. ASSUME NEW a \in Actors, SaveRaises(a) PROVE WorldTypes'
  BY <1>4 DEF SaveRaises
<1>5. CASE Tick
  BY <1>5 DEF Tick
<1>6. ASSUME NEW field \in {"safe", "allowed", "scope"}, Toggle(field)
      PROVE  WorldTypes'
  <2>1. (~policy[field]) \in BOOLEAN
    <3>1. policy[field] \in BOOLEAN
      BY <1>6
    <3> QED BY <3>1
  <2>2. \A v \in BOOLEAN : [policy EXCEPT ![field] = v]
                             \in [safe : BOOLEAN, allowed : BOOLEAN, scope : BOOLEAN]
    BY <1>6
  <2>3. policy' \in [safe : BOOLEAN, allowed : BOOLEAN, scope : BOOLEAN]
    BY <1>6, <2>1, <2>2 DEF Toggle
  <2>4. /\ toggles < MaxToggles[orderly] /\ toggles' = toggles + 1
        /\ UNCHANGED <<file, now, requests, crashes, orderly>>
    BY <1>6 DEF Toggle
  <2>5. toggles' \in 0..MaxToggles[orderly]
    BY <2>4
  <2> QED
    BY <2>3, <2>4, <2>5
<1>7. ASSUME NEW h \in Hosts, Crash(h) PROVE WorldTypes'
  BY <1>7, SMTT(30) DEF Crash
<1>8. ASSUME NEW a \in Actors,
             \/ Get(a) \/ Load(a) \/ ClaimJob(a) \/ DuplicateJob(a) \/ BuildEngine(a)
             \/ ListAll(a) \/ EvaluatedAll(a) \/ MarkJob(a) \/ EvaluateRule(a)
      PROVE  WorldTypes'
  BY <1>8 DEF Get, Load, ClaimJob, DuplicateJob, BuildEngine, ListAll, EvaluatedAll,
              MarkJob, EvaluateRule, CooldownActive, ComputeMatches, Notify,
              ProposeSafeMode, ProposeNotSafeMode, Claim, Deduped, PolicyDenied,
              PolicyAllowed, CreateRaises, CreatePending, Settle, Conclude
<1>9. CASE UNCHANGED vars
  BY <1>9 DEF vars
<1> QED
  BY <1>1, <1>2, <1>3, <1>4, <1>5, <1>6, <1>7, <1>8, <1>9 DEF Next, Edit, Evaluate

(***************************************************************************)
(* Every step of a thread leaves it located.                               *)
(***************************************************************************)
LEMMA ThreadInvStep == RuleInv /\ [Next]_vars => ThreadInv'
<1> SUFFICES ASSUME RuleInv, [Next]_vars PROVE ThreadInv'
  OBVIOUS
<1> USE DEF RuleInv
<1>0. \A a \in Actors : ev[a] \in Works /\ LocatedAt(phase[a], ev[a])
  BY DEF ThreadInv
<1>1. ASSUME NEW a \in Actors, NEW op \in Ops, NEW r \in RuleIds, NEW b \in Bodies,
             Begin(a, op, r, b)
      PROVE  ThreadInv'
  <2> DEFINE rec == IF op \in Edits THEN NewRule(b) ELSE NoRule
             work == [NoWork EXCEPT !.op = op, !.r = r, !.rec = rec]
  <2>1. Goto(a, FirstPhase[op], work)
    BY <1>1 DEF Begin
  <2>2. rec \in Stored \cup {NoRule} /\ (op \in Edits => rec \in Stored)
    BY RecordTypes
  <2> HIDE DEF rec
  <2>3. /\ work \in Works /\ work.op = op /\ work.rec = rec
        /\ work.i = 1 /\ work.acted = {} /\ work.dup = {}
    BY <2>2, RecordTypes DEF Works
  <2> HIDE DEF work
  <2>4. FirstPhase[op] \in {"load", "get", "job", "engine"}
        /\ (FirstPhase[op] = "get" => op \in Edits \ {"create", "delete"})
    BY DEF FirstPhase, Ops, Edits, Evaluations
  <2>5. FirstPhase[op] \in Phases /\ LocatedAt(FirstPhase[op], work)
    BY <2>2, <2>3, <2>4 DEF Phases, LocatedAt, Acting, AtAction, Starting
  <2> QED
    BY <2>1, <2>3, <2>5, GotoThread
<1>2. ASSUME NEW a \in Actors, Get(a) PROVE ThreadInv'
  <2>1. CASE file[ev[a].r] = NoRule
    BY <1>2, <2>1, FinishThread DEF Get
  <2>2. CASE file[ev[a].r] # NoRule
    <3> DEFINE rec == Edited(ev[a].op, file[ev[a].r], ev[a].rec)
               st == Writing
               work == [ev[a] EXCEPT !.stale = st, !.rec = rec]
    <3>1. Goto(a, "load", work)
      BY <1>2, <2>2 DEF Get
    <3>2. file[ev[a].r] \in Stored
      BY <1>0, <2>2 DEF WorldTypes, StoredFiles, Works
    <3>3. rec \in Stored /\ st \in BOOLEAN
      BY <1>0, <1>2, <3>2, RecordTypes DEF Get, LocatedAt, Writing
    <3> HIDE DEF rec, st
    <3>4. work \in Works
      BY <1>0, <3>3 DEF Works
    <3> HIDE DEF work
    <3>5. "load" \in Phases /\ LocatedAt("load", work)
      BY DEF Phases, LocatedAt, Acting, AtAction, Starting
    <3> QED
      BY <3>1, <3>4, <3>5, GotoThread
  <2> QED BY <2>1, <2>2
<1>3. ASSUME NEW a \in Actors, Load(a) PROVE ThreadInv'
  <2>1. CASE ev[a].op = "delete" /\ file[ev[a].r] = NoRule
    BY <1>3, <2>1, FinishThread DEF Load
  <2>2. CASE ~(ev[a].op = "delete" /\ file[ev[a].r] = NoRule)
    <3> DEFINE st == Writing \/ (ev[a].stale /\ ev[a].op \notin {"create", "delete"})
               text == Upserted(a)
               work == [ev[a] EXCEPT !.text = text, !.stale = st]
    <3>1. Goto(a, "truncate", work)
      BY <1>3, <2>2 DEF Load
    <3>2. text \in StoredFiles
      BY <1>0 DEF WorldTypes, StoredFiles, Works, Upserted
    <3>3. st \in BOOLEAN
      OBVIOUS
    <3> HIDE DEF text, st
    <3>4. work \in Works
      BY <1>0, <3>2, <3>3 DEF Works
    <3> HIDE DEF work
    <3>5. "truncate" \in Phases /\ LocatedAt("truncate", work)
      BY DEF Phases, LocatedAt, Acting, AtAction, Starting
    <3> QED
      BY <3>1, <3>4, <3>5, GotoThread
  <2> QED BY <2>1, <2>2
<1>4. ASSUME NEW a \in Actors, Truncate(a) PROVE ThreadInv'
  <2>1. "write" \in Phases /\ LocatedAt("write", ev[a])
    BY DEF Phases, LocatedAt, Acting, AtAction, Starting
  <2> QED
    BY <1>0, <1>4, <2>1, OutdatedThread DEF Truncate
<1>5. ASSUME NEW a \in Actors, WriteEdit(a) PROVE ThreadInv'
  <2>1. "idle" \in Phases /\ LocatedAt("idle", NoWork)
    BY DEF Phases, LocatedAt, Acting, AtAction, Starting
  <2> QED
    BY <1>5, <2>1, RecordTypes, OutdatedThread DEF WriteEdit
<1>6. ASSUME NEW a \in Actors, WriteEvaluated(a) PROVE ThreadInv'
  <2> DEFINE work == [NoWork EXCEPT !.op = ev[a].op, !.key = ev[a].key,
                             !.todo = ev[a].todo, !.stale = ev[a].stale,
                             !.allowed = ev[a].allowed, !.scope = ev[a].scope]
  <2>1. work \in Works /\ work.i = 1 /\ work.acted = {} /\ work.dup = {}
    BY <1>0, RecordTypes DEF Works
  <2>2. phase' = [phase EXCEPT ![a] = "pick"] /\ ev' = Outdated(a, work)
    BY <1>6 DEF WriteEvaluated
  <2> HIDE DEF work
  <2>3. "pick" \in Phases /\ LocatedAt("pick", work)
    BY <2>1 DEF Phases, LocatedAt, Acting, AtAction, Starting
  <2> QED
    BY <2>1, <2>2, <2>3, OutdatedThread
<1>7. ASSUME NEW a \in Actors, ClaimJob(a) PROVE ThreadInv'
  <2> DEFINE k == <<now>>
             work == [ev[a] EXCEPT !.key = k]
  <2>1. Goto(a, "engine", work)
    BY <1>7 DEF ClaimJob
  <2>2. k \in JobKeys
    BY DEF JobKeys, WorldTypes
  <2> HIDE DEF k
  <2>3. work \in Works /\ work.i = 1 /\ work.acted = {} /\ work.dup = {}
    BY <1>0, <1>7, <2>2, SMTT(30) DEF Works, LocatedAt, Starting, ClaimJob
  <2> HIDE DEF work
  <2>4. "engine" \in Phases /\ LocatedAt("engine", work)
    BY <2>3 DEF Phases, LocatedAt, Acting, AtAction, Starting
  <2> QED
    BY <2>1, <2>3, <2>4, GotoThread
<1>8. ASSUME NEW a \in Actors, DuplicateJob(a) \/ MarkJob(a) \/ SaveRaises(a)
      PROVE  ThreadInv'
  BY <1>8, FinishThread DEF DuplicateJob, MarkJob, SaveRaises
<1>9. ASSUME NEW a \in Actors, BuildEngine(a) PROVE ThreadInv'
  <2> DEFINE work == [ev[a] EXCEPT !.allowed = policy.allowed, !.scope = policy.scope]
  <2>1. Goto(a, "list", work)
    BY <1>9 DEF BuildEngine
  <2>2. work \in Works /\ work.i = 1 /\ work.acted = {} /\ work.dup = {}
    BY <1>0, <1>9, ZenonT(40) DEF Works, WorldTypes, LocatedAt, Starting, BuildEngine
  <2> HIDE DEF work
  <2>3. "list" \in Phases /\ LocatedAt("list", work)
    BY <2>2 DEF Phases, LocatedAt, Acting, AtAction, Starting
  <2> QED
    BY <2>1, <2>2, <2>3, GotoThread
<1>10. ASSUME NEW a \in Actors, ListAll(a) PROVE ThreadInv'
  <2> DEFINE todo == [r \in RuleIds |-> IF file[r] # NoRule /\ file[r].on
                                          THEN file[r] ELSE NoRule]
             st == Writing
             work == [ev[a] EXCEPT !.todo = todo, !.stale = st]
  <2>1. Goto(a, "pick", work)
    BY <1>10 DEF ListAll
  <2>2. todo \in StoredFiles /\ st \in BOOLEAN
    BY DEF WorldTypes, StoredFiles, Writing
  <2> HIDE DEF todo, st
  <2>3. work \in Works /\ work.i = 1 /\ work.acted = {} /\ work.dup = {}
    BY <1>0, <1>10, <2>2, ZenonT(40) DEF Works, LocatedAt, Starting, ListAll
  <2> HIDE DEF work
  <2>4. "pick" \in Phases /\ LocatedAt("pick", work)
    BY <2>3 DEF Phases, LocatedAt, Acting, AtAction, Starting
  <2> QED
    BY <2>1, <2>3, <2>4, GotoThread
<1>11. ASSUME NEW a \in Actors, EvaluatedAll(a) PROVE ThreadInv'
  <2>1. "mark_job" \in Phases /\ LocatedAt("mark_job", ev[a])
    BY DEF Phases, LocatedAt, Acting, AtAction, Starting
  <2> QED
    BY <1>0, <1>11, <2>1, GotoThread, FinishThread DEF EvaluatedAll
<1>12. ASSUME NEW a \in Actors, NEW r \in RuleIds, CooldownActive(a, r)
       PROVE  ThreadInv'
  <2> DEFINE rec == ev[a].todo[r]
             work == [ev[a] EXCEPT !.r = r, !.rec = rec, !.todo[r] = NoRule]
  <2>1. Goto(a, "load", work)
    BY <1>12 DEF CooldownActive
  <2>2. work \in Works
    BY <1>0, ZenonT(40) DEF Works, StoredFiles
  <2> HIDE DEF work
  <2>3. "load" \in Phases /\ LocatedAt("load", work)
    BY DEF Phases, LocatedAt, Acting, AtAction, Starting
  <2> QED
    BY <2>1, <2>2, <2>3, GotoThread
<1>13. ASSUME NEW a \in Actors, NEW r \in RuleIds, NEW found \in Answers,
              ComputeMatches(a, r, found)
       PROVE  ThreadInv'
  <2> DEFINE rec == ev[a].todo[r]
             cands == FilterNewItems(rec, found)
             match == MatchingItems(rec.body, cands)
             fresh == ev[a].allowed = policy.allowed /\ ev[a].scope = policy.scope
             promised == IF fresh THEN Preview(rec.body, match) ELSE {}
             work == [ev[a] EXCEPT !.r = r, !.rec = rec, !.todo[r] = NoRule]
             to == IF match = <<>> THEN "finish" ELSE AfterActions(rec.body, 1, {})
             begun == [work EXCEPT !.at = now, !.cands = cands, !.match = match,
                                   !.promised = promised]
  <2>1. phase[a] = "pick" /\ rec \in Stored /\ rec.body \in Bodies
    BY <1>0, <1>13 DEF ComputeMatches, Works, StoredFiles, Stored, Records
  <2>2. cands \in Seq(Items) /\ match \in Seq(Items)
    BY <2>1, FilterTypes, AnswersAreSequences
  <2>3. promised \in SUBSET Nat
    BY <2>1, PreviewType
  <2>4. work \in Works /\ work.rec = rec /\ work.i = ev[a].i
    BY <1>0, <2>1, ZenonT(40) DEF Works, StoredFiles
  <2>5. CASE FilterRaises(rec, found)
    <3>1. Goto(a, "load", work)
      BY <1>13, <2>5 DEF ComputeMatches
    <3> HIDE DEF work
    <3>2. "load" \in Phases /\ LocatedAt("load", work)
      BY DEF Phases, LocatedAt, Acting, AtAction, Starting
    <3> QED
      BY <3>1, <2>4, <3>2, GotoThread
  <2>6. CASE ~FilterRaises(rec, found)
    <3>1. Goto(a, to, begun)
      BY <1>13, <2>6 DEF ComputeMatches
    <3>2. \/ to = "finish"
          \/ to = "act" /\ match # <<>> /\ 1 \in DOMAIN rec.body.actions
      BY <2>1, AfterActionsType
    <3>3. ev[a].i = 1
      BY <1>0, <2>1 DEF LocatedAt, Starting
    <3>4. now \in Nat
      BY DEF WorldTypes
    <3> HIDE DEF work, cands, match, promised, rec, to
    <3>5. /\ begun \in Works /\ begun.rec = rec /\ begun.i = ev[a].i
          /\ begun.match = match
      BY <2>2, <2>3, <2>4, <3>4 DEF Works
    <3> HIDE DEF begun
    <3>6. to \in Phases /\ LocatedAt(to, begun)
      BY <2>1, <3>2, <3>3, <3>5 DEF Phases, LocatedAt, Acting, AtAction, Starting
    <3> QED
      BY <3>1, <3>5, <3>6, GotoThread
  <2> QED BY <2>5, <2>6
<1>14. ASSUME NEW a \in Actors, Notify(a) PROVE ThreadInv'
  <2>1. phase[a] \in AtAction /\ ev[a].acted \cup {ev[a].i} \in SUBSET Nat
        /\ ev[a].dup \in SUBSET Nat
    BY <1>0, <1>14 DEF Notify, AtAction, Works
  <2> QED
    BY <1>14, <2>1, AdvanceThread DEF Notify
<1>15. ASSUME NEW a \in Actors,
              ProposeSafeMode(a) \/ Deduped(a) \/ PolicyDenied(a) \/ Settle(a)
       PROVE  ThreadInv'
  <2>1. /\ phase[a] \in AtAction /\ ev[a].acted \in SUBSET Nat
        /\ ev[a].acted \cup {ev[a].i} \in SUBSET Nat
        /\ ev[a].dup \in SUBSET Nat /\ ev[a].dup \cup {ev[a].i} \in SUBSET Nat
    BY <1>0, <1>15 DEF ProposeSafeMode, Deduped, PolicyDenied, Settle, AtAction, Works
  <2> QED
    BY <1>15, <2>1, AdvanceThread DEF ProposeSafeMode, Deduped, PolicyDenied, Settle
<1>16. ASSUME NEW a \in Actors, ProposeNotSafeMode(a) \/ Claim(a) \/ PolicyAllowed(a)
       PROVE  ThreadInv'
  <2>1. PICK to \in {"claim", "policy", "create"} : Goto(a, to, ev[a])
    BY <1>16 DEF ProposeNotSafeMode, Claim, PolicyAllowed
  <2>2. /\ phase[a] \in AtAction
        /\ phase[a] = "act" => ev[a].rec.body.actions[ev[a].i] # "notify"
    BY <1>16 DEF ProposeNotSafeMode, Claim, PolicyAllowed, Action, AtAction
  <2>3. to \in Phases /\ LocatedAt(to, ev[a])
    BY <1>0, <2>1, <2>2 DEF Phases, LocatedAt, Acting, AtAction,
           Starting
  <2> QED
    BY <1>0, <2>1, <2>3, GotoThread
<1>17. ASSUME NEW a \in Actors, CreateRaises(a) \/ CreatePending(a) PROVE ThreadInv'
  <2>1. PICK to \in {"load", "settle"} : Goto(a, to, ev[a])
    BY <1>17 DEF CreateRaises, CreatePending
  <2>2. to \in Phases /\ LocatedAt(to, ev[a])
    BY <1>0, <1>17, <2>1
       DEF CreateRaises, CreatePending, Phases, LocatedAt, Acting, AtAction, Starting
  <2> QED
    BY <1>0, <2>1, <2>2, GotoThread
<1>18. ASSUME NEW a \in Actors, Conclude(a) PROVE ThreadInv'
  <2>1. PICK rec \in {Cooled(a), Advanced(Cooled(a), ev[a].cands)} :
            Goto(a, "load", [ev[a] EXCEPT !.rec = rec])
    BY <1>18 DEF Conclude
  <2>2. rec \in Stored
    <3>1. Cooled(a) \in Stored /\ ev[a].cands \in Seq(Items)
      BY <1>0, <1>18, CooledType DEF Conclude, LocatedAt, Acting, Works
    <3> QED
      BY <2>1, <3>1, AdvancedType
  <2> DEFINE work == [ev[a] EXCEPT !.rec = rec]
  <2>3. work \in Works
    BY <1>0, <2>2 DEF Works
  <2> HIDE DEF work
  <2>4. "load" \in Phases /\ LocatedAt("load", work)
    BY DEF Phases, LocatedAt, Acting, AtAction, Starting
  <2> QED
    BY <2>1, <2>3, <2>4, GotoThread DEF work
<1>19. ASSUME NEW field \in {"safe", "allowed", "scope"}, Toggle(field)
       PROVE  ThreadInv'
  <2>1. ASSUME NEW b \in Actors PROVE ev'[b] \in Works /\ LocatedAt(phase'[b], ev'[b])
    <3>1. ev'[b] = [ev[b] EXCEPT !.promised = {}] /\ phase' = phase
      BY <1>19 DEF Toggle
    <3>2. /\ ev'[b] \in Works /\ ev'[b].op = ev[b].op /\ ev'[b].rec = ev[b].rec
          /\ ev'[b].i = ev[b].i /\ ev'[b].match = ev[b].match
      BY <1>0, <3>1 DEF Works
    <3> QED
      BY <1>0, <3>1, <3>2 DEF LocatedAt
  <2>2. phase' = phase /\ ev' = [b \in Actors |-> ev'[b]]
    BY <1>19 DEF Toggle
  <2> QED
    BY <2>1, <2>2 DEF ThreadInv
<1>20. ASSUME NEW h \in Hosts, Crash(h) PROVE ThreadInv'
  BY <1>20, RecordTypes DEF Crash, ThreadInv, LocatedAt, Phases, Acting, AtAction, Starting
<1>21. CASE Tick \/ UNCHANGED vars
  BY <1>21 DEF Tick, vars, ThreadInv
<1> QED
  BY <1>1, <1>2, <1>3, <1>4, <1>5, <1>6, <1>7, <1>8, <1>9, <1>10, <1>11, <1>12,
     <1>13, <1>14, <1>15, <1>16, <1>17, <1>18, <1>19, <1>20, <1>21
     DEF Next, Edit, Evaluate, EvaluateRule

(***************************************************************************)
(* The files, the counters and the threads start well.                     *)
(***************************************************************************)
LEMMA RuleInit == Init => RuleInv
<1> SUFFICES ASSUME Init PROVE RuleInv
  OBVIOUS
<1> USE RulesConstants, RecordTypes DEF Init
<1>1. WorldTypes
  BY DEF WorldTypes, StoredFiles
<1>2. ThreadInv
  BY DEF ThreadInv, LocatedAt, Phases, Acting, AtAction, Starting
<1> QED
  BY <1>1, <1>2 DEF RuleInv

-----------------------------------------------------------------------------
(* The rule engine uses the ledger only through its operations.            *)

(***************************************************************************)
(* A proposal's key names a rule, an index, an item and a signature        *)
(* (rule_action_key); the job's key is its minute.                         *)
(***************************************************************************)
LEMMA KeysOfType ==
    ASSUME ThreadInv, NEW a \in Actors
    PROVE  /\ phase[a] \in AtAction \ {"act"} => ActionKey(a) \in ActionKeys
           /\ ev[a].key \in JobKeys
<1>1. ev[a] \in Works /\ LocatedAt(phase[a], ev[a])
  BY DEF ThreadInv
<1>2. ASSUME phase[a] \in AtAction \ {"act"} PROVE ActionKey(a) \in ActionKeys
  <2>1. /\ ev[a].rec.body \in Bodies /\ ev[a].i \in DOMAIN ev[a].rec.body.actions
        /\ Action(a) # "notify"
    BY <1>1, <1>2 DEF LocatedAt, AtAction, Acting, Stored, Records, Action
  <2>2. ev[a].i \in Indices /\ Action(a) \in Signatures
    <3>1. ev[a].i \in Indices
      BY <2>1 DEF Indices
    <3>2. Action(a) \in UNION {{b.actions[i] : i \in DOMAIN b.actions} : b \in Bodies}
      BY <2>1 DEF Action
    <3> QED
      BY <2>1, <3>1, <3>2 DEF Signatures
  <2>3. ev[a].match[1] \in Items
    BY <1>1, <1>2 DEF LocatedAt, AtAction, Works
  <2>4. ev[a].r \in RuleIds
    BY <1>1 DEF Works
  <2> QED
    BY <2>2, <2>3, <2>4 DEF ActionKey, ActionKeys
<1> QED
  BY <1>1, <1>2 DEF Works

(***************************************************************************)
(* Every step of the rule engine is a step of the ledger or leaves it      *)
(* alone.                                                                  *)
(***************************************************************************)
LEMMA LedgerStep == RuleInv /\ [Next]_vars => [Ledger!Next]_(Ledger!vars)
<1> SUFFICES ASSUME RuleInv, [Next]_vars PROVE [Ledger!Next]_(Ledger!vars)
  OBVIOUS
<1> USE DEF Ledger!vars, ledgerVars, Quiet, RuleInv
<1>1. ASSUME NEW a \in Actors, ClaimJob(a) PROVE [Ledger!Next]_(Ledger!vars)
  <2>1. <<now>> \in JobKeys
    BY DEF WorldTypes, JobKeys
  <2> QED
    BY <1>1, <2>1 DEF ClaimJob, Ledger!Next
<1>2. ASSUME NEW a \in Actors, EvaluatedAll(a) PROVE [Ledger!Next]_(Ledger!vars)
  BY <1>2, KeysOfType DEF EvaluatedAll, Ledger!Next
<1>3. ASSUME NEW a \in Actors, MarkJob(a) PROVE [Ledger!Next]_(Ledger!vars)
  BY <1>3, KeysOfType DEF MarkJob, Ledger!Next
<1>4. ASSUME NEW a \in Actors, SaveRaises(a) PROVE [Ledger!Next]_(Ledger!vars)
  BY <1>4, KeysOfType DEF SaveRaises, Ledger!Next
<1>5. ASSUME NEW a \in Actors, Claim(a) PROVE [Ledger!Next]_(Ledger!vars)
  <2>1. ActionKey(a) \in ActionKeys
    BY <1>5, KeysOfType DEF Claim, AtAction
  <2> QED
    BY <1>5, <2>1 DEF Claim, Ledger!Next
<1>6. ASSUME NEW a \in Actors, PolicyDenied(a) PROVE [Ledger!Next]_(Ledger!vars)
  <2>1. ActionKey(a) \in ActionKeys
    BY <1>6, KeysOfType DEF PolicyDenied, AtAction
  <2> QED
    BY <1>6, <2>1 DEF PolicyDenied, Ledger!Next
<1>7. ASSUME NEW a \in Actors, CreateRaises(a) PROVE [Ledger!Next]_(Ledger!vars)
  <2>1. ActionKey(a) \in ActionKeys
    BY <1>7, KeysOfType DEF CreateRaises, AtAction
  <2> QED
    BY <1>7, <2>1 DEF CreateRaises, Ledger!Next
<1>8. ASSUME NEW a \in Actors, CreatePending(a) PROVE [Ledger!Next]_(Ledger!vars)
  <2>1. ActionKey(a) \in ActionKeys
    BY <1>8, KeysOfType DEF CreatePending, AtAction
  <2> QED
    BY <1>8, <2>1 DEF CreatePending, Ledger!Next
<1>9. ASSUME NEW a \in Actors, Settle(a) PROVE [Ledger!Next]_(Ledger!vars)
  <2>1. ActionKey(a) \in ActionKeys
    BY <1>9, KeysOfType DEF Settle, AtAction
  <2> QED
    BY <1>9, <2>1 DEF Settle, Ledger!Next
<1>10. ASSUME NEW h \in Hosts, Crash(h) PROVE [Ledger!Next]_(Ledger!vars)
  <2>1. ThreadsOf(h) \in SUBSET Actors
    BY SMTT(30) DEF ThreadsOf
  <2> QED
    BY <1>10, <2>1 DEF Crash, Ledger!Next
<1>11. ASSUME NEW a \in Actors, NEW r \in RuleIds,
              \/ \E op \in Ops, b \in Bodies : Begin(a, op, r, b)
              \/ Edit(a) \/ DuplicateJob(a) \/ BuildEngine(a) \/ ListAll(a)
              \/ WriteEvaluated(a) \/ CooldownActive(a, r)
              \/ \E found \in Answers : ComputeMatches(a, r, found)
              \/ Notify(a) \/ ProposeSafeMode(a) \/ ProposeNotSafeMode(a)
              \/ Deduped(a) \/ PolicyAllowed(a) \/ Conclude(a)
       PROVE  [Ledger!Next]_(Ledger!vars)
  BY <1>11
     DEF Begin, Edit, Get, Load, Truncate, WriteEdit, DuplicateJob, BuildEngine, ListAll,
         WriteEvaluated, CooldownActive, ComputeMatches, Notify, ProposeSafeMode,
         ProposeNotSafeMode, Deduped, PolicyAllowed, Conclude
<1>12. CASE \/ Tick \/ UNCHANGED vars
            \/ \E field \in {"safe", "allowed", "scope"} : Toggle(field)
  BY <1>12 DEF Tick, vars, Toggle
<1> QED
  BY <1>1, <1>2, <1>3, <1>4, <1>5, <1>6, <1>7, <1>8, <1>9, <1>10, <1>11, <1>12,
     RulesConstants
     DEF Next, Evaluate, EvaluateRule

(***************************************************************************)
(* No key of the rules is evicted from the ledger in this model.           *)
(***************************************************************************)
LEMMA NothingForgottenStep == [Next]_vars => UNCHANGED forgotten
<1> SUFFICES ASSUME [Next]_vars PROVE UNCHANGED forgotten
  OBVIOUS
<1> USE DEF ledgerVars, Quiet
<1>1. ASSUME NEW a \in Actors, Edit(a) \/ Evaluate(a) PROVE UNCHANGED forgotten
  BY <1>1, SMTT(30) DEF Edit, Get, Load, Truncate, WriteEdit, Evaluate, ClaimJob, DuplicateJob,
              BuildEngine, ListAll, EvaluatedAll, MarkJob, SaveRaises, WriteEvaluated,
              Ledger!Claim, Ledger!Succeed, Ledger!MarkSucceeded, Ledger!MarkFailed
<1>2. ASSUME NEW a \in Actors, EvaluateRule(a) PROVE UNCHANGED forgotten
  BY <1>2 DEF EvaluateRule, CooldownActive, ComputeMatches, Notify, ProposeSafeMode,
              ProposeNotSafeMode, Claim, Deduped, PolicyDenied, PolicyAllowed,
              CreateRaises, CreatePending, Settle, Conclude, Ledger!Claim,
              Ledger!Succeed, Ledger!MarkSucceeded, Ledger!MarkFailed
<1>3. CASE \/ \E a \in Actors, op \in Ops, r \in RuleIds, b \in Bodies : Begin(a, op, r, b)
           \/ Tick \/ UNCHANGED vars
           \/ \E field \in {"safe", "allowed", "scope"} : Toggle(field)
           \/ \E h \in Hosts : Crash(h)
  BY <1>3 DEF Begin, Tick, vars, Toggle, Crash, Ledger!Die
<1> QED
  BY <1>1, <1>2, <1>3 DEF Next

(***************************************************************************)
(* The invariant holds in every reachable state.                           *)
(***************************************************************************)
LEMMA RuleSafety == Spec => [](RuleInv /\ Ledger!IndInv /\ forgotten = {})
<1> DEFINE Inv == RuleInv /\ Ledger!IndInv /\ forgotten = {}
<1>1. Init => Inv
  <2>1. Init => Ledger!Init /\ (Ledger!Init => forgotten = {})
    BY DEF Init, Ledger!Init
  <2> QED
    BY <2>1, RuleInit, Ledger!AtomicInit
<1>2. Inv /\ [Next]_vars => Inv'
  BY WorldTypesStep, ThreadInvStep, LedgerStep, Ledger!AtomicStep,
     NothingForgottenStep DEF RuleInv
<1> QED
  BY <1>1, <1>2, PTL DEF Spec

(***************************************************************************)
(* Rule records are what schemas.py allows, with at most seen_ids_max seen *)
(* ids, and the threads and the ledger have the values that the engine,    *)
(* the evaluator and the store give them.                                  *)
(***************************************************************************)
THEOREM RulesTypeCorrect == Spec => []TypeOK
<1>1. RuleInv /\ Ledger!IndInv => TypeOK
  BY DEF RuleInv, WorldTypes, ThreadInv, StoredFiles, Stored, Files, TypeOK,
         Ledger!IndInv
<1> QED
  BY <1>1, RuleSafety, PTL

(***************************************************************************)
(* The rule engine uses the execution ledger as the atomic table promises. *)
(***************************************************************************)
THEOREM RulesUseLedger == Spec => Ledger!Spec
<1>1. Init => Ledger!Init
  BY DEF Init
<1> QED
  BY <1>1, LedgerStep, RuleSafety, PTL DEF Spec, Ledger!Spec

(***************************************************************************)
(* A rule proposes an action for an item at most once, and the scheduled   *)
(* evaluation of a minute completes at most once, whatever evaluations     *)
(* overlap, whichever save is lost and whenever a process dies.            *)
(***************************************************************************)
THEOREM RuleActsOncePerKey == Spec => []OncePerKey
<1>1. Ledger!IndInv /\ forgotten = {} => OncePerKey
  BY DEF Ledger!IndInv, Ledger!KeyInv, OncePerKey
<1> QED
  BY <1>1, RuleSafety, PTL

-----------------------------------------------------------------------------
(* Preview and evaluation.                                                 *)

\* An action that a proposal's gates let through under the policy.
Passes(act) ==
    act = "notify" \/ (~policy.safe /\ policy.allowed /\ policy.scope)

\* What a thread inside the loop over the actions owes to the preview: the
\* promised actions that it has passed were done or are known to the ledger,
\* and those to come are let through.
PreviewAt(p, w) ==
    p \in Acting =>
        /\ \A j \in w.promised :
              /\ j \in DOMAIN w.rec.body.actions /\ j <= w.rec.body.cap
              /\ Passes(w.rec.body.actions[j])
              /\ w.allowed = policy.allowed /\ w.scope = policy.scope
              /\ j < w.i => j \in w.acted \cup w.dup
        /\ w.acted \subseteq 1..(w.i - 1)
        /\ p = "finish" => \/ w.promised = {} \/ w.i > Len(w.rec.body.actions)
                           \/ Cardinality(w.acted) >= w.rec.body.cap

PreviewInv == \A a \in Actors : PreviewAt(phase[a], ev[a])

(***************************************************************************)
(* A thread that goes where it owes nothing new keeps the promises.        *)
(***************************************************************************)
LEMMA GotoPreview ==
    ASSUME ThreadInv, PreviewInv, NEW a \in Actors, NEW to, NEW work,
           PreviewAt(to, work), Goto(a, to, work), UNCHANGED policy
    PROVE  PreviewInv'
<1>1. ASSUME NEW b \in Actors PROVE PreviewAt(phase[b], ev[b])'
  <2>1. CASE b = a
    <3>1. phase'[b] = to /\ ev'[b] = work
      BY <2>1 DEF Goto, ThreadInv
    <3> QED
      BY <3>1 DEF PreviewAt, Passes
  <2>2. CASE b # a
    <3>1. phase'[b] = phase[b] /\ ev'[b] = ev[b]
      BY <2>2 DEF Goto, ThreadInv
    <3> QED
      BY <3>1 DEF PreviewInv, PreviewAt, Passes
  <2> QED BY <2>1, <2>2
<1> QED
  BY <1>1 DEF PreviewInv

(***************************************************************************)
(* The loop goes on after it has done, or may skip, the action it is at.   *)
(***************************************************************************)
LEMMA AdvancePreview ==
    ASSUME ThreadInv, PreviewInv, NEW a \in Actors, phase[a] \in AtAction,
           NEW acted \in {ev[a].acted, ev[a].acted \cup {ev[a].i}},
           NEW dup \in SUBSET Nat, ev[a].dup \subseteq dup,
           ev[a].i \in ev[a].promised => ev[a].i \in acted \cup dup,
           Advance(a, acted, dup), UNCHANGED policy
    PROVE  PreviewInv'
<1> DEFINE i == ev[a].i
           n == i + 1
           work == [ev[a] EXCEPT !.i = n, !.acted = acted, !.dup = dup]
           to == AfterActions(ev[a].rec.body, n, acted)
<1>1. ev[a] \in Works /\ i \in Nat \ {0} /\ ev[a].rec.body \in Bodies
  <2>1. ev[a] \in Works /\ ev[a].rec \in Stored /\ i \in DOMAIN ev[a].rec.body.actions
    BY DEF ThreadInv, LocatedAt, AtAction, Acting
  <2>2. ev[a].rec.body \in Bodies
    BY <2>1 DEF Stored, Records
  <2>3. ev[a].rec.body.actions \in Seq({"notify"} \cup Signatures)
    BY <2>2, RulesConstants
  <2> QED
    BY <2>1, <2>2, <2>3
<1>2. PreviewAt(phase[a], ev[a]) /\ phase[a] \in Acting
  BY DEF PreviewInv, AtAction, Acting
<1>3. Goto(a, to, work) /\ acted \in SUBSET Nat
  BY <1>1 DEF Advance, Works
<1>4. n = i + 1 /\ i = ev[a].i
  OBVIOUS
<1>5. to = "finish" => \/ n > Len(ev[a].rec.body.actions)
                       \/ Cardinality(acted) >= ev[a].rec.body.cap
  BY DEF AfterActions
<1> HIDE DEF n, i, to
<1>6. /\ work.i = n /\ work.rec = ev[a].rec /\ work.promised = ev[a].promised
      /\ work.acted = acted /\ work.dup = dup
      /\ work.allowed = ev[a].allowed /\ work.scope = ev[a].scope
  BY <1>1 DEF Works
<1> HIDE DEF work
<1>7. ASSUME NEW j \in ev[a].promised, j < n PROVE j \in acted \cup dup
  <2>1. j \in Nat
    BY <1>1 DEF Works
  <2>2. CASE j = i
    BY <1>4, <2>2
  <2>3. CASE j # i
    BY <1>1, <1>2, <1>4, <1>7, <2>1, <2>3 DEF PreviewAt
  <2> QED BY <2>2, <2>3
<1>8. acted \subseteq 1..(n - 1)
  <2>1. ev[a].acted \subseteq 1..(i - 1)
    BY <1>2, <1>4 DEF PreviewAt
  <2> QED
    BY <1>1, <1>4, <2>1
<1>9. PreviewAt(to, work)
  BY <1>2, <1>5, <1>6, <1>7, <1>8 DEF PreviewAt
<1> QED
  BY <1>3, <1>9, GotoPreview

(***************************************************************************)
(* A write of the file, or a step that ends the loop, owes nothing new.    *)
(***************************************************************************)
LEMMA OutdatedPreview ==
    ASSUME ThreadInv, PreviewInv, NEW a \in Actors, NEW to, to \notin Acting,
           NEW work, phase' = [phase EXCEPT ![a] = to],
           ev' = Outdated(a, work), UNCHANGED policy
    PROVE  PreviewInv'
<1>1. ASSUME NEW b \in Actors PROVE PreviewAt(phase[b], ev[b])'
  <2>1. CASE b = a
    BY <2>1 DEF PreviewAt, ThreadInv
  <2>2. CASE b # a
    <3> DEFINE st == (phase[b] # "idle")
    <3>1. ev'[b] = [ev[b] EXCEPT !.stale = st] /\ phase'[b] = phase[b]
      BY <2>2 DEF Outdated, ThreadInv
    <3> HIDE DEF st
    <3>2. /\ ev'[b].promised = ev[b].promised /\ ev'[b].rec = ev[b].rec
          /\ ev'[b].i = ev[b].i /\ ev'[b].acted = ev[b].acted
          /\ ev'[b].dup = ev[b].dup /\ ev'[b].allowed = ev[b].allowed
          /\ ev'[b].scope = ev[b].scope
      BY <3>1 DEF ThreadInv, Works
    <3> QED
      BY <3>1, <3>2 DEF PreviewInv, PreviewAt, Passes
  <2> QED BY <2>1, <2>2
<1> QED
  BY <1>1 DEF PreviewInv

(***************************************************************************)
(* Every step keeps what the loop owes to the preview: a change of policy  *)
(* withdraws the promises, and an action is passed over without being done *)
(* only where the gates of plan_actions block it or the ledger has it.     *)
(***************************************************************************)
LEMMA PreviewStep == RuleInv /\ PreviewInv /\ [Next]_vars => PreviewInv'
<1> SUFFICES ASSUME RuleInv, PreviewInv, [Next]_vars PROVE PreviewInv'
  OBVIOUS
<1> USE DEF RuleInv
<1>0. \A a \in Actors : /\ ev[a] \in Works /\ LocatedAt(phase[a], ev[a])
                        /\ PreviewAt(phase[a], ev[a])
  BY DEF ThreadInv, PreviewInv
<1>1. \A to, work : to \notin Acting => PreviewAt(to, work)
  BY DEF PreviewAt
<1>2. ASSUME NEW a \in Actors,
             \/ \E op \in Ops, r \in RuleIds, b \in Bodies : Begin(a, op, r, b)
             \/ Get(a) \/ Load(a) \/ ClaimJob(a) \/ DuplicateJob(a) \/ BuildEngine(a)
             \/ ListAll(a) \/ EvaluatedAll(a) \/ MarkJob(a) \/ SaveRaises(a)
             \/ \E r \in RuleIds : CooldownActive(a, r)
             \/ CreateRaises(a) \/ Conclude(a)
      PROVE  PreviewInv'
  <2>1. PICK to, work : Goto(a, to, work) /\ to \notin Acting
    <3>1. ASSUME NEW op \in Ops, NEW r \in RuleIds, NEW b \in Bodies, Begin(a, op, r, b)
          PROVE  \E to, work : Goto(a, to, work) /\ to \notin Acting
      <4>1. FirstPhase[op] \notin Acting
        BY DEF FirstPhase, Ops, Edits, Evaluations, Acting
      <4> QED
        BY <3>1, <4>1 DEF Begin
    <3>2. \A to \in {"load", "truncate", "idle", "engine", "list", "pick", "mark_job"} :
             to \notin Acting
      BY DEF Acting
    <3>3. CASE Get(a) \/ Load(a)
      BY <3>2, <3>3 DEF Get, Load, Finish
    <3>4. CASE ClaimJob(a) \/ DuplicateJob(a) \/ BuildEngine(a) \/ ListAll(a)
      BY <3>2, <3>4 DEF ClaimJob, DuplicateJob, BuildEngine, ListAll, Finish
    <3>5. CASE EvaluatedAll(a) \/ MarkJob(a) \/ SaveRaises(a)
      BY <3>2, <3>5 DEF EvaluatedAll, MarkJob, SaveRaises, Finish
    <3>6. CASE \E r \in RuleIds : CooldownActive(a, r)
      BY <3>2, <3>6 DEF CooldownActive
    <3>7. CASE CreateRaises(a) \/ Conclude(a)
      BY <3>2, <3>7, SMTT(30) DEF CreateRaises, Conclude
    <3> QED
      BY <1>2, <3>1, <3>3, <3>4, <3>5, <3>6, <3>7
  <2>2. UNCHANGED policy
    BY <1>2 DEF Begin, Get, Load, ClaimJob, DuplicateJob, BuildEngine, ListAll,
                EvaluatedAll, MarkJob, SaveRaises, CooldownActive, CreateRaises,
                Conclude, Quiet, QuietButLedger
  <2> QED
    BY <1>1, <2>1, <2>2, GotoPreview
<1>3. ASSUME NEW a \in Actors, Truncate(a) \/ WriteEdit(a) \/ WriteEvaluated(a)
      PROVE  PreviewInv'
  <2>1. PICK to, work : /\ to \notin Acting /\ phase' = [phase EXCEPT ![a] = to]
                        /\ ev' = Outdated(a, work)
    BY <1>3 DEF Truncate, WriteEdit, WriteEvaluated, Acting
  <2>2. UNCHANGED policy
    BY <1>3 DEF Truncate, WriteEdit, WriteEvaluated
  <2> QED
    BY <2>1, <2>2, OutdatedPreview
<1>4. ASSUME NEW a \in Actors, NEW r \in RuleIds, NEW found \in Answers,
             ComputeMatches(a, r, found)
      PROVE  PreviewInv'
  <2> DEFINE rec == ev[a].todo[r]
             cands == FilterNewItems(rec, found)
             match == MatchingItems(rec.body, cands)
             fresh == ev[a].allowed = policy.allowed /\ ev[a].scope = policy.scope
             promised == IF fresh THEN Preview(rec.body, match) ELSE {}
             work == [ev[a] EXCEPT !.r = r, !.rec = rec, !.todo[r] = NoRule]
             to == IF match = <<>> THEN "finish" ELSE AfterActions(rec.body, 1, {})
             begun == [work EXCEPT !.at = now, !.cands = cands, !.match = match,
                                   !.promised = promised]
  <2>1. /\ phase[a] = "pick" /\ rec \in Stored /\ rec.body \in Bodies
        /\ ev[a].i = 1 /\ ev[a].acted = {}
    BY <1>0, <1>4
       DEF ComputeMatches, Works, StoredFiles, Stored, Records, LocatedAt, Starting
  <2>2. CASE FilterRaises(rec, found)
    <3>1. Goto(a, "load", work) /\ UNCHANGED policy
      BY <1>4, <2>2 DEF ComputeMatches, Quiet
    <3> HIDE DEF work
    <3>2. PreviewAt("load", work)
      BY <1>1 DEF Acting
    <3> QED
      BY <3>1, <3>2, GotoPreview
  <2>3. CASE ~FilterRaises(rec, found)
    <3>1. Goto(a, to, begun) /\ UNCHANGED policy
      BY <1>4, <2>3 DEF ComputeMatches, Quiet
    <3>2. promised # {} => /\ fresh /\ match # <<>>
                           /\ promised = PlannedActions(rec.body)
      BY DEF Preview
    <3>3. \A j \in promised : /\ j \in DOMAIN rec.body.actions /\ j <= rec.body.cap
                              /\ Passes(rec.body.actions[j])
                              /\ ~(j < 1)
      <4>1. rec.body.actions \in Seq({"notify"} \cup Signatures)
        BY <2>1, RulesConstants
      <4> HIDE DEF rec, promised
      <4> QED
        BY <3>2, <4>1 DEF PlannedActions, Passes
    <3>4. to = "finish" => \/ promised = {} \/ 1 > Len(rec.body.actions)
                           \/ Cardinality({}) >= rec.body.cap
      BY <3>2 DEF AfterActions
    <3>5. /\ begun.promised = promised /\ begun.rec = rec /\ begun.i = 1
          /\ begun.acted = {} /\ begun.allowed = ev[a].allowed
          /\ begun.scope = ev[a].scope
      <4> HIDE DEF cands, match, promised, rec
      <4> QED
        BY <1>0, <2>1 DEF Works
    <3>6. promised # {} => ev[a].allowed = policy.allowed /\ ev[a].scope = policy.scope
      BY <3>2
    <3> HIDE DEF begun, to, promised, rec
    <3>7. PreviewAt(to, begun)
      BY <3>3, <3>4, <3>5, <3>6 DEF PreviewAt
    <3> QED
      BY <3>1, <3>7, GotoPreview
  <2> QED BY <2>2, <2>3
<1>5. ASSUME NEW a \in Actors, Notify(a) \/ Settle(a) PROVE PreviewInv'
  <2>1. /\ phase[a] \in AtAction /\ ev[a].dup \in SUBSET Nat /\ UNCHANGED policy
        /\ Advance(a, ev[a].acted \cup {ev[a].i}, ev[a].dup)
    BY <1>0, <1>5 DEF Notify, Settle, AtAction, Works, Quiet, QuietButLedger
  <2> QED
    BY <2>1, AdvancePreview
<1>6. ASSUME NEW a \in Actors, Deduped(a) PROVE PreviewInv'
  <2>1. /\ phase[a] \in AtAction /\ ev[a].dup \cup {ev[a].i} \in SUBSET Nat
        /\ UNCHANGED policy /\ Advance(a, ev[a].acted, ev[a].dup \cup {ev[a].i})
    BY <1>0, <1>6 DEF Deduped, AtAction, Works, Quiet
  <2> QED
    BY <2>1, AdvancePreview
<1>7. ASSUME NEW a \in Actors, ProposeSafeMode(a) \/ PolicyDenied(a) PROVE PreviewInv'
  <2>1. /\ phase[a] \in AtAction /\ phase[a] \in Acting
        /\ ev[a].dup \in SUBSET Nat
        /\ UNCHANGED policy /\ Advance(a, ev[a].acted, ev[a].dup)
    BY <1>0, <1>7
       DEF ProposeSafeMode, PolicyDenied, AtAction, Acting, Works, Quiet, QuietButLedger
  <2>2. ev[a].rec.body.actions[ev[a].i] # "notify"
    BY <1>0, <1>7 DEF ProposeSafeMode, PolicyDenied, LocatedAt, Action, AtAction
  <2>3. policy.safe \/ ~ev[a].allowed \/ ~ev[a].scope
    BY <1>7 DEF ProposeSafeMode, PolicyDenied
  <2>4. ev[a].i \notin ev[a].promised
    BY <1>0, <2>1, <2>2, <2>3 DEF PreviewAt, Passes
  <2> QED
    BY <2>1, <2>4, AdvancePreview
<1>8. ASSUME NEW a \in Actors,
             ProposeNotSafeMode(a) \/ Claim(a) \/ PolicyAllowed(a) \/ CreatePending(a)
      PROVE  PreviewInv'
  <2>1. PICK to \in {"claim", "policy", "create", "settle"} :
            Goto(a, to, ev[a]) /\ UNCHANGED policy
    BY <1>8 DEF ProposeNotSafeMode, Claim, PolicyAllowed, CreatePending, Quiet,
                QuietButLedger
  <2>2. phase[a] \in Acting
    BY <1>8 DEF ProposeNotSafeMode, Claim, PolicyAllowed, CreatePending, Acting
  <2>3. PreviewAt(to, ev[a])
    BY <1>0, <2>2 DEF PreviewAt
  <2> QED
    BY <2>1, <2>3, GotoPreview
<1>9. ASSUME NEW field \in {"safe", "allowed", "scope"}, Toggle(field)
      PROVE  PreviewInv'
  <2>1. ASSUME NEW a \in Actors PROVE PreviewAt(phase[a], ev[a])'
    <3>1. ev'[a] = [ev[a] EXCEPT !.promised = {}] /\ phase' = phase
      BY <1>9 DEF Toggle
    <3>2. /\ ev'[a].promised = {} /\ ev'[a].rec = ev[a].rec
          /\ ev'[a].i = ev[a].i /\ ev'[a].acted = ev[a].acted
      BY <1>0, <3>1 DEF Works
    <3> QED
      BY <1>0, <3>1, <3>2 DEF PreviewAt
  <2> QED
    BY <2>1 DEF PreviewInv
<1>10. ASSUME NEW h \in Hosts, Crash(h) PROVE PreviewInv'
  <2>1. ASSUME NEW a \in Actors PROVE PreviewAt(phase[a], ev[a])'
    <3>1. /\ UNCHANGED policy
          /\ \/ phase'[a] = "idle"
             \/ phase'[a] = phase[a] /\ ev'[a] = ev[a]
      BY <1>10 DEF Crash
    <3> QED
      BY <1>0, <3>1 DEF PreviewAt, Acting, Passes
  <2> QED
    BY <2>1 DEF PreviewInv
<1>11. CASE Tick \/ UNCHANGED vars
  BY <1>11 DEF Tick, vars, PreviewInv, PreviewAt, Passes
<1> QED
  BY <1>2, <1>3, <1>4, <1>5, <1>6, <1>7, <1>8, <1>9, <1>10, <1>11
     DEF Next, Edit, Evaluate, EvaluateRule

(***************************************************************************)
(* What a test of the rule promises (plan_actions) is what an evaluation   *)
(* at that moment does, unless the ledger has it already or the policy has *)
(* changed since the evaluation read it.  At the end of the loop either    *)
(* every action has been passed, or as many as the cap allows were done:   *)
(* then the loop is beyond the cap, where nothing is promised.             *)
(***************************************************************************)
THEOREM PreviewKept == Spec => []PreviewIsKept
<1>1. Init => PreviewInv
  BY DEF Init, PreviewInv, PreviewAt, Acting
<1>2. ThreadInv /\ PreviewInv => PreviewIsKept
  <2> SUFFICES ASSUME ThreadInv, PreviewInv, NEW a \in Actors, phase[a] = "finish",
                      NEW j \in ev[a].promised
               PROVE  j \in ev[a].acted \cup ev[a].dup
    BY DEF PreviewIsKept
  <2> DEFINE acted == ev[a].acted
             i == ev[a].i
             body == ev[a].rec.body
  <2>1. ev[a] \in Works /\ PreviewAt(phase[a], ev[a]) /\ phase[a] \in Acting
    BY DEF ThreadInv, PreviewInv, Acting
  <2>2. ev[a].rec \in Stored
    BY <2>1 DEF ThreadInv, LocatedAt
  <2>3. body \in Bodies /\ i \in Nat /\ j \in Nat
    BY <2>1, <2>2 DEF Works, Stored, Records
  <2>4. /\ j \in DOMAIN body.actions /\ j <= body.cap
        /\ j < i => j \in acted \cup ev[a].dup
        /\ acted \subseteq 1..(i - 1)
        /\ i > Len(body.actions) \/ Cardinality(acted) >= body.cap
    BY <2>1 DEF PreviewAt
  <2>5. body.actions \in Seq({"notify"} \cup Signatures) /\ body.cap \in Nat
    BY <2>3, RulesConstants
  <2> HIDE DEF body, acted, i
  <2>6. CASE i > Len(body.actions)
    BY <2>3, <2>4, <2>5, <2>6 DEF acted
  <2>7. CASE Cardinality(acted) >= body.cap
    <3>1. /\ IsFiniteSet(1..(i - 1))
          /\ Cardinality(1..(i - 1)) = IF 1 > i - 1 THEN 0 ELSE (i - 1) - 1 + 1
      BY <2>3, FS_Interval
    <3>2. Cardinality(acted) \in Nat /\ Cardinality(acted) <= Cardinality(1..(i - 1))
      BY <2>4, <3>1, FS_Subset, FS_CardinalityType
    <3>3. j \in Nat /\ j # 0
      BY <2>4, <2>5
    <3>4. j < i
      BY <2>3, <2>4, <2>5, <2>7, <3>1, <3>2, <3>3
    <3> QED
      BY <2>4, <3>4 DEF acted
  <2> QED BY <2>4, <2>6, <2>7
<1>3. RuleInv /\ PreviewInv => PreviewIsKept
  BY <1>2 DEF RuleInv
<1> QED
  BY <1>1, <1>3, PreviewStep, RuleSafety, PTL DEF Spec

-----------------------------------------------------------------------------
(* Cursors and cooldowns of evaluations that do not overlap.               *)

Saving == {"load", "truncate", "write"}

\* The cursors of a record cover the items that evaluations have handled,
\* and no others.
History(rec, items) ==
    /\ \A m \in items :
          IF Stamped(m) THEN rec.cursor # NoItem /\ TsOf[m] <= TsOf[rec.cursor]
                        ELSE m \in Elements(rec.seen)
    /\ Elements(rec.seen) \subseteq items
    /\ rec.cursor # NoItem => rec.cursor \in items /\ Stamped(rec.cursor)

\* The record is cooling down for as long as the actions at these times
\* demand.
Spaced(rec, times) ==
    \A t \in times :
        /\ t \in 0..now
        /\ rec.body.cooldown > 0 => rec.until >= t + rec.body.cooldown

Good(rec, r) ==
    History(rec, handled[r]) /\ Spaced(rec, fired[r]) /\ wanted[r] # NoRule
Sound(f, r) == f[r] # NoRule => Good(f[r], r)

\* What an edit has made of the record it got.
WellEdited(w) ==
    /\ w.op = "create" <=> wanted[w.r] = NoRule
    /\ w.op \in {"update", "enable", "disable"} =>
          History(w.rec, handled[w.r])
    /\ w.op \in {"enable", "disable"} => Spaced(w.rec, fired[w.r])
    /\ w.op \in {"create", "reset"} => w.rec.seen = <<>> /\ w.rec.cursor = NoItem

OrderAt(p, w) ==
    /\ p \in Starting \cup {"mark_job"} \cup Acting => w.op \in Evaluations
    /\ p \in Saving => w.op \in Ops /\ w.rec \in Stored
    /\ p = "get" => wanted[w.r] # NoRule
    /\ p \in Saving /\ w.op \in Edits => WellEdited(w)
    /\ p \in {"pick"} \cup Saving \cup Acting /\ w.op \in Evaluations =>
          \A q \in RuleIds : Sound(w.todo, q)
    /\ p \in Saving \cup Acting /\ w.op \in Evaluations =>
          w.todo[w.r] = NoRule /\ Good(w.rec, w.r)
    /\ p \in Acting =>
          /\ w.at <= now /\ \A t \in fired[w.r] : w.at >= t + w.rec.body.cooldown
          /\ Elements(w.match) \subseteq Elements(w.cands)
          /\ Elements(w.cands) \cap handled[w.r] = {}
    /\ p \in {"truncate", "write"} =>
          /\ \A q \in RuleIds : q # w.r => Sound(w.text, q)
          /\ w.text[w.r] = IF w.op = "delete" THEN NoRule ELSE w.rec
    /\ p = "write" => file = EmptyFile

GhostTypes ==
    /\ handled \in [RuleIds -> SUBSET Items]
    /\ fired \in [RuleIds -> SUBSET Nat]
    /\ wanted = [r \in RuleIds |-> wanted[r]]

Alone ==
    \A a, b \in Actors : phase[a] # "idle" /\ phase[b] # "idle" => a = b

\* No thread is between its changes of a rule's record and the file.
AtRest(r) ==
    \A a \in Actors :
        /\ phase[a] # "write"
        /\ phase[a] \in Saving /\ ev[a].op \in Evaluations => ev[a].r # r

OrderInv ==
    orderly =>
        /\ Alone
        /\ \A r \in RuleIds :
              /\ wanted[r] = NoRule => handled[r] = {} /\ fired[r] = {}
              /\ AtRest(r) => Sound(file, r)
        /\ \A a \in Actors : OrderAt(phase[a], ev[a])

(***************************************************************************)
(* An item that _filter_new_items lets through was not handled before.     *)
(***************************************************************************)
LEMMA NewIsNotHandled ==
    ASSUME NEW rec \in Stored, NEW items \in SUBSET Items, History(rec, items),
           NEW found \in Answers
    PROVE  Elements(FilterNewItems(rec, found)) \cap items = {}
<1>1. \A m \in items : IsOld(rec, m)
  BY DEF History, IsOld
<1>2. Elements(FilterNewItems(rec, found)) \subseteq {m \in Items : ~IsOld(rec, m)}
  BY OnlySelects DEF FilterNewItems
<1> QED
  BY <1>1, <1>2

(***************************************************************************)
(* _update_cursors changes the cursors only.                               *)
(***************************************************************************)
LEMMA AdvancedKeeps ==
    ASSUME NEW rec \in Stored, NEW cands, NEW new, new = Advanced(rec, cands)
    PROVE  new.body = rec.body /\ new.until = rec.until /\ new.on = rec.on
<1> DEFINE all == rec.seen \o cands
           first == IF Len(all) > SeenMax THEN Len(all) - SeenMax + 1 ELSE 1
           seen == SubSeq(all, first, Len(all))
           cursor == Newest(rec.cursor, cands)
<1>1. CASE cands = <<>>
  BY <1>1 DEF Advanced
<1>2. CASE cands # <<>>
  <2>1. new = [rec EXCEPT !.seen = seen, !.cursor = cursor]
    BY <1>2 DEF Advanced
  <2> HIDE DEF seen, cursor
  <2> QED
    BY <2>1 DEF Stored, Records
<1> QED
  BY <1>1, <1>2

(***************************************************************************)
(* _update_cursors covers what was handled before and the candidates,      *)
(* except for the items without a timestamp that leave the seen ids.       *)
(***************************************************************************)
LEMMA AdvancedHistory ==
    ASSUME NEW rec \in Stored, NEW items \in SUBSET Items, History(rec, items),
           NEW cands \in Seq(Items), NEW new, new = Advanced(rec, cands),
           NEW lost, \A m : m \in lost <=>
                            (m \in Items /\ ~Stamped(m) /\ m \notin Elements(new.seen))
    PROVE  History(new, (items \cup Elements(cands)) \ lost)
<1> DEFINE all == rec.seen \o cands
           first == IF Len(all) > SeenMax THEN Len(all) - SeenMax + 1 ELSE 1
           seen == SubSeq(all, first, Len(all))
           cursor == Newest(rec.cursor, cands)
<1>0. rec \in Records /\ rec.seen \in Seq(Items) /\ rec.cursor \in Items \cup {NoItem}
  BY DEF Stored, Records
<1>1. CASE cands = <<>>
  <2>1. new = rec /\ Elements(cands) = {}
    BY <1>1 DEF Advanced, Elements
  <2>2. items \cap lost = {}
    BY <2>1 DEF History
  <2> QED
    BY <2>1, <2>2 DEF History
<1>2. CASE cands # <<>>
  <2>1. new = [rec EXCEPT !.seen = seen, !.cursor = cursor]
    BY <1>2 DEF Advanced
  <2>2. all \in Seq(Items) /\ Elements(all) = Elements(rec.seen) \cup Elements(cands)
    BY <1>0, ElementsOfConcat
  <2>3. Elements(seen) \subseteq Elements(all)
    <3>1. first \in Nat \ {0} /\ Len(all) \in Nat
      BY <2>2, RulesConstants
    <3> HIDE DEF all, first
    <3>2. ASSUME NEW i \in DOMAIN seen
          PROVE  seen[i] = all[first + i - 1] /\ first + i - 1 \in DOMAIN all
      BY <2>2, <3>1, <3>2
    <3> QED
      BY <3>2 DEF Elements
  <2>4. /\ cursor \in Items \cup {NoItem}
        /\ cursor = rec.cursor \/ (cursor \in Elements(cands) /\ Stamped(cursor))
        /\ \A m \in Elements(cands) :
              Stamped(m) => cursor # NoItem /\ TsOf[m] <= TsOf[cursor]
        /\ rec.cursor # NoItem => cursor # NoItem /\ TsOf[rec.cursor] <= TsOf[cursor]
    BY <1>0, NewestCursor
  <2>5. Elements(cands) \subseteq Items
    BY DEF Elements
  <2>t. \A m \in Items : TsOf[m] \in Nat
    BY RulesConstants
  <2> HIDE DEF seen, cursor, all
  <2>6. new.seen = seen /\ new.cursor = cursor
    BY <1>0, <2>1 DEF Records
  <2>7. ASSUME NEW m \in (items \cup Elements(cands)) \ lost
        PROVE  IF Stamped(m) THEN cursor # NoItem /\ TsOf[m] <= TsOf[cursor]
                             ELSE m \in Elements(seen)
    <3>1. CASE ~Stamped(m)
      BY <2>5, <2>6, <3>1
    <3>2. CASE Stamped(m) /\ m \in Elements(cands)
      BY <2>4, <3>2
    <3>3. CASE Stamped(m) /\ m \in items
      <4>1. rec.cursor # NoItem /\ TsOf[m] <= TsOf[rec.cursor]
        BY <3>3 DEF History
      <4>2. m \in Items /\ rec.cursor \in Items /\ cursor \in Items
        BY <1>0, <2>4, <3>3, <4>1
      <4> QED
        BY <2>4, <2>t, <3>3, <4>1, <4>2
    <3> QED
      BY <3>1, <3>2, <3>3
  <2>8. Elements(seen) \subseteq (items \cup Elements(cands)) \ lost
    BY <2>2, <2>3, <2>6 DEF History
  <2>9. cursor # NoItem => cursor \in (items \cup Elements(cands)) \ lost /\ Stamped(cursor)
    BY <2>4 DEF History
  <2> QED
    BY <2>6, <2>7, <2>8, <2>9 DEF History
<1> QED
  BY <1>1, <1>2

(***************************************************************************)
(* The ghosts keep their types.                                            *)
(***************************************************************************)
LEMMA GhostTypesStep == RuleInv /\ GhostTypes /\ [Next]_vars => GhostTypes'
<1> SUFFICES ASSUME RuleInv, GhostTypes, [Next]_vars PROVE GhostTypes'
  OBVIOUS
<1>0. \A a \in Actors : ev[a] \in Works
  BY DEF RuleInv, ThreadInv
<1>1. ASSUME NEW a \in Actors, WriteEdit(a) PROVE GhostTypes'
  <2>1. /\ handled' \in {handled, [handled EXCEPT ![ev[a].r] = {}]}
        /\ fired' \in {fired, [fired EXCEPT ![ev[a].r] = {}]}
        /\ \E wish : wanted' = [wanted EXCEPT ![ev[a].r] = wish]
    BY <1>1 DEF WriteEdit
  <2> QED
    BY <1>0, <2>1 DEF GhostTypes, Works
<1>2. ASSUME NEW a \in Actors, Conclude(a) PROVE GhostTypes'
  <2>1. /\ Elements(ev[a].cands) \subseteq Items /\ ev[a].at \in Nat
        /\ ev[a].r \in RuleIds
    BY <1>0 DEF Works, Elements
  <2> QED
    BY <1>2, <2>1 DEF Conclude, GhostTypes
<1>3. ASSUME NEW a \in Actors, CreateRaises(a) PROVE GhostTypes'
  BY <1>3 DEF CreateRaises, GhostTypes
<1>4. ASSUME NEW a \in Actors, Edit(a), ~WriteEdit(a) PROVE GhostTypes'
  BY <1>4 DEF Edit, Get, Load, Truncate, Quiet, ghosts, GhostTypes
<1>5. ASSUME NEW a \in Actors, Evaluate(a) PROVE GhostTypes'
  BY <1>5, SMTT(30) DEF Evaluate, ClaimJob, DuplicateJob, BuildEngine, ListAll, EvaluatedAll,
     MarkJob, SaveRaises, WriteEvaluated, Quiet, QuietButLedger, ghosts, GhostTypes
<1>6. ASSUME NEW a \in Actors, EvaluateRule(a), ~Conclude(a), ~CreateRaises(a)
      PROVE  GhostTypes'
  BY <1>6 DEF EvaluateRule, CooldownActive, ComputeMatches, Notify, ProposeSafeMode,
     ProposeNotSafeMode, Claim, Deduped, PolicyDenied, PolicyAllowed, CreatePending,
     Settle, Quiet, QuietButLedger, ghosts, GhostTypes
<1>7. ASSUME NEW a \in Actors, NEW op \in Ops, NEW r \in RuleIds, NEW b \in Bodies,
             Begin(a, op, r, b)
      PROVE  GhostTypes'
  BY <1>7 DEF Begin, ghosts, GhostTypes
<1>8. CASE Tick
  BY <1>8 DEF Tick, ghosts, GhostTypes
<1>9. ASSUME NEW field \in {"safe", "allowed", "scope"}, Toggle(field)
      PROVE  GhostTypes'
  BY <1>9 DEF Toggle, ghosts, GhostTypes
<1>10. ASSUME NEW h \in Hosts, Crash(h) PROVE GhostTypes'
  BY <1>10 DEF Crash, GhostTypes
<1>11. CASE UNCHANGED vars
  BY <1>11 DEF vars, ghosts, GhostTypes
<1> QED
  BY <1>1, <1>2, <1>3, <1>4, <1>5, <1>6, <1>7, <1>8, <1>9, <1>10, <1>11 DEF Next

(***************************************************************************)
(* When the other threads are idle, the order is kept if the thread that   *)
(* moves keeps its part, and the file holds sound records once it rests.   *)
(***************************************************************************)
LEMMA OrderGoto ==
    ASSUME RuleInv, NEW a \in Actors, NEW to,
           \A b \in Actors : b # a => phase[b] = "idle",
           phase' = [phase EXCEPT ![a] = to],
           \A r \in RuleIds : wanted'[r] = NoRule => handled'[r] = {} /\ fired'[r] = {},
           \A r \in RuleIds : AtRest(r)' => Sound(file, r)',
           OrderAt(phase[a], ev[a])'
    PROVE  OrderInv'
<1>1. \A b \in Actors : b # a => phase'[b] = "idle"
  BY DEF RuleInv, ThreadInv
<1>2. Alone'
  BY <1>1 DEF Alone
<1>3. ASSUME NEW b \in Actors, b # a PROVE OrderAt(phase[b], ev[b])'
  BY <1>1, <1>3 DEF OrderAt, Starting, Acting, Saving
<1> QED
  BY <1>2, <1>3 DEF OrderInv

(***************************************************************************)
(* In particular if the files, the ghosts and the clock stay as they are,  *)
(* and an evaluation that has changed a record goes on to save it.         *)
(***************************************************************************)
LEMMA OrderMove ==
    ASSUME RuleInv, OrderInv, orderly, NEW a \in Actors, NEW to, NEW work,
           \A b \in Actors : b # a => phase[b] = "idle",
           phase[a] # "write", to # "write", Goto(a, to, work),
           phase[a] \in Saving /\ ev[a].op \in Evaluations =>
               to \in Saving /\ work.op = ev[a].op /\ work.r = ev[a].r,
           UNCHANGED <<file, now, handled, fired, wanted>>,
           OrderAt(to, work)
    PROVE  OrderInv'
<1>1. phase'[a] = to /\ ev'[a] = work /\ phase' = [phase EXCEPT ![a] = to]
  BY DEF Goto, RuleInv, ThreadInv
<1>2. OrderAt(phase[a], ev[a])'
  BY <1>1 DEF OrderAt, WellEdited, Sound, Good, History, Spaced
<1>3. ASSUME NEW r \in RuleIds, AtRest(r)' PROVE Sound(file, r)'
  <2>1. AtRest(r)
    BY <1>1, <1>3 DEF AtRest, Saving
  <2>2. Sound(file, r)
    BY <2>1 DEF OrderInv
  <2> QED
    BY <2>2 DEF Sound, Good, History, Spaced
<1>4. \A r \in RuleIds : wanted'[r] = NoRule => handled'[r] = {} /\ fired'[r] = {}
  BY DEF OrderInv
<1> QED
  BY <1>1, <1>2, <1>3, <1>4, OrderGoto

(***************************************************************************)
(* In an orderly regime the thread that moves is the only one.             *)
(***************************************************************************)
LEMMA OrderAlone ==
    ASSUME RuleInv, OrderInv, orderly, NEW a \in Actors, phase[a] # "idle"
    PROVE  /\ \A b \in Actors : b # a => phase[b] = "idle"
           /\ ev[a] \in Works /\ LocatedAt(phase[a], ev[a]) /\ OrderAt(phase[a], ev[a])
           /\ \A r \in RuleIds :
                 /\ phase[a] # "write"
                 /\ phase[a] \in Saving /\ ev[a].op \in Evaluations => ev[a].r # r
                 => Sound(file, r)
<1>1. \A b \in Actors : b # a => phase[b] = "idle"
  BY DEF OrderInv, Alone
<1>2. ev[a] \in Works /\ LocatedAt(phase[a], ev[a]) /\ OrderAt(phase[a], ev[a])
  BY DEF OrderInv, RuleInv, ThreadInv
<1>3. ASSUME NEW r \in RuleIds, phase[a] # "write",
             phase[a] \in Saving /\ ev[a].op \in Evaluations => ev[a].r # r
      PROVE  Sound(file, r)
  <2>1. AtRest(r)
    BY <1>1, <1>3 DEF AtRest, Saving
  <2> QED
    BY <2>1 DEF OrderInv
<1> QED
  BY <1>1, <1>2, <1>3

(***************************************************************************)
(* What the edits keep of a record.                                        *)
(***************************************************************************)
LEMMA EditedKeeps ==
    ASSUME NEW op \in Edits \ {"create", "delete"}, NEW rec \in Stored,
           NEW new \in Stored, NEW e, e = Edited(op, rec, new)
    PROVE  /\ op \in {"update", "enable", "disable"} =>
                 e.seen = rec.seen /\ e.cursor = rec.cursor
           /\ op \in {"enable", "disable"} => e.until = rec.until /\ e.body = rec.body
           /\ op = "reset" => e.seen = <<>> /\ e.cursor = NoItem
<1>1. CASE op = "update"
  BY <1>1 DEF Edited, Stored, Records
<1>2. CASE op = "enable"
  BY <1>2 DEF Edited, Stored, Records
<1>3. CASE op = "disable"
  BY <1>3 DEF Edited, Stored, Records
<1>4. CASE op = "reset"
  BY <1>4 DEF Edited, Stored, Records
<1> QED
  BY <1>1, <1>2, <1>3, <1>4 DEF Edits

(***************************************************************************)
(* A request begins when no other is in flight.                            *)
(***************************************************************************)
LEMMA OrderBegin ==
    ASSUME RuleInv, OrderInv, orderly, NEW a \in Actors, NEW op \in Ops,
           NEW r \in RuleIds, NEW b \in Bodies, Begin(a, op, r, b)
    PROVE  OrderInv'
<1> DEFINE rec == IF op \in Edits THEN NewRule(b) ELSE NoRule
           work == [NoWork EXCEPT !.op = op, !.r = r, !.rec = rec]
<1>1. /\ Goto(a, FirstPhase[op], work) /\ phase[a] = "idle"
      /\ \A c \in Actors : phase[c] = "idle"
      /\ UNCHANGED <<file, now, handled, fired, wanted>>
      /\ op = "create" => wanted[r] = NoRule
      /\ op \in Edits \ {"create"} => wanted[r] # NoRule
  BY DEF Begin, AllIdle, Fresh, ghosts
<1>2. op \in Edits => rec \in Stored /\ rec.seen = <<>> /\ rec.cursor = NoItem
  BY RecordTypes DEF NewRule
<1>3. rec \in Stored \cup {NoRule}
  BY RecordTypes
<1> HIDE DEF rec
<1>4. work.op = op /\ work.r = r /\ work.rec = rec
  BY RecordTypes DEF Works
<1> HIDE DEF work
<1>5. OrderAt(FirstPhase[op], work)
  <2>1. CASE op \in Edits
    <3>1. FirstPhase[op] \in {"load", "get"} /\ op \notin Evaluations
      BY <2>1 DEF FirstPhase, Ops, Edits, Evaluations
    <3>2. FirstPhase[op] = "load" => op \in {"create", "delete"}
      BY <2>1 DEF FirstPhase, Ops, Edits
    <3>3. op = "create" <=> wanted[r] = NoRule
      BY <1>1, <2>1
    <3>4. FirstPhase[op] = "load" => WellEdited(work)
      BY <1>2, <1>4, <2>1, <3>2, <3>3 DEF WellEdited
    <3>5. FirstPhase[op] = "get" => wanted[work.r] # NoRule
      BY <1>1, <1>4, <2>1, <3>1 DEF FirstPhase, Ops, Edits
    <3> QED
      BY <1>2, <1>4, <2>1, <3>1, <3>4, <3>5 DEF OrderAt, Starting, Acting, Saving
  <2>2. CASE op \in Evaluations
    <3>1. FirstPhase[op] \in {"job", "engine"}
      BY <2>2 DEF FirstPhase, Ops, Edits, Evaluations
    <3> QED
      BY <1>4, <2>2, <3>1 DEF OrderAt, Acting, Saving
  <2> QED
    BY <2>1, <2>2 DEF Ops
<1>6. FirstPhase[op] # "write"
  BY DEF FirstPhase, Ops, Edits, Evaluations
<1>7. phase[a] # "write" /\ phase[a] \notin Saving
  BY <1>1 DEF Saving
<1> QED
  BY <1>1, <1>5, <1>6, <1>7, OrderMove

(***************************************************************************)
(* The edits up to their write: what is upserted is the record as it is in *)
(* the file, changed, among the records of the file.                       *)
(***************************************************************************)
LEMMA OrderEdit ==
    ASSUME RuleInv, OrderInv, orderly, NEW a \in Actors,
           Get(a) \/ Load(a) \/ Truncate(a)
    PROVE  OrderInv'
<1>0. phase[a] \in {"get", "load", "truncate"}
  BY DEF Get, Load, Truncate
<1>1. /\ \A b \in Actors : b # a => phase[b] = "idle"
      /\ ev[a] \in Works /\ LocatedAt(phase[a], ev[a]) /\ OrderAt(phase[a], ev[a])
      /\ \A q \in RuleIds :
            /\ phase[a] # "write"
            /\ phase[a] \in Saving /\ ev[a].op \in Evaluations => ev[a].r # q
            => Sound(file, q)
  BY <1>0, OrderAlone
<1>2. ev[a].r \in RuleIds /\ file \in StoredFiles
  BY <1>1 DEF Works, RuleInv, WorldTypes
<1>i. \A w : OrderAt("idle", w)
  BY DEF OrderAt, Starting, Acting, Saving
<1>3. CASE Get(a)
  <2>1. CASE file[ev[a].r] = NoRule
    <3>1. Goto(a, "idle", NoWork) /\ phase[a] = "get"
          /\ UNCHANGED <<file, now, handled, fired, wanted>>
      BY <1>3, <2>1 DEF Get, Finish, Quiet, ghosts
    <3> QED
      BY <1>1, <1>i, <3>1, OrderMove DEF Saving
  <2>2. CASE file[ev[a].r] # NoRule
    <3> DEFINE old == file[ev[a].r]
               rec == Edited(ev[a].op, old, ev[a].rec)
               st == Writing
               work == [ev[a] EXCEPT !.stale = st, !.rec = rec]
    <3>1. Goto(a, "load", work) /\ phase[a] = "get"
          /\ UNCHANGED <<file, now, handled, fired, wanted>>
      BY <1>3, <2>2 DEF Get, Quiet, ghosts
    <3>2. /\ old \in Stored /\ Good(old, ev[a].r)
          /\ ev[a].op \in Edits \ {"create", "delete"} /\ ev[a].rec \in Stored
      BY <1>1, <1>2, <2>2, <3>1 DEF StoredFiles, LocatedAt, Saving, Sound
    <3>3. /\ rec \in Stored
          /\ ev[a].op \in {"update", "enable", "disable"} =>
                rec.seen = old.seen /\ rec.cursor = old.cursor
          /\ ev[a].op \in {"enable", "disable"} =>
                rec.until = old.until /\ rec.body = old.body
          /\ ev[a].op = "reset" => rec.seen = <<>> /\ rec.cursor = NoItem
      <4> HIDE DEF old
      <4>1. rec \in Stored
        BY <3>2, RecordTypes
      <4>2. rec = Edited(ev[a].op, old, ev[a].rec)
        OBVIOUS
      <4> HIDE DEF rec
      <4> QED
        BY <3>2, <4>1, <4>2, EditedKeeps
    <3>4. st \in BOOLEAN
      BY DEF Writing
    <3> HIDE DEF rec, st, old
    <3>5. work.op = ev[a].op /\ work.r = ev[a].r /\ work.rec = rec
      BY <1>1 DEF Works
    <3> HIDE DEF work
    <3>6. WellEdited(work)
      BY <3>2, <3>3, <3>5 DEF WellEdited, Good, History, Spaced
    <3>7. OrderAt("load", work)
      BY <3>2, <3>3, <3>5, <3>6 DEF OrderAt, Starting, Acting, Saving, Ops, Edits,
                                    Evaluations
    <3> QED
      BY <1>1, <3>1, <3>7, OrderMove DEF Saving
  <2> QED
    BY <2>1, <2>2
<1>4. CASE Load(a)
  <2>1. CASE ev[a].op = "delete" /\ file[ev[a].r] = NoRule
    <3>1. Goto(a, "idle", NoWork) /\ phase[a] = "load"
          /\ UNCHANGED <<file, now, handled, fired, wanted>>
      BY <1>4, <2>1 DEF Load, Finish, Quiet, ghosts
    <3> QED
      BY <1>1, <1>i, <2>1, <3>1, OrderMove DEF Evaluations
  <2>2. CASE ~(ev[a].op = "delete" /\ file[ev[a].r] = NoRule)
    <3> DEFINE st == Writing \/ (ev[a].stale /\ ev[a].op \notin {"create", "delete"})
               text == Upserted(a)
               work == [ev[a] EXCEPT !.text = text, !.stale = st]
    <3>1. Goto(a, "truncate", work) /\ phase[a] = "load"
          /\ UNCHANGED <<file, now, handled, fired, wanted>>
      BY <1>4, <2>2 DEF Load, Quiet, ghosts
    <3>2. /\ \A q \in RuleIds : q # ev[a].r => text[q] = file[q]
          /\ text[ev[a].r] = IF ev[a].op = "delete" THEN NoRule ELSE ev[a].rec
      BY <1>2 DEF StoredFiles, Upserted
    <3>3. \A q \in RuleIds : q # ev[a].r => Sound(text, q)
      BY <1>1, <3>1, <3>2 DEF Sound
    <3> HIDE DEF st, text
    <3>4. /\ work.op = ev[a].op /\ work.r = ev[a].r /\ work.rec = ev[a].rec
          /\ work.todo = ev[a].todo /\ work.text = text
      BY <1>1 DEF Works
    <3> HIDE DEF work
    <3>5. WellEdited(work) <=> WellEdited(ev[a])
      BY <3>4 DEF WellEdited
    <3>6. OrderAt("truncate", work)
      BY <1>1, <3>1, <3>2, <3>3, <3>4, <3>5 DEF OrderAt, Starting, Acting, Saving, Sound
    <3> QED
      BY <1>1, <3>1, <3>4, <3>6, OrderMove DEF Saving
  <2> QED
    BY <2>1, <2>2
<1>5. CASE Truncate(a)
  <2>1. /\ phase[a] = "truncate" /\ phase' = [phase EXCEPT ![a] = "write"]
        /\ phase'[a] = "write" /\ ev'[a] = ev[a] /\ file' = EmptyFile
        /\ UNCHANGED <<now, handled, fired, wanted>>
    BY <1>5 DEF Truncate, Outdated, RuleInv, ThreadInv, ghosts
  <2>2. OrderAt(phase[a], ev[a])'
    BY <1>1, <2>1 DEF OrderAt, WellEdited, Sound, Good, History, Spaced, Starting,
                      Acting, Saving
  <2>3. \A r \in RuleIds : ~AtRest(r)'
    BY <2>1 DEF AtRest
  <2>4. \A r \in RuleIds : wanted'[r] = NoRule => handled'[r] = {} /\ fired'[r] = {}
    BY <2>1 DEF OrderInv
  <2> QED
    BY <1>1, <2>1, <2>2, <2>3, <2>4, OrderGoto
<1> QED
  BY <1>3, <1>4, <1>5

(***************************************************************************)
(* A thread that finds the file empty writes its text.                     *)
(***************************************************************************)
LEMMA WritesText ==
    ASSUME NEW a \in Actors, file = EmptyFile, Written(a)
    PROVE  \A r \in RuleIds : file'[r] = ev[a].text[r]
  BY DEF Written, EmptyFile

(***************************************************************************)
(* The write of an edit: the file has the changed record, which covers     *)
(* what is handled since the last reset.                                   *)
(***************************************************************************)
LEMMA OrderWriteEdit ==
    ASSUME RuleInv, GhostTypes, OrderInv, orderly, NEW a \in Actors, WriteEdit(a)
    PROVE  OrderInv'
<1> DEFINE r == ev[a].r
           op == ev[a].op
           rec == ev[a].rec
           wish == IF op = "delete" THEN Gone
                   ELSE [on |-> IF op = "reset" THEN rec.on ELSE op # "disable",
                         body |-> rec.body]
<1>1. /\ phase[a] = "write" /\ op \in Edits /\ Written(a)
      /\ phase' = [phase EXCEPT ![a] = "idle"] /\ UNCHANGED now
      /\ wanted' = [wanted EXCEPT ![r] = wish]
      /\ handled' = IF op = "reset" THEN [handled EXCEPT ![r] = {}] ELSE handled
      /\ fired' = IF op \in {"reset", "update"} THEN [fired EXCEPT ![r] = {}] ELSE fired
  BY DEF WriteEdit
<1>2. /\ \A b \in Actors : b # a => phase[b] = "idle"
      /\ ev[a] \in Works /\ OrderAt(phase[a], ev[a])
  BY <1>1, OrderAlone
<1>3. /\ r \in RuleIds /\ rec \in Stored /\ WellEdited(ev[a]) /\ file = EmptyFile
      /\ \A q \in RuleIds : q # r => Sound(ev[a].text, q)
      /\ ev[a].text[r] = IF op = "delete" THEN NoRule ELSE rec
  BY <1>1, <1>2 DEF OrderAt, Saving, Works
<1>4. wish # NoRule /\ wish \in Wishes
  <2>1. rec.on \in BOOLEAN /\ rec.body \in Bodies
    BY <1>3 DEF Stored, Records
  <2>2. (op # "disable") \in BOOLEAN
    OBVIOUS
  <2>3. wish \in Wishes
    BY <2>1, <2>2 DEF Wishes, Gone
  <2> QED
    BY <2>3, NoRuleIsNone
<1>5. \A q \in RuleIds : file'[q] = ev[a].text[q]
  BY <1>1, <1>3, WritesText
<1>6. \A q \in RuleIds :
          /\ q # r => /\ wanted'[q] = wanted[q] /\ handled'[q] = handled[q]
                      /\ fired'[q] = fired[q]
          /\ wanted'[r] = wish
          /\ handled'[r] = IF op = "reset" THEN {} ELSE handled[r]
          /\ fired'[r] = IF op \in {"reset", "update"} THEN {} ELSE fired[r]
  BY <1>1, <1>3 DEF GhostTypes
<1>7. wanted[r] = NoRule => handled[r] = {} /\ fired[r] = {}
  BY <1>3 DEF OrderInv
<1> HIDE DEF wish
<1>8. ASSUME op # "delete", NEW q \in RuleIds, q = r PROVE Sound(file, q)'
  <2>1. op \in {"create", "reset"} =>
            handled'[r] = {} /\ rec.seen = <<>> /\ rec.cursor = NoItem
    BY <1>3, <1>6, <1>7 DEF WellEdited
  <2>2. Elements(<<>>) = {}
    BY DEF Elements
  <2>3. ASSUME op \in {"create", "reset"} PROVE History(rec, handled'[r])
    BY <2>1, <2>2, <2>3 DEF History
  <2>4. ASSUME op \in {"update", "enable", "disable"} PROVE History(rec, handled'[r])
    BY <1>3, <1>6, <2>4 DEF WellEdited
  <2>5. History(rec, handled'[r])
    BY <1>1, <1>8, <2>3, <2>4 DEF Edits
  <2>6. \A t \in fired'[r] :
            /\ t \in 0..now
            /\ rec.body.cooldown > 0 => rec.until >= t + rec.body.cooldown
    BY <1>1, <1>3, <1>6, <1>7, <1>8 DEF WellEdited, Edits, Spaced
  <2>7. file'[q] = rec
    BY <1>3, <1>5, <1>8
  <2>8. History(file[q], handled[q])'
    BY <1>8, <2>5, <2>7 DEF History
  <2>9. Spaced(file[q], fired[q])'
    BY <1>1, <1>8, <2>6, <2>7 DEF Spaced
  <2> QED
    BY <1>4, <1>6, <1>8, <2>8, <2>9 DEF Sound, Good
<1>9. ASSUME NEW q \in RuleIds PROVE Sound(file, q)'
  <2>1. CASE q = r
    <3>1. CASE op # "delete"
      BY <1>8, <2>1, <3>1
    <3>2. CASE op = "delete"
      <4>1. file'[q] = NoRule
        BY <1>3, <1>5, <2>1, <3>2
      <4> QED
        BY <4>1 DEF Sound
    <3> QED
      BY <3>1, <3>2
  <2>2. CASE q # r
    BY <1>1, <1>3, <1>5, <1>6, <2>2 DEF Sound, Good, History, Spaced
  <2> QED
    BY <2>1, <2>2
<1>10. \A q \in RuleIds : wanted'[q] = NoRule => handled'[q] = {} /\ fired'[q] = {}
  BY <1>4, <1>6 DEF OrderInv
<1>11. OrderAt(phase[a], ev[a])'
  <2>1. phase'[a] = "idle"
    BY <1>1 DEF RuleInv, ThreadInv
  <2> QED
    BY <2>1 DEF OrderAt, Starting, Acting, Saving
<1> QED
  BY <1>1, <1>2, <1>9, <1>10, <1>11, OrderGoto

(***************************************************************************)
(* The write of an evaluation: the file has the record of the rule, and    *)
(* the evaluation goes on with the rules that it has left.                 *)
(***************************************************************************)
LEMMA OrderWriteEvaluated ==
    ASSUME RuleInv, GhostTypes, OrderInv, orderly, NEW a \in Actors, WriteEvaluated(a)
    PROVE  OrderInv'
<1> DEFINE r == ev[a].r
           work == [NoWork EXCEPT !.op = ev[a].op, !.key = ev[a].key,
                      !.todo = ev[a].todo, !.stale = ev[a].stale,
                      !.allowed = ev[a].allowed, !.scope = ev[a].scope]
<1>1. /\ phase[a] = "write" /\ ev[a].op \in Evaluations /\ Written(a)
      /\ phase' = [phase EXCEPT ![a] = "pick"] /\ ev' = Outdated(a, work)
      /\ UNCHANGED <<now, handled, fired, wanted>>
  BY DEF WriteEvaluated
<1>2. /\ \A b \in Actors : b # a => phase[b] = "idle"
      /\ ev[a] \in Works /\ OrderAt(phase[a], ev[a])
  BY <1>1, OrderAlone
<1>3. /\ r \in RuleIds /\ Good(ev[a].rec, r) /\ file = EmptyFile
      /\ ev[a].op \in Evaluations /\ ev[a].text[r] = ev[a].rec
      /\ \A q \in RuleIds : Sound(ev[a].todo, q) /\ (q # r => Sound(ev[a].text, q))
  BY <1>1, <1>2 DEF OrderAt, Saving, Works, Evaluations
<1>4. \A q \in RuleIds : file'[q] = ev[a].text[q]
  BY <1>1, <1>3, WritesText
<1>5. ASSUME NEW q \in RuleIds PROVE Sound(file, q)'
  <2>1. Sound(ev[a].text, q)
    BY <1>3 DEF Sound
  <2> QED
    BY <1>1, <1>4, <2>1 DEF Sound, Good, History, Spaced
<1>6. \A q \in RuleIds : wanted'[q] = NoRule => handled'[q] = {} /\ fired'[q] = {}
  BY <1>1, SMTT(30) DEF OrderInv
<1>7. OrderAt(phase[a], ev[a])'
  <2>1. phase'[a] = "pick" /\ ev'[a] = work
    BY <1>1 DEF Outdated, RuleInv, ThreadInv
  <2>2. work.op = ev[a].op /\ work.todo = ev[a].todo
    BY RecordTypes DEF Works
  <2> HIDE DEF work
  <2> QED
    BY <1>1, <1>3, <2>1, <2>2 DEF OrderAt, Starting, Acting, Saving, Sound, Good,
                                  History, Spaced
<1> QED
  BY <1>1, <1>2, <1>5, <1>6, <1>7, OrderGoto

(***************************************************************************)
(* The steps of an evaluation outside its rules: it begins each rule with  *)
(* the record that the file has.                                           *)
(***************************************************************************)
LEMMA OrderEvaluate ==
    ASSUME RuleInv, OrderInv, orderly, NEW a \in Actors,
           \/ ClaimJob(a) \/ DuplicateJob(a) \/ BuildEngine(a) \/ ListAll(a)
           \/ EvaluatedAll(a) \/ MarkJob(a)
    PROVE  OrderInv'
<1>0. phase[a] \in Starting \cup {"mark_job"} /\ phase[a] \notin Saving
  BY DEF ClaimJob, DuplicateJob, BuildEngine, ListAll, EvaluatedAll, MarkJob, Starting,
         Saving
<1>1. /\ \A b \in Actors : b # a => phase[b] = "idle"
      /\ ev[a] \in Works /\ LocatedAt(phase[a], ev[a]) /\ OrderAt(phase[a], ev[a])
      /\ phase[a] # "write" /\ ev[a].op \in Evaluations
      /\ \A q \in RuleIds : Sound(file, q)
  <2>1. phase[a] # "idle" /\ phase[a] # "write"
    BY <1>0 DEF Starting, Saving
  <2>2. /\ \A b \in Actors : b # a => phase[b] = "idle"
        /\ ev[a] \in Works /\ LocatedAt(phase[a], ev[a]) /\ OrderAt(phase[a], ev[a])
        /\ \A q \in RuleIds :
              /\ phase[a] # "write"
              /\ phase[a] \in Saving /\ ev[a].op \in Evaluations => ev[a].r # q
              => Sound(file, q)
    BY <2>1, OrderAlone
  <2>3. ev[a].op \in Evaluations
    BY <1>0, <2>2 DEF OrderAt
  <2> QED
    BY <1>0, <2>1, <2>2, <2>3
<1>2. UNCHANGED <<file, now, handled, fired, wanted>>
  BY DEF ClaimJob, DuplicateJob, BuildEngine, ListAll, EvaluatedAll, MarkJob, Quiet,
         QuietButLedger, ghosts
<1>3. \A w : OrderAt("idle", w)
  BY DEF OrderAt, Starting, Acting, Saving
<1>4. \A to, w : w.op \in Evaluations /\ to \in {"engine", "list", "mark_job"} =>
          OrderAt(to, w)
  BY DEF OrderAt, Starting, Acting, Saving
<1>5. CASE ClaimJob(a)
  <2> DEFINE work == [ev[a] EXCEPT !.key = <<now>>]
  <2>1. Goto(a, "engine", work) /\ work.op = ev[a].op
    BY <1>1, <1>5 DEF ClaimJob, Works
  <2> HIDE DEF work
  <2> QED
    BY <1>0, <1>1, <1>2, <1>4, <2>1, OrderMove
<1>6. ASSUME Finish(a) PROVE OrderInv'
  BY <1>0, <1>1, <1>2, <1>3, <1>6, OrderMove DEF Finish
<1>7. CASE BuildEngine(a)
  <2> DEFINE work == [ev[a] EXCEPT !.allowed = policy.allowed, !.scope = policy.scope]
  <2>1. Goto(a, "list", work) /\ work.op = ev[a].op
    BY <1>1, <1>7 DEF BuildEngine, Works
  <2> HIDE DEF work
  <2> QED
    BY <1>0, <1>1, <1>2, <1>4, <2>1, OrderMove
<1>8. CASE ListAll(a)
  <2> DEFINE todo == [r \in RuleIds |-> IF file[r] # NoRule /\ file[r].on
                                          THEN file[r] ELSE NoRule]
             st == Writing
             work == [ev[a] EXCEPT !.todo = todo, !.stale = st]
  <2>1. Goto(a, "pick", work)
    BY <1>8 DEF ListAll
  <2>2. \A q \in RuleIds : todo[q] = NoRule \/ todo[q] = file[q]
    OBVIOUS
  <2> HIDE DEF todo, st
  <2>3. work.op = ev[a].op /\ work.todo = todo
    BY <1>1 DEF Works
  <2> HIDE DEF work
  <2>4. \A q \in RuleIds : Sound(work.todo, q)
    BY <1>1, <2>2, <2>3 DEF Sound
  <2>5. OrderAt("pick", work)
    BY <1>1, <2>3, <2>4 DEF OrderAt, Starting, Acting, Saving
  <2> QED
    BY <1>0, <1>1, <1>2, <2>1, <2>5, OrderMove
<1>9. CASE EvaluatedAll(a)
  <2>1. Goto(a, "mark_job", ev[a]) \/ Finish(a)
    BY <1>9 DEF EvaluatedAll
  <2>2. ASSUME Goto(a, "mark_job", ev[a]) PROVE OrderInv'
    BY <1>0, <1>1, <1>2, <1>4, <2>2, OrderMove
  <2> QED
    BY <1>6, <2>1, <2>2
<1> QED
  BY <1>5, <1>6, <1>7, <1>8, <1>9 DEF DuplicateJob, MarkJob

(***************************************************************************)
(* A service may answer nothing.                                           *)
(***************************************************************************)
LEMMA NoAnswer == <<>> \in Answers
<1>1. 0 \in 0..Cardinality(Items) /\ <<>> \in [1..0 -> Items]
  BY RulesConstants, FS_CardinalityType
<1>2. DOMAIN <<>> = {}
  OBVIOUS
<1> QED
  BY <1>1, <1>2 DEF Answers

(***************************************************************************)
(* A rule begins: it saves the record as it is, or its candidates are new  *)
(* and its cooldown is over.                                               *)
(***************************************************************************)
LEMMA OrderPick ==
    ASSUME RuleInv, GhostTypes, OrderInv, orderly, NEW a \in Actors,
           NEW r \in RuleIds, NEW found \in Answers,
           CooldownActive(a, r) \/ ComputeMatches(a, r, found)
    PROVE  OrderInv'
<1> DEFINE rec == ev[a].todo[r]
           left == [ev[a].todo EXCEPT ![r] = NoRule]
           cands == FilterNewItems(rec, found)
           match == MatchingItems(rec.body, cands)
<1>1. phase[a] = "pick" /\ rec # NoRule /\ UNCHANGED <<file, now, handled, fired, wanted>>
  BY DEF CooldownActive, ComputeMatches, Quiet, ghosts
<1>2. /\ \A b \in Actors : b # a => phase[b] = "idle"
      /\ ev[a] \in Works /\ OrderAt(phase[a], ev[a]) /\ phase[a] \notin Saving
  BY <1>1, OrderAlone DEF Saving
<1>3. /\ ev[a].op \in Evaluations /\ rec \in Stored /\ Good(rec, r)
      /\ \A q \in RuleIds : Sound(ev[a].todo, q)
  BY <1>1, <1>2 DEF OrderAt, Starting, Sound, Works, StoredFiles
<1>4. left[r] = NoRule /\ \A q \in RuleIds : Sound(left, q)
  BY <1>2, <1>3 DEF Works, StoredFiles, Sound
<1>5. /\ cands \in Answers /\ match \in Answers
      /\ Elements(match) \subseteq Elements(cands)
      /\ Elements(cands) \cap handled[r] = {}
  <2>1. cands \in Answers
    BY OnlySelects DEF FilterNewItems
  <2>2. match \in Answers /\ Elements(match) = Elements(cands) \cap rec.body.matching
    BY <2>1, OnlySelects DEF MatchingItems
  <2>3. handled[r] \in SUBSET Items /\ History(rec, handled[r])
    BY <1>3 DEF GhostTypes, Good
  <2>4. Elements(cands) \cap handled[r] = {}
    BY <1>3, <2>3, NewIsNotHandled
  <2> QED
    BY <2>1, <2>2, <2>4
<1>6. ASSUME NEW w, Goto(a, "load", w), w.op = ev[a].op, w.r = r, w.rec = rec,
             w.todo = left
      PROVE  OrderInv'
  <2>1. OrderAt("load", w)
    BY <1>3, <1>4, <1>6 DEF OrderAt, Starting, Acting, Saving, Ops, Edits, Evaluations
  <2> QED
    BY <1>1, <1>2, <1>6, <2>1, OrderMove
<1>7. CASE CooldownActive(a, r)
  <2> DEFINE work == [ev[a] EXCEPT !.r = r, !.rec = rec, !.todo = left]
  <2>1. Goto(a, "load", work)
    BY <1>7 DEF CooldownActive
  <2> HIDE DEF rec, left
  <2>2. work.op = ev[a].op /\ work.r = r /\ work.rec = rec /\ work.todo = left
    BY <1>2 DEF Works
  <2> HIDE DEF work
  <2> QED
    BY <1>6, <2>1, <2>2
<1>8. CASE ComputeMatches(a, r, found)
  <2> DEFINE base == [ev[a] EXCEPT !.r = r, !.rec = rec, !.todo = left]
             promised == IF ev[a].allowed = policy.allowed /\ ev[a].scope = policy.scope
                           THEN Preview(rec.body, match) ELSE {}
             work == [base EXCEPT !.at = now, !.cands = cands, !.match = match,
                                  !.promised = promised]
             to == IF match = <<>> THEN "finish" ELSE AfterActions(rec.body, 1, {})
  <2>1. ~Cooling(rec) /\ (Goto(a, "load", base) \/ Goto(a, to, work))
    BY <1>8 DEF ComputeMatches
  <2>2. to \in {"finish", "act"}
    BY DEF AfterActions
  <2>3. \A t \in fired[r] : now >= t + rec.body.cooldown
    <3>1. rec.body.cooldown \in Nat /\ rec.until \in Nat /\ now \in Nat
      BY <1>3, RulesConstants DEF Stored, Records, RuleInv, WorldTypes
    <3>2. \A t \in fired[r] :
              /\ t \in Nat /\ t <= now
              /\ rec.body.cooldown > 0 => rec.until >= t + rec.body.cooldown
      BY <1>3, <3>1 DEF Good, Spaced
    <3>3. rec.body.cooldown = 0 \/ rec.until <= now
      BY <2>1, <3>1 DEF Cooling
    <3> HIDE DEF rec
    <3> QED
      BY <3>1, <3>2, <3>3
  <2> HIDE DEF rec, left, cands, match, promised, to
  <2>4. /\ base \in [DOMAIN ev[a] -> {base[x] : x \in DOMAIN ev[a]}]
        /\ base.op = ev[a].op /\ base.r = r /\ base.rec = rec /\ base.todo = left
        /\ work.op = ev[a].op /\ work.r = r /\ work.rec = rec /\ work.todo = left
        /\ work.at = now /\ work.cands = cands /\ work.match = match
    BY <1>2 DEF Works
  <2> HIDE DEF base, work
  <2>5. CASE Goto(a, "load", base)
    BY <1>6, <2>4, <2>5
  <2>6. CASE Goto(a, to, work)
    <3>1. now \in Nat
      BY RulesConstants DEF RuleInv, WorldTypes
    <3>2. OrderAt(to, work)
      BY <1>3, <1>4, <1>5, <2>2, <2>3, <2>4, <3>1
         DEF OrderAt, Starting, Acting, Saving, Evaluations
    <3>3. to # "write"
      BY <2>2
    <3> QED
      BY <1>1, <1>2, <2>6, <3>2, <3>3, OrderMove
  <2> QED
    BY <2>1, <2>5, <2>6
<1> QED
  BY <1>7, <1>8

(***************************************************************************)
(* The steps of the actions of a rule: none of them changes what the rule  *)
(* matched, nor its record.                                                *)
(***************************************************************************)
LEMMA OrderAct ==
    ASSUME RuleInv, OrderInv, orderly, NEW a \in Actors,
           \/ Notify(a) \/ ProposeSafeMode(a) \/ ProposeNotSafeMode(a)
           \/ Claim(a) \/ Deduped(a) \/ PolicyDenied(a) \/ PolicyAllowed(a)
           \/ CreateRaises(a) \/ CreatePending(a) \/ Settle(a)
    PROVE  OrderInv'
<1>1. /\ phase[a] \in AtAction /\ phase[a] \in Acting /\ phase[a] # "idle"
      /\ phase[a] \notin Saving /\ phase[a] # "write"
  BY DEF Notify, ProposeSafeMode, ProposeNotSafeMode, Claim, Deduped, PolicyDenied,
         PolicyAllowed, CreateRaises, CreatePending, Settle, AtAction, Acting, Saving
<1>2. /\ \A b \in Actors : b # a => phase[b] = "idle"
      /\ ev[a] \in Works /\ LocatedAt(phase[a], ev[a]) /\ OrderAt(phase[a], ev[a])
  BY <1>1, OrderAlone
<1>3. UNCHANGED <<file, now, handled, fired, wanted>>
  BY DEF Notify, ProposeSafeMode, ProposeNotSafeMode, Claim, Deduped, PolicyDenied,
         PolicyAllowed, CreateRaises, CreatePending, Settle, Advance, Quiet,
         QuietButLedger, ghosts
<1>4. ev[a].rec \in Stored
  BY <1>1, <1>2 DEF LocatedAt
<1>5. ASSUME NEW to \in Acting \cup {"load"}, NEW work, Goto(a, to, work),
             work.op = ev[a].op, work.r = ev[a].r, work.rec = ev[a].rec,
             work.todo = ev[a].todo, work.at = ev[a].at, work.cands = ev[a].cands,
             work.match = ev[a].match
      PROVE  OrderInv'
  <2>1. OrderAt(to, work)
    BY <1>1, <1>2, <1>4, <1>5 DEF OrderAt, Starting, Acting, Saving, Ops, Edits,
                                  Evaluations
  <2>2. to # "write"
    BY DEF Acting
  <2> QED
    BY <1>1, <1>2, <1>3, <1>5, <2>1, <2>2, OrderMove
<1>6. ASSUME NEW to \in {"claim", "policy", "create", "settle", "load"},
             Goto(a, to, ev[a])
      PROVE  OrderInv'
  BY <1>5, <1>6 DEF Acting
<1>7. ASSUME NEW acted, NEW dup, Advance(a, acted, dup) PROVE OrderInv'
  <2> DEFINE n == ev[a].i + 1
             to == AfterActions(ev[a].rec.body, n, acted)
             work == [ev[a] EXCEPT !.i = n, !.acted = acted, !.dup = dup]
  <2>1. Goto(a, to, work)
    BY <1>7 DEF Advance
  <2>2. to \in Acting
    BY DEF AfterActions, Acting
  <2> HIDE DEF n, to
  <2>3. /\ work.op = ev[a].op /\ work.r = ev[a].r /\ work.rec = ev[a].rec
        /\ work.todo = ev[a].todo /\ work.at = ev[a].at /\ work.cands = ev[a].cands
        /\ work.match = ev[a].match
    BY <1>2 DEF Works
  <2> HIDE DEF work
  <2> QED
    BY <1>5, <2>1, <2>2, <2>3
<1>8. CASE Notify(a)
  BY <1>7, <1>8 DEF Notify
<1>9. CASE ProposeSafeMode(a)
  BY <1>7, <1>9 DEF ProposeSafeMode
<1>10. CASE ProposeNotSafeMode(a)
  BY <1>6, <1>10 DEF ProposeNotSafeMode
<1>11. CASE Claim(a)
  BY <1>6, <1>11 DEF Claim
<1>12. CASE Deduped(a)
  BY <1>7, <1>12 DEF Deduped
<1>13. CASE PolicyDenied(a)
  BY <1>7, <1>13 DEF PolicyDenied
<1>14. CASE PolicyAllowed(a)
  BY <1>6, <1>14 DEF PolicyAllowed
<1>15. CASE CreateRaises(a)
  BY <1>6, <1>15 DEF CreateRaises
<1>16. CASE CreatePending(a)
  BY <1>6, <1>16 DEF CreatePending
<1>17. CASE Settle(a)
  BY <1>7, <1>17 DEF Settle
<1> QED
  BY <1>8, <1>9, <1>10, <1>11, <1>12, <1>13, <1>14, <1>15, <1>16, <1>17

(***************************************************************************)
(* The end of a rule: its record covers what it handled before and now,    *)
(* and cools down from its actions on.                                     *)
(***************************************************************************)
LEMMA OrderConclude ==
    ASSUME RuleInv, GhostTypes, OrderInv, orderly, NEW a \in Actors, Conclude(a)
    PROVE  OrderInv'
<1> DEFINE r == ev[a].r
           cooled == Cooled(a)
           raises == UpdateRaises(ev[a].rec, ev[a].cands)
           rec == IF raises THEN cooled ELSE Advanced(cooled, ev[a].cands)
           lost == {m \in Items : ~Stamped(m) /\ m \notin Elements(rec.seen)}
           items == IF raises THEN handled[r]
                    ELSE (handled[r] \cup Elements(ev[a].cands)) \ lost
           times == IF ev[a].acted = {} THEN fired[r] ELSE {ev[a].at}
           work == [ev[a] EXCEPT !.rec = rec]
<1>1. /\ phase[a] = "finish" /\ Goto(a, "load", work)
      /\ UNCHANGED <<file, now, wanted>>
      /\ handled' = [handled EXCEPT ![r] = items]
      /\ fired' = IF ev[a].acted = {} THEN fired ELSE [fired EXCEPT ![r] = {ev[a].at}]
  BY DEF Conclude
<1>2. /\ \A b \in Actors : b # a => phase[b] = "idle"
      /\ ev[a] \in Works /\ LocatedAt(phase[a], ev[a]) /\ OrderAt(phase[a], ev[a])
      /\ \A q \in RuleIds : Sound(file, q)
  BY <1>1, OrderAlone DEF Saving
<1>3. /\ ev[a].op \in Evaluations /\ ev[a].rec \in Stored /\ Good(ev[a].rec, r)
      /\ ev[a].todo[r] = NoRule /\ r \in RuleIds /\ ev[a].cands \in Seq(Items)
      /\ ev[a].at \in Nat /\ ev[a].at <= now
      /\ \A q \in RuleIds : Sound(ev[a].todo, q)
  BY <1>1, <1>2 DEF OrderAt, LocatedAt, Acting, Works
<1>4. /\ cooled \in Stored /\ cooled.seen = ev[a].rec.seen
      /\ cooled.cursor = ev[a].rec.cursor /\ cooled.body = ev[a].rec.body
      /\ IF cooled.body.cooldown > 0 /\ ev[a].acted # {}
           THEN cooled.until = ev[a].at + cooled.body.cooldown
           ELSE cooled.until = ev[a].rec.until
  <2>1. cooled \in Stored
    BY <1>2, <1>3, CooledType
  <2>2. ev[a].rec \in [on : BOOLEAN, body : Bodies, until : Nat, seen : Seq(Items),
                       cursor : Items \cup {NoItem}]
    BY <1>3 DEF Stored, Records
  <2> QED
    BY <2>1, <2>2 DEF Cooled
<1> HIDE DEF cooled
<1>5. handled[r] \in SUBSET Items /\ History(cooled, handled[r])
  <2>1. handled[r] \in SUBSET Items /\ History(ev[a].rec, handled[r])
    BY <1>3 DEF GhostTypes, Good
  <2> QED
    BY <1>4, <2>1 DEF History
<1>6. /\ rec \in Stored /\ History(rec, items)
      /\ rec.body = cooled.body /\ rec.until = cooled.until
  <2>1. CASE raises
    BY <1>4, <1>5, <2>1
  <2>2. CASE ~raises
    <3>1. rec = Advanced(cooled, ev[a].cands)
      BY <2>2
    <3>2. rec \in Stored
      BY <1>3, <1>4, <3>1, AdvancedType
    <3>3. \A m : m \in lost <=>
              (m \in Items /\ ~Stamped(m) /\ m \notin Elements(rec.seen))
      OBVIOUS
    <3> HIDE DEF rec, lost
    <3>4. /\ History(rec, (handled[r] \cup Elements(ev[a].cands)) \ lost)
          /\ rec.body = cooled.body /\ rec.until = cooled.until
      <4>1. cooled \in Stored /\ ev[a].cands \in Seq(Items)
        BY <1>3, <1>4
      <4>2. handled[r] \in SUBSET Items
        BY <1>5
      <4>3. History(cooled, handled[r])
        BY <1>5
      <4>4. rec.body = cooled.body /\ rec.until = cooled.until
        BY <3>1, <4>1, AdvancedKeeps
      <4>5. History(rec, (handled[r] \cup Elements(ev[a].cands)) \ lost)
        BY <3>1, <3>3, <4>1, <4>2, <4>3, AdvancedHistory
      <4> QED
        BY <4>4, <4>5
    <3> QED
      BY <2>2, <3>2, <3>4
  <2> QED
    BY <2>1, <2>2
<1>7. \A t \in times :
          /\ t \in 0..now
          /\ rec.body.cooldown > 0 => rec.until >= t + rec.body.cooldown
  <2>1. now \in Nat /\ rec.body.cooldown \in Nat
    <3>1. now \in Nat
      BY RulesConstants DEF RuleInv, WorldTypes
    <3>2. rec.body \in Bodies
      BY <1>6 DEF Stored, Records
    <3> QED
      BY <3>1, <3>2, RulesConstants
  <2>2. CASE ev[a].acted = {}
    BY <1>3, <1>4, <1>6, <2>2 DEF Good, Spaced
  <2>3. CASE ev[a].acted # {}
    BY <1>3, <1>4, <1>6, <2>1, <2>3
  <2> QED
    BY <2>2, <2>3
<1> HIDE DEF rec, items, raises, lost
<1>8. /\ \A q \in RuleIds : q # r => handled'[q] = handled[q] /\ fired'[q] = fired[q]
      /\ handled'[r] = items /\ fired'[r] = times
  BY <1>1, <1>3 DEF GhostTypes
<1> HIDE DEF times
<1>9. /\ work.op = ev[a].op /\ work.r = r /\ work.rec = rec /\ work.todo = ev[a].todo
      /\ phase'[a] = "load" /\ ev'[a] = work /\ phase' = [phase EXCEPT ![a] = "load"]
  BY <1>1, <1>2 DEF Works, Goto, RuleInv, ThreadInv
<1> HIDE DEF work
<1>10. \A q \in RuleIds : wanted'[q] = NoRule => handled'[q] = {} /\ fired'[q] = {}
  BY <1>1, <1>3, <1>8 DEF OrderInv, Good
<1>11. ASSUME NEW q \in RuleIds, AtRest(q)' PROVE Sound(file, q)'
  <2>1. q # r
    BY <1>3, <1>9, <1>11 DEF AtRest, Saving
  <2>2. Sound(file, q)
    BY <1>2
  <2> QED
    BY <1>1, <1>8, <2>1, <2>2 DEF Sound, Good, History, Spaced
<1>12. OrderAt(phase[a], ev[a])'
  <2>1. \A q \in RuleIds : Sound(ev[a].todo, q)'
    <3> TAKE q \in RuleIds
    <3>1. CASE q = r
      BY <1>3, <1>9, <3>1 DEF Sound
    <3>2. CASE q # r
      <4>1. Sound(ev[a].todo, q) /\ ev'[a].todo[q] = ev[a].todo[q]
        BY <1>3, <1>9
      <4> QED
        BY <1>1, <1>8, <3>2, <4>1 DEF Sound, Good, History, Spaced
    <3> QED
      BY <3>1, <3>2
  <2>2. Good(ev[a].rec, ev[a].r)'
    <3>1. ev'[a].r = r /\ ev'[a].rec = rec
      BY <1>9
    <3>2. History(ev[a].rec, handled[ev[a].r])'
      BY <1>6, <1>8, <3>1 DEF History
    <3>3. Spaced(ev[a].rec, fired[ev[a].r])'
      BY <1>1, <1>7, <1>8, <3>1 DEF Spaced
    <3>4. (wanted[ev[a].r] # NoRule)'
      BY <1>1, <1>3, <3>1 DEF Good
    <3> QED
      BY <3>2, <3>3, <3>4 DEF Good
  <2> QED
    BY <1>3, <1>6, <1>9, <2>1, <2>2 DEF OrderAt, Starting, Acting, Saving, Ops,
                                         Edits, Evaluations
<1> QED
  BY <1>2, <1>9, <1>10, <1>11, <1>12, OrderGoto

(***************************************************************************)
(* The clock only moves away from what has fired, and the switches change  *)
(* promises only.                                                          *)
(***************************************************************************)
LEMMA OrderWorld ==
    ASSUME RuleInv, OrderInv, orderly,
           \/ Tick
           \/ \E field \in {"safe", "allowed", "scope"} : Toggle(field)
           \/ UNCHANGED vars
    PROVE  OrderInv'
<1>1. /\ UNCHANGED <<file, phase, handled, fired, wanted>>
      /\ now \in Nat /\ now' \in Nat /\ now <= now'
  <2>1. now \in Nat
    BY RulesConstants DEF RuleInv, WorldTypes
  <2>2. CASE Tick
    BY <2>1, <2>2 DEF Tick, ghosts
  <2>3. CASE \E field \in {"safe", "allowed", "scope"} : Toggle(field)
    BY <2>1, <2>3 DEF Toggle, ghosts
  <2>4. CASE UNCHANGED vars
    BY <2>1, <2>4 DEF vars, ghosts
  <2> QED
    BY <2>2, <2>3, <2>4
<1>2. ASSUME NEW a \in Actors
      PROVE  /\ ev'[a].op = ev[a].op /\ ev'[a].r = ev[a].r /\ ev'[a].rec = ev[a].rec
             /\ ev'[a].todo = ev[a].todo /\ ev'[a].text = ev[a].text
             /\ ev'[a].at = ev[a].at /\ ev'[a].cands = ev[a].cands
             /\ ev'[a].match = ev[a].match /\ ev[a].at \in Nat
  <2>1. ev[a] \in Works
    BY DEF RuleInv, ThreadInv
  <2>2. CASE Tick
    BY <2>1, <2>2 DEF Tick, Works
  <2>3. CASE \E field \in {"safe", "allowed", "scope"} : Toggle(field)
    <3>1. ev'[a] = [ev[a] EXCEPT !.promised = {}]
      BY <2>3 DEF Toggle
    <3> QED
      BY <2>1, <3>1 DEF Works
  <2>4. CASE UNCHANGED vars
    BY <2>1, <2>4 DEF vars, Works
  <2> QED
    BY <2>2, <2>3, <2>4
<1>3. \A rec, r : Good(rec, r) => /\ History(rec, handled'[r]) /\ wanted'[r] # NoRule
                                  /\ \A t \in fired'[r] : t \in 0..now' /\
                                        (rec.body.cooldown > 0 =>
                                            rec.until >= t + rec.body.cooldown)
  BY <1>1 DEF Good, Spaced
<1>4. ASSUME NEW a \in Actors PROVE OrderAt(phase[a], ev[a])'
  <2>1. OrderAt(phase[a], ev[a])
    BY DEF OrderInv
  <2>2. ev[a].at <= now => ev'[a].at <= now'
    BY <1>1, <1>2
  <2>3. WellEdited(ev[a]) => WellEdited(ev[a])'
    BY <1>1, <1>2 DEF WellEdited, History, Spaced
  <2>4. Good(ev[a].rec, ev[a].r) => Good(ev[a].rec, ev[a].r)'
    BY <1>1, <1>2 DEF Good, History, Spaced
  <2>5. ASSUME NEW q \in RuleIds
        PROVE  /\ Sound(ev[a].todo, q) => Sound(ev[a].todo, q)'
               /\ Sound(ev[a].text, q) => Sound(ev[a].text, q)'
    BY <1>1, <1>2 DEF Sound, Good, History, Spaced
  <2> QED
    BY <1>1, <1>2, <2>1, <2>2, <2>3, <2>4, <2>5 DEF OrderAt
<1>5. ASSUME NEW r \in RuleIds, AtRest(r)' PROVE Sound(file, r)'
  <2>1. AtRest(r)
    BY <1>1, <1>2, <1>5 DEF AtRest
  <2>2. Sound(file, r)
    BY <2>1 DEF OrderInv
  <2> QED
    BY <1>1, <2>2 DEF Sound, Good, History, Spaced
<1>6. Alone'
  BY <1>1 DEF OrderInv, Alone
<1>7. \A r \in RuleIds : wanted'[r] = NoRule => handled'[r] = {} /\ fired'[r] = {}
  BY <1>1 DEF OrderInv
<1> QED
  BY <1>4, <1>5, <1>6, <1>7 DEF OrderInv

(***************************************************************************)
(* No step changes the regime.                                             *)
(***************************************************************************)
LEMMA RegimeStep == [Next]_vars => UNCHANGED orderly
<1>1. ASSUME NEW a \in Actors, Edit(a) PROVE UNCHANGED orderly
  BY <1>1 DEF Edit, Get, Load, Truncate, WriteEdit, Quiet
<1>2. ASSUME NEW a \in Actors, Evaluate(a) PROVE UNCHANGED orderly
  BY <1>2, SMTT(30) DEF Evaluate, ClaimJob, DuplicateJob, BuildEngine, ListAll, EvaluatedAll,
     MarkJob, SaveRaises, WriteEvaluated, Quiet, QuietButLedger
<1>3. ASSUME NEW a \in Actors, EvaluateRule(a) PROVE UNCHANGED orderly
  BY <1>3 DEF EvaluateRule, CooldownActive, ComputeMatches, Notify, ProposeSafeMode,
     ProposeNotSafeMode, Claim, Deduped, PolicyDenied, PolicyAllowed, CreateRaises,
     CreatePending, Settle, Conclude, Quiet, QuietButLedger
<1>4. ASSUME NEW a \in Actors, NEW op \in Ops, NEW r \in RuleIds, NEW b \in Bodies,
             Begin(a, op, r, b)
      PROVE  UNCHANGED orderly
  BY <1>4 DEF Begin
<1> QED
  BY <1>1, <1>2, <1>3, <1>4 DEF Next, Tick, Toggle, Crash, vars

(***************************************************************************)
(* Every step keeps the order of requests that come one at a time.         *)
(***************************************************************************)
LEMMA OrderStep == RuleInv /\ GhostTypes /\ OrderInv /\ [Next]_vars => OrderInv'
<1> SUFFICES ASSUME RuleInv, GhostTypes, OrderInv, [Next]_vars PROVE OrderInv'
  OBVIOUS
<1>1. CASE ~orderly'
  BY <1>1 DEF OrderInv
<1>2. CASE orderly'
  <2>0. orderly /\ (Next \/ UNCHANGED vars) /\ ~(\E h \in Hosts : Crash(h))
        /\ \A a \in Actors : ~SaveRaises(a)
    BY <1>2, RegimeStep DEF Crash, SaveRaises
  <2>1. ASSUME NEW a \in Actors, NEW op \in Ops, NEW r \in RuleIds, NEW b \in Bodies,
               Begin(a, op, r, b)
        PROVE  OrderInv'
    BY <2>0, <2>1, OrderBegin
  <2>2. ASSUME NEW a \in Actors, Edit(a) PROVE OrderInv'
    BY <2>0, <2>2, OrderEdit, OrderWriteEdit DEF Edit
  <2>3. ASSUME NEW a \in Actors, Evaluate(a) PROVE OrderInv'
    BY <2>0, <2>3, OrderEvaluate, OrderWriteEvaluated DEF Evaluate
  <2>4. ASSUME NEW a \in Actors, EvaluateRule(a) PROVE OrderInv'
    <3>1. ASSUME NEW r \in RuleIds, CooldownActive(a, r) PROVE OrderInv'
      BY <2>0, <3>1, NoAnswer, OrderPick
    <3>2. ASSUME NEW r \in RuleIds, NEW found \in Answers, ComputeMatches(a, r, found)
          PROVE  OrderInv'
      BY <2>0, <3>2, OrderPick
    <3> QED
      BY <2>0, <2>4, <3>1, <3>2, OrderAct, OrderConclude DEF EvaluateRule
  <2>5. CASE Tick
    BY <2>0, <2>5, OrderWorld
  <2>6. ASSUME NEW field \in {"safe", "allowed", "scope"}, Toggle(field) PROVE OrderInv'
    BY <2>0, <2>6, OrderWorld
  <2>7. CASE UNCHANGED vars
    BY <2>0, <2>7, OrderWorld
  <2> QED
    BY <2>0, <2>1, <2>2, <2>3, <2>4, <2>5, <2>6, <2>7 DEF Next
<1> QED
  BY <1>1, <1>2

(***************************************************************************)
(* Nothing is handled at first, and the rules are as they were made.       *)
(***************************************************************************)
LEMMA OrderInit == Init => GhostTypes /\ OrderInv
<1> SUFFICES ASSUME Init PROVE GhostTypes /\ OrderInv
  OBVIOUS
<1>1. /\ \A a \in Actors : phase[a] = "idle"
      /\ \A r \in RuleIds : handled[r] = {} /\ fired[r] = {}
  BY DEF Init
<1>2. GhostTypes
  BY DEF Init, GhostTypes
<1>3. \A a \in Actors : OrderAt(phase[a], ev[a])
  BY <1>1 DEF OrderAt, Starting, Acting, Saving
<1>4. ASSUME NEW r \in RuleIds PROVE Sound(file, r)
  <2> SUFFICES ASSUME file[r] # NoRule PROVE Good(file[r], r)
    BY DEF Sound
  <2>1. PICK b \in Bodies : file[r] = NewRule(b)
    BY DEF Init
  <2>2. file[r].seen = <<>> /\ file[r].cursor = NoItem /\ file[r].body = b
    BY <2>1 DEF NewRule
  <2>3. Elements(<<>>) = {}
    BY DEF Elements
  <2>4. wanted[r] = [on |-> TRUE, body |-> b]
    BY <2>2 DEF Init
  <2>5. wanted[r] # NoRule
    <3>1. wanted[r] \in Wishes
      BY <2>4 DEF Wishes
    <3> QED
      BY <3>1, NoRuleIsNone
  <2> QED
    BY <1>1, <2>2, <2>3, <2>5 DEF Good, History, Spaced
<1> QED
  BY <1>1, <1>2, <1>3, <1>4 DEF OrderInv, Alone

(***************************************************************************)
(* The order of requests that come one at a time holds throughout.         *)
(***************************************************************************)
LEMMA OrderAlways == Spec => [](RuleInv /\ GhostTypes /\ OrderInv)
<1>1. Init => GhostTypes /\ OrderInv
  BY OrderInit
<1>2. RuleInv /\ GhostTypes /\ OrderInv /\ [Next]_vars => (GhostTypes /\ OrderInv)'
  BY OrderStep, GhostTypesStep
<1> QED
  BY <1>1, <1>2, RuleSafety, PTL DEF Spec

(***************************************************************************)
(* A rule does not notify twice of an item whose evaluation recorded it in *)
(* the cursors, as long as evaluations do not overlap: the filter lets     *)
(* nothing through that the record's history covers.                       *)
(***************************************************************************)
THEOREM RuleNotifiesOnce == Spec => []NotifiedOnce
<1>1. RuleInv /\ GhostTypes /\ OrderInv => NotifiedOnce
  <2> SUFFICES ASSUME RuleInv, OrderInv, orderly, NEW a \in Actors, phase[a] \in Acting
               PROVE  Notified(a) \cap told[ev[a].r] \cap handled[ev[a].r] = {}
    BY DEF NotifiedOnce
  <2>1. /\ Elements(ev[a].match) \subseteq Elements(ev[a].cands)
        /\ Elements(ev[a].cands) \cap handled[ev[a].r] = {}
    BY DEF OrderInv, OrderAt
  <2>2. Notified(a) \subseteq Elements(ev[a].match)
    BY DEF Notified
  <2> QED
    BY <2>1, <2>2
<1> QED
  BY <1>1, OrderAlways, PTL

(***************************************************************************)
(* A rule that acts is past the cooldown of its last recorded actions, as  *)
(* long as evaluations do not overlap: the saved end of the cooldown is    *)
(* not before the one those actions demand.                                *)
(***************************************************************************)
THEOREM CooldownIsKept == Spec => []CooldownSpacing
<1>1. RuleInv /\ GhostTypes /\ OrderInv => CooldownSpacing
  BY DEF CooldownSpacing, OrderInv, OrderAt
<1> QED
  BY <1>1, OrderAlways, PTL

(***************************************************************************)
(* The cursors pass over nothing that no evaluation has handled, unless a  *)
(* later item overtook it, as long as evaluations do not overlap: the seen *)
(* ids and the cursor of a stored record come from handled items.          *)
(***************************************************************************)
THEOREM NothingIsSkipped == Spec => []SkippedOnlyIfOvertaken
<1>1. RuleInv /\ GhostTypes /\ OrderInv => SkippedOnlyIfOvertaken
  <2> SUFFICES ASSUME RuleInv, OrderInv, orderly, AllIdle, NEW r \in RuleIds,
                      NEW m \in Items, file[r] # NoRule, IsOld(file[r], m)
               PROVE  \/ m \in handled[r]
                      \/ Stamped(m) /\ \E n \in handled[r] : TsOf[m] <= TsOf[n]
    BY DEF SkippedOnlyIfOvertaken
  <2>1. AtRest(r)
    BY DEF AllIdle, AtRest, Saving
  <2>2. History(file[r], handled[r])
    BY <2>1 DEF OrderInv, Sound, Good
  <2> QED
    BY <2>2 DEF IsOld, History
<1> QED
  BY <1>1, OrderAlways, PTL

-----------------------------------------------------------------------------
(* Edits.                                                                  *)

AsWanted(rec, r) == wanted[r] = [on |-> rec.on, body |-> rec.body]

\* A text of rules.jsonl holds what the last finished edit asked for.
Current(f, r) ==
    IF wanted[r] \in {NoRule, Gone} THEN f[r] = NoRule
    ELSE f[r] # NoRule /\ AsWanted(f[r], r)

\* What a thread whose reading of the file is not stale is about to write.
EditAt(p, w) ==
    /\ p \in Starting \cup {"mark_job"} \cup Acting => w.op \in Evaluations
    /\ p \in Saving => w.op \in Ops /\ w.rec \in Stored
    /\ p = "get" => w.rec.on = TRUE
    /\ p \in Saving /\ w.op \in Edits \ {"reset", "delete"} =>
          w.rec.on = (w.op # "disable")
    /\ p \in {"pick"} \cup Saving \cup Acting /\ w.op \in Evaluations /\ ~w.stale =>
          \A q \in RuleIds : w.todo[q] # NoRule => AsWanted(w.todo[q], q)
    /\ p \in Saving \cup Acting /\ w.op \in Evaluations /\ ~w.stale =>
          AsWanted(w.rec, w.r)
    /\ p \in {"truncate", "write"} =>
          w.text[w.r] = IF w.op = "delete" THEN NoRule ELSE w.rec
    /\ p \in {"truncate", "write"} /\ ~w.stale =>
          \A q \in RuleIds : q # w.r => Current(w.text, q)
    /\ p = "write" /\ ~w.stale => file = EmptyFile

EditInv ==
    clean =>
        /\ ~Writing => \A r \in RuleIds : Current(file, r)
        /\ \A a \in Actors : EditAt(phase[a], ev[a])

(***************************************************************************)
(* A thread that goes on without changing the file or the wishes.          *)
(***************************************************************************)
LEMMA EditGoto ==
    ASSUME RuleInv, EditInv, NEW a \in Actors, NEW to, NEW work, Goto(a, to, work),
           phase[a] # "write", to # "write", UNCHANGED <<file, wanted, clean>>,
           clean => EditAt(to, work)
    PROVE  EditInv'
<1>1. /\ phase'[a] = to /\ ev'[a] = work
      /\ \A b \in Actors : b # a => phase'[b] = phase[b] /\ ev'[b] = ev[b]
  BY DEF Goto, RuleInv, ThreadInv
<1>2. Writing' <=> Writing
  BY <1>1 DEF Writing
<1>3. ASSUME clean', ~Writing' PROVE \A r \in RuleIds : Current(file, r)'
  BY <1>2, <1>3 DEF EditInv, Current, AsWanted
<1>4. ASSUME clean', NEW b \in Actors PROVE EditAt(phase[b], ev[b])'
  <2>1. CASE b = a
    BY <1>1, <1>4, <2>1 DEF EditAt, Current, AsWanted
  <2>2. CASE b # a
    <3>1. EditAt(phase[b], ev[b]) /\ phase'[b] = phase[b] /\ ev'[b] = ev[b]
      BY <1>1, <1>4, <2>2 DEF EditInv
    <3> QED
      BY <3>1 DEF EditAt, Current, AsWanted
  <2> QED
    BY <2>1, <2>2
<1> QED
  BY <1>3, <1>4 DEF EditInv

(***************************************************************************)
(* A thread that changes the file: what the others have read is stale.     *)
(***************************************************************************)
LEMMA EditOutdated ==
    ASSUME RuleInv, EditInv, NEW a \in Actors, NEW to, NEW work,
           phase' = [phase EXCEPT ![a] = to], ev' = Outdated(a, work),
           clean' => clean, clean' => EditAt(phase[a], ev[a])',
           clean' /\ ~Writing' => \A r \in RuleIds : Current(file, r)'
    PROVE  EditInv'
<1>1. ASSUME clean', NEW b \in Actors, b # a PROVE EditAt(phase[b], ev[b])'
  <2> DEFINE st == (phase[b] # "idle")
  <2>1. EditAt(phase[b], ev[b]) /\ ev[b] \in Works
    BY <1>1 DEF EditInv, RuleInv, ThreadInv
  <2>2. phase'[b] = phase[b] /\ ev'[b] = [ev[b] EXCEPT !.stale = st]
    BY <1>1 DEF Outdated, RuleInv, ThreadInv
  <2>3. CASE phase[b] = "idle"
    BY <2>2, <2>3 DEF EditAt, Starting, Saving, Acting
  <2>4. CASE phase[b] # "idle"
    <3>1. st = TRUE
      BY <2>4
    <3> HIDE DEF st
    <3>2. /\ ev'[b].op = ev[b].op /\ ev'[b].r = ev[b].r /\ ev'[b].rec = ev[b].rec
          /\ ev'[b].text = ev[b].text /\ ev'[b].stale = TRUE
      BY <2>1, <2>2, <3>1 DEF Works
    <3> QED
      BY <2>1, <2>2, <3>2 DEF EditAt
  <2> QED
    BY <2>3, <2>4
<1> QED
  BY <1>1 DEF EditInv

(***************************************************************************)
(* An edit with an enabled record leaves the rule enabled, unless it       *)
(* disables it; _update_cursors and the cooldown change neither.           *)
(***************************************************************************)
LEMMA EditedSwitch ==
    ASSUME NEW op \in {"update", "enable", "disable"}, NEW rec \in Stored,
           NEW new \in Stored, new.on = TRUE
    PROVE  Edited(op, rec, new).on = (op # "disable")
<1>1. CASE op = "update"
  BY <1>1 DEF Edited, Stored, Records
<1>2. CASE op = "enable"
  BY <1>2 DEF Edited, Stored, Records
<1>3. CASE op = "disable"
  BY <1>3 DEF Edited, Stored, Records
<1> QED
  BY <1>1, <1>2, <1>3

LEMMA CooledKeeps ==
    ASSUME NEW a \in Actors, ev[a].rec \in Stored
    PROVE  Cooled(a).on = ev[a].rec.on /\ Cooled(a).body = ev[a].rec.body
<1> DEFINE until == ev[a].at + ev[a].rec.body.cooldown
<1>1. Cooled(a) \in {ev[a].rec, [ev[a].rec EXCEPT !.until = until]}
  BY DEF Cooled
<1> HIDE DEF until
<1> QED
  BY <1>1 DEF Stored, Records

(***************************************************************************)
(* A record that is as wanted is not one of a rule that is gone.           *)
(***************************************************************************)
LEMMA WantedIsThere ==
    ASSUME NEW rec \in Stored, NEW r \in RuleIds, AsWanted(rec, r)
    PROVE  wanted[r] \notin {NoRule, Gone} /\ rec # NoRule
<1>1. rec \in Records /\ rec.on \in BOOLEAN /\ rec.body \in Bodies
  BY DEF Stored, Records
<1>2. wanted[r] \in Wishes /\ wanted[r].body = rec.body
  BY <1>1 DEF AsWanted, Wishes
<1>3. Gone.body = NoRule
  BY DEF Gone
<1> QED
  BY <1>1, <1>2, <1>3, NoRuleIsNone

(***************************************************************************)
(* A request begins; a new rule is enabled, and so is the record with      *)
(* which an update replaces the one it gets.                               *)
(***************************************************************************)
LEMMA EditBegin ==
    ASSUME RuleInv, EditInv, NEW a \in Actors, NEW op \in Ops, NEW r \in RuleIds,
           NEW b \in Bodies, Begin(a, op, r, b)
    PROVE  EditInv'
<1> DEFINE rec == IF op \in Edits THEN NewRule(b) ELSE NoRule
           work == [NoWork EXCEPT !.op = op, !.r = r, !.rec = rec]
<1>1. /\ Goto(a, FirstPhase[op], work) /\ phase[a] = "idle"
      /\ UNCHANGED <<file, wanted, clean>>
  BY DEF Begin, ghosts
<1>2. op \in Edits => rec \in Stored /\ rec.on = TRUE
  BY RecordTypes DEF NewRule
<1> HIDE DEF rec
<1>3. work.op = op /\ work.rec = rec
  BY RecordTypes DEF Works
<1> HIDE DEF work
<1>4. EditAt(FirstPhase[op], work)
  <2>1. CASE op \in Edits
    <3>1. FirstPhase[op] \in {"load", "get"} /\ op \notin Evaluations
      BY <2>1 DEF FirstPhase, Ops, Edits, Evaluations
    <3>2. FirstPhase[op] = "load" => op \in {"create", "delete"}
      BY <2>1 DEF FirstPhase, Ops, Edits
    <3>3. FirstPhase[op] = "load" /\ op # "delete" => work.rec.on = (op # "disable")
      BY <1>2, <1>3, <2>1, <3>2
    <3> QED
      BY <1>2, <1>3, <2>1, <3>1, <3>2, <3>3 DEF EditAt, Starting, Acting, Saving
  <2>2. CASE op \in Evaluations
    <3>1. FirstPhase[op] \in {"job", "engine"}
      BY <2>2 DEF FirstPhase, Ops, Edits, Evaluations
    <3> QED
      BY <1>3, <2>2, <3>1 DEF EditAt, Acting, Saving
  <2> QED
    BY <2>1, <2>2 DEF Ops
<1>5. FirstPhase[op] # "write"
  BY DEF FirstPhase, Ops, Edits, Evaluations
<1> QED
  BY <1>1, <1>4, <1>5, EditGoto

(***************************************************************************)
(* A thread that is done has nothing to write.                             *)
(***************************************************************************)
LEMMA EditFinish ==
    ASSUME RuleInv, EditInv, NEW a \in Actors, Finish(a), phase[a] # "write",
           UNCHANGED <<file, wanted, clean>>
    PROVE  EditInv'
<1>1. EditAt("idle", NoWork)
  BY DEF EditAt, Starting, Acting, Saving
<1> QED
  BY <1>1, EditGoto DEF Finish

(***************************************************************************)
(* The steps of an edit and of a save up to the write.  Who loads a file   *)
(* that is being written has read something stale.                         *)
(***************************************************************************)
LEMMA EditUpsert ==
    ASSUME RuleInv, EditInv, NEW a \in Actors, Get(a) \/ Load(a) \/ Truncate(a)
    PROVE  EditInv'
<1>1. /\ ev[a] \in Works /\ LocatedAt(phase[a], ev[a]) /\ file \in StoredFiles
      /\ ev[a].r \in RuleIds
  BY DEF RuleInv, ThreadInv, WorldTypes, Works
<1>2. clean => EditAt(phase[a], ev[a])
  BY DEF EditInv
<1>3. CASE Get(a)
  <2> DEFINE old == file[ev[a].r]
             rec == Edited(ev[a].op, old, ev[a].rec)
             st == Writing
             work == [ev[a] EXCEPT !.stale = st, !.rec = rec]
  <2>1. phase[a] = "get" /\ UNCHANGED <<file, wanted, clean>>
    BY <1>3 DEF Get, Quiet, ghosts
  <2>2. CASE old = NoRule
    BY <1>3, <2>1, <2>2, EditFinish DEF Get
  <2>3. CASE old # NoRule
    <3>1. Goto(a, "load", work)
      BY <1>3, <2>3 DEF Get
    <3>2. /\ old \in Stored /\ ev[a].rec \in Stored
          /\ ev[a].op \in {"update", "enable", "disable", "reset"}
      BY <1>1, <2>1, <2>3 DEF StoredFiles, LocatedAt, Edits
    <3> HIDE DEF old
    <3>3. rec \in Stored
      BY <3>2, RecordTypes DEF Edits
    <3>4. clean /\ ev[a].op # "reset" => rec.on = (ev[a].op # "disable")
      BY <1>2, <2>1, <3>2, EditedSwitch DEF EditAt
    <3> HIDE DEF rec, st
    <3>5. work.op = ev[a].op /\ work.rec = rec
      BY <1>1 DEF Works
    <3> HIDE DEF work
    <3>6. clean => EditAt("load", work)
      BY <3>2, <3>3, <3>4, <3>5 DEF EditAt, Starting, Acting, Saving, Ops, Edits,
                                    Evaluations
    <3> QED
      BY <2>1, <3>1, <3>6, EditGoto
  <2> QED
    BY <2>2, <2>3
<1>4. CASE Load(a)
  <2>1. phase[a] = "load" /\ UNCHANGED <<file, wanted, clean>>
    BY <1>4 DEF Load, Quiet, ghosts
  <2>2. CASE ev[a].op = "delete" /\ file[ev[a].r] = NoRule
    BY <1>4, <2>1, <2>2, EditFinish DEF Load
  <2>3. CASE ~(ev[a].op = "delete" /\ file[ev[a].r] = NoRule)
    <3> DEFINE st == Writing \/ (ev[a].stale /\ ev[a].op \notin {"create", "delete"})
               text == Upserted(a)
               work == [ev[a] EXCEPT !.text = text, !.stale = st]
    <3>1. Goto(a, "truncate", work)
      BY <1>4, <2>3 DEF Load
    <3>2. /\ \A q \in RuleIds : q # ev[a].r => text[q] = file[q]
          /\ text[ev[a].r] = IF ev[a].op = "delete" THEN NoRule ELSE ev[a].rec
      BY <1>1 DEF StoredFiles, Upserted
    <3>3. /\ st \in BOOLEAN /\ (st = FALSE => ~Writing)
          /\ st = FALSE /\ ev[a].op \in Evaluations => ev[a].stale = FALSE
      <4>1. st \in BOOLEAN /\ (st = FALSE => ~Writing)
        BY DEF Writing
      <4>2. ev[a].op \in Evaluations => ev[a].op \notin {"create", "delete"}
        BY DEF Evaluations
      <4>3. ev[a].stale \in BOOLEAN
        BY <1>1 DEF Works
      <4> QED
        BY <4>1, <4>2, <4>3
    <3> HIDE DEF st, text
    <3>4. /\ work.op = ev[a].op /\ work.r = ev[a].r /\ work.rec = ev[a].rec
          /\ work.todo = ev[a].todo /\ work.text = text /\ work.stale = st
      BY <1>1 DEF Works
    <3> HIDE DEF work
    <3>5. clean /\ st = FALSE => \A q \in RuleIds : q # ev[a].r => Current(text, q)
      BY <3>2, <3>3 DEF EditInv, Current
    <3>6. clean => EditAt("truncate", work)
      BY <1>2, <2>1, <3>2, <3>3, <3>4, <3>5 DEF EditAt, Starting, Acting, Saving
    <3> QED
      BY <2>1, <3>1, <3>6, EditGoto
  <2> QED
    BY <2>2, <2>3
<1>5. CASE Truncate(a)
  <2>1. /\ phase[a] = "truncate" /\ phase' = [phase EXCEPT ![a] = "write"]
        /\ phase'[a] = "write" /\ ev' = Outdated(a, ev[a]) /\ ev'[a] = ev[a]
        /\ file' = EmptyFile /\ UNCHANGED <<wanted, clean>>
    BY <1>5 DEF Truncate, Outdated, RuleInv, ThreadInv, ghosts
  <2>2. clean' => EditAt(phase[a], ev[a])'
    BY <1>2, <2>1 DEF EditAt, Current, AsWanted, Starting, Acting, Saving
  <2>3. Writing'
    BY <2>1 DEF Writing
  <2> QED
    BY <2>1, <2>2, <2>3, EditOutdated
<1> QED
  BY <1>3, <1>4, <1>5

(***************************************************************************)
(* The write of an edit that has read nothing stale: the file has what the *)
(* edit asked for, and what was wanted of the other rules.                 *)
(***************************************************************************)
LEMMA EditWrite ==
    ASSUME RuleInv, GhostTypes, EditInv, NEW a \in Actors, WriteEdit(a)
    PROVE  EditInv'
<1> DEFINE r == ev[a].r
           op == ev[a].op
           rec == ev[a].rec
           wish == IF op = "delete" THEN Gone
                   ELSE [on |-> IF op = "reset" THEN rec.on ELSE op # "disable",
                         body |-> rec.body]
<1>1. /\ phase[a] = "write" /\ op \in Edits /\ Written(a)
      /\ phase' = [phase EXCEPT ![a] = "idle"] /\ ev' = Outdated(a, NoWork)
      /\ wanted' = [wanted EXCEPT ![r] = wish]
      /\ phase'[a] = "idle" /\ clean' = (clean /\ ~ev[a].stale)
  BY DEF WriteEdit, Written, RuleInv, ThreadInv
<1>2. clean' => EditAt(phase[a], ev[a])'
  BY <1>1 DEF EditAt, Starting, Saving, Acting
<1>3. ASSUME clean' PROVE \A q \in RuleIds : Current(file, q)'
  <2>1. /\ clean /\ ~ev[a].stale /\ EditAt(phase[a], ev[a])
    BY <1>1, <1>3 DEF EditInv
  <2>2. /\ rec \in Stored /\ r \in RuleIds /\ file = EmptyFile
        /\ op \notin {"reset", "delete"} => rec.on = (op # "disable")
        /\ ev[a].text[r] = IF op = "delete" THEN NoRule ELSE rec
        /\ \A q \in RuleIds : q # r => Current(ev[a].text, q)
    BY <1>1, <2>1 DEF EditAt, Saving, RuleInv, ThreadInv, Works
  <2>3. \A q \in RuleIds : file'[q] = ev[a].text[q]
    BY <1>1, <2>2, WritesText
  <2>4. wanted'[r] = wish /\ \A q \in RuleIds : q # r => wanted'[q] = wanted[q]
    BY <1>1, <2>2 DEF GhostTypes
  <2>5. /\ op = "delete" => wish = Gone
        /\ op # "delete" => wish = [on |-> rec.on, body |-> rec.body]
    <3>1. CASE op = "delete"
      BY <3>1
    <3>2. CASE op = "reset"
      BY <3>2
    <3>3. CASE op \notin {"reset", "delete"}
      BY <2>2, <3>3
    <3> QED
      BY <3>1, <3>2, <3>3
  <2>6. op # "delete" => wish \notin {NoRule, Gone} /\ rec # NoRule
    <3>1. rec \in Records /\ rec.on \in BOOLEAN /\ rec.body \in Bodies
      BY <2>2 DEF Stored, Records
    <3>2. op # "delete" => wish \in Wishes /\ wish.body = rec.body
      BY <2>5, <3>1 DEF Wishes
    <3>3. Gone.body = NoRule
      BY DEF Gone
    <3> QED
      BY <3>1, <3>2, <3>3, NoRuleIsNone
  <2> HIDE DEF wish
  <2>7. ASSUME NEW q \in RuleIds PROVE Current(file, q)'
    <3>1. CASE q # r
      <4>1. Current(ev[a].text, q)
        BY <2>2, <3>1
      <4> QED
        BY <2>3, <2>4, <3>1, <4>1 DEF Current, AsWanted
    <3>2. CASE q = r /\ op = "delete"
      <4>1. file'[q] = NoRule /\ wanted'[q] = Gone
        BY <2>2, <2>3, <2>4, <2>5, <3>2
      <4> QED
        BY <4>1 DEF Current
    <3>3. CASE q = r /\ op # "delete"
      <4>1. /\ file'[q] = rec /\ rec # NoRule /\ wanted'[q] \notin {NoRule, Gone}
            /\ wanted'[q] = [on |-> rec.on, body |-> rec.body]
        BY <2>2, <2>3, <2>4, <2>5, <2>6, <3>3
      <4>2. wanted'[q] = [on |-> file'[q].on, body |-> file'[q].body]
        BY <4>1
      <4> QED
        BY <4>1, <4>2 DEF Current, AsWanted
    <3> QED
      BY <3>1, <3>2, <3>3
  <2> QED
    BY <2>7
<1> QED
  BY <1>1, <1>2, <1>3, EditOutdated

(***************************************************************************)
(* The write of an evaluation that has read nothing stale: its rule's      *)
(* record is still as wanted.                                              *)
(***************************************************************************)
LEMMA EditWriteEvaluated ==
    ASSUME RuleInv, EditInv, NEW a \in Actors, WriteEvaluated(a)
    PROVE  EditInv'
<1> DEFINE r == ev[a].r
           rec == ev[a].rec
           work == [NoWork EXCEPT !.op = ev[a].op, !.key = ev[a].key,
                      !.todo = ev[a].todo, !.stale = ev[a].stale,
                      !.allowed = ev[a].allowed, !.scope = ev[a].scope]
<1>1. /\ phase[a] = "write" /\ ev[a].op \in Evaluations /\ Written(a)
      /\ phase' = [phase EXCEPT ![a] = "pick"] /\ ev' = Outdated(a, work)
      /\ phase'[a] = "pick" /\ ev'[a] = work
      /\ UNCHANGED wanted /\ clean' = (clean /\ ~ev[a].stale)
  BY DEF WriteEvaluated, Written, Outdated, RuleInv, ThreadInv
<1>2. work.op = ev[a].op /\ work.todo = ev[a].todo /\ work.stale = ev[a].stale
  BY RecordTypes DEF Works
<1> HIDE DEF work
<1>3. ASSUME clean'
      PROVE  /\ \A q \in RuleIds : Current(file, q)'
             /\ EditAt(phase[a], ev[a])'
  <2>1. /\ clean /\ ~ev[a].stale /\ EditAt(phase[a], ev[a])
    BY <1>1, <1>3 DEF EditInv
  <2>2. /\ rec \in Stored /\ r \in RuleIds /\ file = EmptyFile /\ AsWanted(rec, r)
        /\ ev[a].text[r] = rec
        /\ \A q \in RuleIds : q # r => Current(ev[a].text, q)
    BY <1>1, <2>1 DEF EditAt, Saving, RuleInv, ThreadInv, Works, Evaluations
  <2>3. \A q \in RuleIds : file'[q] = ev[a].text[q]
    BY <1>1, <2>2, WritesText
  <2>4. wanted[r] \notin {NoRule, Gone} /\ rec # NoRule
    BY <2>2, WantedIsThere
  <2>5. \A q \in RuleIds : Current(ev[a].text, q)
    BY <2>2, <2>4 DEF Current
  <2>6. \A q \in RuleIds : Current(file, q)'
    BY <1>1, <2>3, <2>5 DEF Current, AsWanted
  <2>7. \A q \in RuleIds : ev[a].todo[q] # NoRule => AsWanted(ev[a].todo[q], q)
    BY <1>1, <2>1 DEF EditAt, Saving
  <2>8. EditAt(phase[a], ev[a])'
    BY <1>1, <1>2, <2>7 DEF EditAt, AsWanted, Starting, Saving, Acting
  <2> QED
    BY <2>6, <2>8
<1> QED
  BY <1>1, <1>3, EditOutdated

(***************************************************************************)
(* The steps of an evaluation outside its rules: it loads what is wanted,  *)
(* or something stale.                                                     *)
(***************************************************************************)
LEMMA EditEvaluate ==
    ASSUME RuleInv, EditInv, NEW a \in Actors,
           \/ ClaimJob(a) \/ DuplicateJob(a) \/ BuildEngine(a) \/ ListAll(a)
           \/ EvaluatedAll(a) \/ MarkJob(a) \/ SaveRaises(a)
    PROVE  EditInv'
<1>1. /\ UNCHANGED <<file, wanted, clean>> /\ phase[a] # "write"
  BY DEF ClaimJob, DuplicateJob, BuildEngine, ListAll, EvaluatedAll, MarkJob, Quiet,
         QuietButLedger, ghosts, SaveRaises
<1>2. ev[a] \in Works /\ (clean => EditAt(phase[a], ev[a]))
  BY DEF EditInv, RuleInv, ThreadInv
<1>3. \A to, w : w.op \in Evaluations /\ to \in {"engine", "list", "mark_job"} =>
          EditAt(to, w)
  BY DEF EditAt, Starting, Acting, Saving
<1>4. phase[a] \in Starting /\ clean => ev[a].op \in Evaluations
  BY <1>2 DEF EditAt
<1>5. CASE ClaimJob(a)
  <2> DEFINE work == [ev[a] EXCEPT !.key = <<now>>]
  <2>1. phase[a] = "job" /\ Goto(a, "engine", work) /\ work.op = ev[a].op
    BY <1>2, <1>5 DEF ClaimJob, Works
  <2> HIDE DEF work
  <2>2. clean => EditAt("engine", work)
    BY <1>3, <1>4, <2>1 DEF Starting
  <2> QED
    BY <1>1, <2>1, <2>2, EditGoto
<1>6. ASSUME Finish(a) PROVE EditInv'
  BY <1>1, <1>6, EditFinish
<1>7. CASE BuildEngine(a)
  <2> DEFINE work == [ev[a] EXCEPT !.allowed = policy.allowed, !.scope = policy.scope]
  <2>1. phase[a] = "engine" /\ Goto(a, "list", work) /\ work.op = ev[a].op
    BY <1>2, <1>7 DEF BuildEngine, Works
  <2> HIDE DEF work
  <2>2. clean => EditAt("list", work)
    BY <1>3, <1>4, <2>1 DEF Starting
  <2> QED
    BY <1>1, <2>1, <2>2, EditGoto
<1>8. CASE ListAll(a)
  <2> DEFINE todo == [r \in RuleIds |-> IF file[r] # NoRule /\ file[r].on
                                          THEN file[r] ELSE NoRule]
             st == Writing
             work == [ev[a] EXCEPT !.todo = todo, !.stale = st]
  <2>1. phase[a] = "list" /\ Goto(a, "pick", work)
    BY <1>8 DEF ListAll
  <2>2. \A q \in RuleIds : todo[q] = NoRule \/ todo[q] = file[q]
    OBVIOUS
  <2>3. clean /\ ~st => \A q \in RuleIds : Current(file, q)
    BY DEF EditInv
  <2> HIDE DEF todo, st
  <2>4. work.op = ev[a].op /\ work.todo = todo /\ work.stale = st
    BY <1>2 DEF Works
  <2> HIDE DEF work
  <2>5. clean /\ ~st => \A q \in RuleIds : todo[q] # NoRule => AsWanted(todo[q], q)
    BY <2>2, <2>3 DEF Current
  <2>6. clean => EditAt("pick", work)
    BY <1>4, <2>1, <2>4, <2>5 DEF EditAt, Starting, Acting, Saving
  <2> QED
    BY <1>1, <2>1, <2>6, EditGoto
<1>9. CASE EvaluatedAll(a)
  <2>1. phase[a] = "pick" /\ (Goto(a, "mark_job", ev[a]) \/ Finish(a))
    BY <1>9 DEF EvaluatedAll
  <2>2. clean => EditAt("mark_job", ev[a])
    BY <1>3, <1>4, <2>1 DEF Starting
  <2>3. ASSUME Goto(a, "mark_job", ev[a]) PROVE EditInv'
    BY <1>1, <2>2, <2>3, EditGoto
  <2> QED
    BY <1>6, <2>1, <2>3
<1> QED
  BY <1>5, <1>6, <1>7, <1>8, <1>9 DEF DuplicateJob, MarkJob, SaveRaises

(***************************************************************************)
(* A rule begins with a record that is as wanted, or stale.                *)
(***************************************************************************)
LEMMA EditPick ==
    ASSUME RuleInv, EditInv, NEW a \in Actors, NEW r \in RuleIds, NEW found \in Answers,
           CooldownActive(a, r) \/ ComputeMatches(a, r, found)
    PROVE  EditInv'
<1> DEFINE rec == ev[a].todo[r]
           left == [ev[a].todo EXCEPT ![r] = NoRule]
           base == [ev[a] EXCEPT !.r = r, !.rec = rec, !.todo = left]
<1>1. /\ phase[a] = "pick" /\ rec # NoRule /\ UNCHANGED <<file, wanted, clean>>
  BY DEF CooldownActive, ComputeMatches, Quiet, ghosts
<1>2. ev[a] \in Works /\ rec \in Stored /\ (clean => EditAt("pick", ev[a]))
  BY <1>1 DEF EditInv, RuleInv, ThreadInv, Works, StoredFiles
<1>3. /\ clean => ev[a].op \in Evaluations
      /\ clean /\ ~ev[a].stale =>
            /\ AsWanted(rec, r)
            /\ \A q \in RuleIds : left[q] # NoRule => AsWanted(left[q], q)
  BY <1>1, <1>2 DEF EditAt, Starting, Works, StoredFiles
<1>4. ASSUME NEW to \in {"load", "act", "finish"}, NEW w, Goto(a, to, w),
             w.op = ev[a].op, w.r = r, w.rec = rec, w.todo = left,
             w.stale = ev[a].stale
      PROVE  EditInv'
  <2>1. clean => EditAt(to, w)
    BY <1>2, <1>3, <1>4 DEF EditAt, Starting, Acting, Saving, Ops, Edits, Evaluations
  <2> QED
    BY <1>1, <1>4, <2>1, EditGoto
<1>5. CASE CooldownActive(a, r)
  <2>1. Goto(a, "load", base)
    BY <1>5 DEF CooldownActive
  <2> HIDE DEF rec, left
  <2>2. /\ base.op = ev[a].op /\ base.r = r /\ base.rec = rec /\ base.todo = left
        /\ base.stale = ev[a].stale
    BY <1>2 DEF Works
  <2> HIDE DEF base
  <2> QED
    BY <1>4, <2>1, <2>2
<1>6. CASE ComputeMatches(a, r, found)
  <2> DEFINE cands == FilterNewItems(rec, found)
             match == MatchingItems(rec.body, cands)
             promised == IF ev[a].allowed = policy.allowed /\ ev[a].scope = policy.scope
                           THEN Preview(rec.body, match) ELSE {}
             work == [base EXCEPT !.at = now, !.cands = cands, !.match = match,
                                  !.promised = promised]
             to == IF match = <<>> THEN "finish" ELSE AfterActions(rec.body, 1, {})
  <2>1. Goto(a, "load", base) \/ Goto(a, to, work)
    BY <1>6 DEF ComputeMatches
  <2>2. to \in {"finish", "act"}
    BY DEF AfterActions
  <2> HIDE DEF rec, left, cands, match, promised, to
  <2>3. /\ base.op = ev[a].op /\ base.r = r /\ base.rec = rec /\ base.todo = left
        /\ base.stale = ev[a].stale
        /\ work.op = ev[a].op /\ work.r = r /\ work.rec = rec /\ work.todo = left
        /\ work.stale = ev[a].stale
    BY <1>2 DEF Works
  <2> HIDE DEF base, work
  <2> QED
    BY <1>4, <2>1, <2>2, <2>3
<1> QED
  BY <1>5, <1>6

(***************************************************************************)
(* The actions of a rule and its end change its cursors and its cooldown,  *)
(* but not what an edit asks for.                                          *)
(***************************************************************************)
LEMMA EditAct ==
    ASSUME RuleInv, EditInv, NEW a \in Actors,
           \/ Notify(a) \/ ProposeSafeMode(a) \/ ProposeNotSafeMode(a)
           \/ Claim(a) \/ Deduped(a) \/ PolicyDenied(a) \/ PolicyAllowed(a)
           \/ CreateRaises(a) \/ CreatePending(a) \/ Settle(a) \/ Conclude(a)
    PROVE  EditInv'
<1>1. phase[a] \in Acting /\ phase[a] # "write" /\ UNCHANGED <<file, wanted, clean>>
  BY DEF Notify, ProposeSafeMode, ProposeNotSafeMode, Claim, Deduped, PolicyDenied,
         PolicyAllowed, CreateRaises, CreatePending, Settle, Conclude, Advance, Quiet,
         QuietButLedger, ghosts, Acting
<1>2. /\ ev[a] \in Works /\ ev[a].rec \in Stored /\ ev[a].r \in RuleIds
      /\ clean => EditAt(phase[a], ev[a])
  BY <1>1 DEF EditInv, RuleInv, ThreadInv, LocatedAt, Works
<1>3. ASSUME NEW to \in Acting \cup {"load"}, NEW work, Goto(a, to, work),
             work.op = ev[a].op, work.r = ev[a].r, work.todo = ev[a].todo,
             work.stale = ev[a].stale, work.rec \in Stored,
             work.rec.on = ev[a].rec.on, work.rec.body = ev[a].rec.body
      PROVE  EditInv'
  <2>1. clean => EditAt(to, work)
    <3>1. AsWanted(ev[a].rec, ev[a].r) => AsWanted(work.rec, ev[a].r)
      BY <1>3 DEF AsWanted
    <3> QED
      BY <1>1, <1>2, <1>3, <3>1 DEF EditAt, Starting, Acting, Saving, Ops, Edits,
                                    Evaluations
  <2>2. to # "write"
    BY DEF Acting
  <2> QED
    BY <1>1, <1>3, <2>1, <2>2, EditGoto
<1>4. ASSUME NEW to \in {"claim", "policy", "create", "settle", "load"},
             Goto(a, to, ev[a])
      PROVE  EditInv'
  BY <1>2, <1>3, <1>4 DEF Acting
<1>5. ASSUME NEW acted, NEW dup, Advance(a, acted, dup) PROVE EditInv'
  <2> DEFINE n == ev[a].i + 1
             to == AfterActions(ev[a].rec.body, n, acted)
             work == [ev[a] EXCEPT !.i = n, !.acted = acted, !.dup = dup]
  <2>1. Goto(a, to, work)
    BY <1>5 DEF Advance
  <2>2. to \in Acting
    BY DEF AfterActions, Acting
  <2> HIDE DEF n, to
  <2>3. /\ work.op = ev[a].op /\ work.r = ev[a].r /\ work.rec = ev[a].rec
        /\ work.todo = ev[a].todo /\ work.stale = ev[a].stale
    BY <1>2 DEF Works
  <2> HIDE DEF work
  <2> QED
    BY <1>2, <1>3, <2>1, <2>2, <2>3
<1>6. CASE Conclude(a)
  <2> DEFINE cooled == Cooled(a)
             rec == IF UpdateRaises(ev[a].rec, ev[a].cands) THEN cooled
                    ELSE Advanced(cooled, ev[a].cands)
             work == [ev[a] EXCEPT !.rec = rec]
  <2>1. Goto(a, "load", work)
    BY <1>6 DEF Conclude
  <2>2. cooled \in Stored /\ cooled.on = ev[a].rec.on /\ cooled.body = ev[a].rec.body
    BY <1>2, CooledType, CooledKeeps
  <2>3. ev[a].cands \in Seq(Items)
    BY <1>2 DEF Works
  <2> HIDE DEF cooled
  <2>4. rec \in Stored /\ rec.on = ev[a].rec.on /\ rec.body = ev[a].rec.body
    BY <2>2, <2>3, AdvancedType, AdvancedKeeps
  <2> HIDE DEF rec
  <2>5. /\ work.op = ev[a].op /\ work.r = ev[a].r /\ work.rec = rec
        /\ work.todo = ev[a].todo /\ work.stale = ev[a].stale
    BY <1>2 DEF Works
  <2> HIDE DEF work
  <2> QED
    BY <1>3, <2>1, <2>4, <2>5
<1>7. CASE Notify(a)
  BY <1>5, <1>7 DEF Notify
<1>8. CASE ProposeSafeMode(a)
  BY <1>5, <1>8 DEF ProposeSafeMode
<1>9. CASE ProposeNotSafeMode(a)
  BY <1>4, <1>9 DEF ProposeNotSafeMode
<1>10. CASE Claim(a)
  BY <1>4, <1>10 DEF Claim
<1>11. CASE Deduped(a)
  BY <1>5, <1>11 DEF Deduped
<1>12. CASE PolicyDenied(a)
  BY <1>5, <1>12 DEF PolicyDenied
<1>13. CASE PolicyAllowed(a)
  BY <1>4, <1>13 DEF PolicyAllowed
<1>14. CASE CreateRaises(a)
  BY <1>4, <1>14 DEF CreateRaises
<1>15. CASE CreatePending(a)
  BY <1>4, <1>15 DEF CreatePending
<1>16. CASE Settle(a)
  BY <1>5, <1>16 DEF Settle
<1> QED
  BY <1>6, <1>7, <1>8, <1>9, <1>10, <1>11, <1>12, <1>13, <1>14, <1>15, <1>16

(***************************************************************************)
(* The world changes neither the file nor what is wanted; a process that   *)
(* dies while it writes leaves the ghost clean FALSE.                      *)
(***************************************************************************)
LEMMA EditWorld ==
    ASSUME RuleInv, EditInv,
           \/ Tick
           \/ \E field \in {"safe", "allowed", "scope"} : Toggle(field)
           \/ \E h \in Hosts : Crash(h)
           \/ UNCHANGED vars
    PROVE  EditInv'
<1>1. UNCHANGED <<file, wanted>> /\ (clean' => clean)
      /\ (clean' /\ ~Writing' => ~Writing)
  <2>1. CASE \E h \in Hosts : Crash(h)
    BY <2>1 DEF Crash, Writing, ThreadsOf, RuleInv, ThreadInv
  <2>2. CASE Tick
    BY <2>2 DEF Tick, Writing, ghosts
  <2>3. CASE \E field \in {"safe", "allowed", "scope"} : Toggle(field)
    BY <2>3 DEF Toggle, Writing, ghosts
  <2>4. CASE UNCHANGED vars
    BY <2>4 DEF vars, Writing, ghosts
  <2> QED
    BY <2>1, <2>2, <2>3, <2>4
<1>2. ASSUME NEW a \in Actors
      PROVE  \/ phase'[a] = "idle"
             \/ /\ phase'[a] = phase[a]
                /\ ev'[a].op = ev[a].op /\ ev'[a].r = ev[a].r /\ ev'[a].rec = ev[a].rec
                /\ ev'[a].todo = ev[a].todo /\ ev'[a].text = ev[a].text
                /\ ev'[a].stale = ev[a].stale
  <2>1. CASE \E h \in Hosts : Crash(h)
    BY <2>1 DEF Crash
  <2>2. CASE Tick
    BY <2>2 DEF Tick
  <2>3. CASE \E field \in {"safe", "allowed", "scope"} : Toggle(field)
    <3>1. ev'[a] = [ev[a] EXCEPT !.promised = {}] /\ phase' = phase /\ ev[a] \in Works
      BY <2>3 DEF Toggle, RuleInv, ThreadInv
    <3> QED
      BY <3>1 DEF Works
  <2>4. CASE UNCHANGED vars
    BY <2>4 DEF vars
  <2> QED
    BY <2>1, <2>2, <2>3, <2>4
<1>3. ASSUME clean', NEW a \in Actors PROVE EditAt(phase[a], ev[a])'
  <2>1. CASE phase'[a] = "idle"
    BY <2>1 DEF EditAt, Starting, Saving, Acting
  <2>2. CASE phase'[a] # "idle"
    <3>1. EditAt(phase[a], ev[a])
      BY <1>1, <1>3 DEF EditInv
    <3> QED
      BY <1>1, <1>2, <2>2, <3>1 DEF EditAt, Current, AsWanted
  <2> QED
    BY <2>1, <2>2
<1>4. ASSUME clean', ~Writing' PROVE \A r \in RuleIds : Current(file, r)'
  BY <1>1, <1>4 DEF EditInv, Current, AsWanted
<1> QED
  BY <1>3, <1>4 DEF EditInv

(***************************************************************************)
(* Every step keeps the edits.                                             *)
(***************************************************************************)
LEMMA EditStep == RuleInv /\ GhostTypes /\ EditInv /\ [Next]_vars => EditInv'
<1> SUFFICES ASSUME RuleInv, GhostTypes, EditInv, [Next]_vars PROVE EditInv'
  OBVIOUS
<1>1. ASSUME NEW a \in Actors, NEW op \in Ops, NEW r \in RuleIds, NEW b \in Bodies,
             Begin(a, op, r, b)
      PROVE  EditInv'
  BY <1>1, EditBegin
<1>2. ASSUME NEW a \in Actors, Edit(a) PROVE EditInv'
  BY <1>2, EditUpsert, EditWrite DEF Edit
<1>3. ASSUME NEW a \in Actors, Evaluate(a) PROVE EditInv'
  BY <1>3, EditEvaluate, EditWriteEvaluated DEF Evaluate
<1>4. ASSUME NEW a \in Actors, EvaluateRule(a) PROVE EditInv'
  <2>1. ASSUME NEW r \in RuleIds, CooldownActive(a, r) PROVE EditInv'
    BY <2>1, NoAnswer, EditPick
  <2>2. ASSUME NEW r \in RuleIds, NEW found \in Answers, ComputeMatches(a, r, found)
        PROVE  EditInv'
    BY <2>2, EditPick
  <2> QED
    BY <1>4, <2>1, <2>2, EditAct DEF EvaluateRule
<1>5. CASE Tick
  BY <1>5, EditWorld
<1>6. ASSUME NEW field \in {"safe", "allowed", "scope"}, Toggle(field) PROVE EditInv'
  BY <1>6, EditWorld
<1>7. ASSUME NEW h \in Hosts, Crash(h) PROVE EditInv'
  BY <1>7, EditWorld
<1>8. CASE UNCHANGED vars
  BY <1>8, EditWorld
<1> QED
  BY <1>1, <1>2, <1>3, <1>4, <1>5, <1>6, <1>7, <1>8 DEF Next

(***************************************************************************)
(* Evaluations undo no edit: the file holds what the last finished edit of *)
(* each rule asked for, unless a thread has written what it read before    *)
(* another one changed the file, or died while the file was truncated.     *)
(***************************************************************************)
THEOREM EditsSurvive == Spec => []EditSurvives
<1>1. Init => EditInv
  <2> SUFFICES ASSUME Init PROVE EditInv
    OBVIOUS
  <2>1. \A a \in Actors : EditAt(phase[a], ev[a])
    BY DEF Init, EditAt, Starting, Saving, Acting
  <2>2. ASSUME NEW r \in RuleIds PROVE Current(file, r)
    <3>1. CASE file[r] = NoRule
      BY <3>1 DEF Init, Current
    <3>2. CASE file[r] # NoRule
      <4>1. PICK b \in Bodies : file[r] = NewRule(b)
        BY <3>2 DEF Init
      <4>2. file[r] \in Stored /\ file[r].on = TRUE
        BY <4>1, RecordTypes DEF NewRule
      <4>3. AsWanted(file[r], r)
        BY <3>2, <4>2 DEF Init, AsWanted
      <4> QED
        BY <3>2, <4>2, <4>3, WantedIsThere DEF Current
    <3> QED
      BY <3>1, <3>2
  <2> QED
    BY <2>1, <2>2 DEF EditInv
<1>2. Init => GhostTypes
  BY OrderInit
<1>3. EditInv => EditSurvives
  <2>1. AllIdle => ~Writing
    BY DEF AllIdle, Writing
  <2> QED
    BY <2>1 DEF EditInv, EditSurvives, Current, AsWanted
<1> QED
  BY <1>1, <1>2, <1>3, EditStep, GhostTypesStep, RuleSafety, PTL DEF Spec
=============================================================================
