------------------------------ MODULE MCRules ------------------------------
(***************************************************************************)
(* Small instances of Rules: two threads; a rule that notifies and         *)
(* proposes; a mail with a timestamp and one whose date is not readable;   *)
(* or a calendar with a timed event and an all-day event.                  *)
(***************************************************************************)
EXTENDS Rules, TLC

CONSTANTS a1, w1, early, late, undated, holiday, s1

MCActors == {a1, w1}
\* Each thread is its own process, so that the threads are interchangeable.
MCHostOf == [a \in MCActors |-> a]
Threads == Permutations(MCActors)

Mails == {late, undated}
MailTs == [m \in Mails |-> IF m = undated THEN 0 ELSE 2]
NoHolidays == {}
Events == {early, holiday}
EventTs == [m \in Events |-> IF m = early THEN 1 ELSE 2]
Holidays == {holiday}

Body(actions, matching, cooldown, cap) ==
    [actions |-> actions, matching |-> matching, cooldown |-> cooldown, cap |-> cap]
\* A notification and a proposal, in both orders: with a cooldown of a
\* minute; for one item only and at most one action.
TwoBodies == {Body(<<"notify", s1>>, Mails, 1, 2), Body(<<s1, "notify">>, {late}, 0, 1)}
OneBody == {Body(<<"notify">>, Events, 0, 3)}

Open == {[safe |-> FALSE, allowed |-> TRUE, scope |-> TRUE]}
Both == {TRUE, FALSE}
Orderly == {TRUE}
\* Overlapping requests are bounded more tightly than orderly ones.
TwoOrOne == [o \in BOOLEAN |-> IF o THEN 2 ELSE 1]
None == [o \in BOOLEAN |-> 0]
ThreeOrTwo == [o \in BOOLEAN |-> IF o THEN 3 ELSE 2]
=============================================================================
