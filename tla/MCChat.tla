------------------------------ MODULE MCChat -------------------------------
(***************************************************************************)
(* Small instances of Chat: two threads, two write skills and a read       *)
(* skill; a command for each verdict of the critic, and plans of a         *)
(* language model that mixes them.                                         *)
(***************************************************************************)
EXTENDS Chat, TLC

CONSTANTS a1, a2, remind, draft, search, rem, mail, cal

MCActors == {a1, a2}
Threads == Permutations(MCActors)
MCSkills == {remind, draft, search}
Writes == {remind, draft}
MCScopeOf == [s \in MCSkills |-> IF s = remind THEN rem ELSE IF s = draft THEN mail ELSE cal]

S(skill, flag, args) == [skill |-> skill, flag |-> flag, args |-> args]
MCCommands == {S(remind, TRUE, args) : args \in {"loose", "broken"}}
\* A write step that is not marked; two proposals, the second in question;
\* a read step that is marked, after a proposal.
MCAnswers == {<<S(search, FALSE, "fine"), S(remind, FALSE, "loose"), S(draft, TRUE, "fine")>>,
              <<S(remind, TRUE, "fine"), S(draft, TRUE, "unclear")>>,
              <<S(remind, FALSE, "loose"), S(search, TRUE, "fine")>>}
=============================================================================
