----------------------------- MODULE MCDoctor ------------------------------
(***************************************************************************)
(* Small instances of Doctor: two threads, the three files with writers in *)
(* the module, each with a line that is not valid, two of them with two    *)
(* copies of a row.                                                        *)
(***************************************************************************)
EXTENDS Doctor, TLC

CONSTANTS a1, a2

MCActors == {a1, a2}
Threads == Permutations(MCActors)
ThreeFiles == <<"semantic", "episodic", "tasks">>
ById == {"episodic", "tasks"}
KeepTwo == [f \in {"semantic", "episodic", "tasks"} |-> IF f = "semantic" THEN 0 ELSE 2]

Damaged == {[f \in {"semantic", "episodic", "tasks"} |->
              IF f = "semantic" THEN <<Row(1, "good", 0), Row(2, "bad", 0)>>
              ELSE <<Row(1, "good", 0), Row(2, "bad", 0), Row(1, "good", 1)>>]}
\* The jobs run it without options and with --compact.
Repairing == [repair : {TRUE}, compact : BOOLEAN]
=============================================================================
