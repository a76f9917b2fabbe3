-------------------------- MODULE MCExperimentSession --------------------------
(* Instances of ExperimentSession for TLC. *)
EXTENDS ExperimentSession, TLC

CONSTANTS q1, q2, p1, p2, bad, f1, f2

MCProcs == {q1, q2}
MCIds == {p1, p2}
MCBadIds == {bad}

(* Two configurations, a proposal of one repeated configuration that refers *)
(* to a result of the first, an unexplained duplicate, and a malformed one. *)
New(f)    == [fp |-> f, repeat |-> FALSE]
Repeat(f) == [fp |-> f, repeat |-> TRUE]
First     == [id |-> p1, wellformed |-> TRUE, cands |-> <<New(f1), New(f2)>>, refs |-> {}, reps |-> 1]
Second    == [id |-> p2, wellformed |-> TRUE, cands |-> <<Repeat(f1)>>, refs |-> {<<p1, "result">>}, reps |-> 2]
Single    == [id |-> p2, wellformed |-> TRUE, cands |-> <<New(f1)>>, refs |-> {}, reps |-> 1]
Malformed == [id |-> bad, wellformed |-> FALSE, cands |-> <<>>, refs |-> {}, reps |-> 1]

MCSubmissions == {First, Second, Single}
MCSingleSubmission == {Single}
MCSubmissionsWithBadId == {First, Single, Malformed}

AllFaults == FaultKinds
NoFaults == {}
KillOnly == {"kill"}

Symmetry == Permutations(MCProcs)
=============================================================================
