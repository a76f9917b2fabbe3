--------------------------- MODULE MCScheduleAgent ---------------------------
(* The schedule agent on small budgets: a request takes two tokens at most, *)
(* its answer one, and two of both fit the total but for a spare token.     *)
(* The bundles range from one that is full at once to one never full; the   *)
(* reserve is just enough for two short notes, and not for two long ones.   *)
EXTENDS ScheduleAgent

MCRooms == {3, 9, 14, 18, 20, 25, 29, 30, 31, 50}
MCNotes == {1, 2}
MCUsages == {1, 3, 4, 8}
================================================================================
