--------------------------- MODULE MCTaskReminders ---------------------------
(***************************************************************************)
(* Instances of TaskReminders for TLC.  The clock unit stands for a step   *)
(* of the schedule; only the order of the instants matters.                *)
(***************************************************************************)
EXTENDS TaskReminders, TLC

MCOffsets == {-2, -1}
MCOneRetry == <<1>>
MCThreeRetries == <<1, 1, 1>>
MCSymmetry == Permutations(Workers) \cup Permutations(OneTimes)
=============================================================================
