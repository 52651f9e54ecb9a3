---------------------------- MODULE MCReminders ----------------------------
(* Two notes over four days.                                               *)
EXTENDS Reminders, TLC

CONSTANTS n1, n2

MCNotes == {n1, n2}
Symmetry == Permutations(MCNotes)

=============================================================================
