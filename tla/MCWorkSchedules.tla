--------------------------- MODULE MCWorkSchedules ---------------------------
(* Small instances of WorkSchedules for TLC. *)
EXTENDS WorkSchedules, TLC

Symmetry ==
  Permutations(Handlers) \cup Permutations(ScheduleIds) \cup Permutations(Employees)
    \cup Permutations(Organizations)
=============================================================================
