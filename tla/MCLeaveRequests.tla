--------------------------- MODULE MCLeaveRequests ---------------------------
(* Small instances of LeaveRequests for TLC. *)
EXTENDS LeaveRefinement, TLC

Symmetry == Permutations(Handlers) \cup Permutations(RequestIds)
=============================================================================
