---------------------------- MODULE MCPayrollRuns ----------------------------
(* Small instances of PayrollRuns for TLC. *)
EXTENDS PayrollRuns, TLC

CONSTANTS alice, bob

Symmetry == Permutations(Operators)

\* Two rates that add up to everything, a fixed amount, and a profile that is
\* switched off.
Halves == [withholding |-> 50, insurance |-> 50, other |-> 0,
           active |-> TRUE, mode |-> "profile"]
Fixed == [withholding |-> 0, insurance |-> 0, other |-> 1,
          active |-> TRUE, mode |-> "profile"]

SomeContents == {Halves, Fixed, [Fixed EXCEPT !.active = FALSE]}

SomeInputs == {[withholding |-> 1, insurance |-> 0, other |-> 1]}

\* Attendance as it stands while payroll works: one minute of one employee,
\* two of the other, of which one still waits for its approval.
Attended ==
  LET Of(e, s) == [employee |-> e, checkIn |-> 0, minutes |-> 1, state |-> s]
  IN  <<Of(alice, "APPROVED"), Of(bob, "APPROVED"), Of(bob, "PENDING")>>

MCInit == records = Attended /\ Init

MCSpec == MCInit /\ [][Next]_<<records, payroll>>
=============================================================================
