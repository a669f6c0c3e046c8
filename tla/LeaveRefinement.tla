--------------------------- MODULE LeaveRefinement ---------------------------
(***************************************************************************)
(* How the rows and the handlers of LeaveRequests are seen as the ledger   *)
(* and the account of LeaveLedger.                                         *)
(***************************************************************************)
EXTENDS LeaveRequests

\* An approval that was written and whose days are still to be charged.
Owing(e) ==
  {h \in Handlers : /\ frame[h].op = "APPROVED" /\ frame[h].employee = e
                    /\ frame[h].at \in {"appendDecision", "ensure",
                                        "ensureCreate", "charge"}}

\* The days of all of these, counted one by one.
Owed(e) == Cardinality(UNION {{h} \X (1 .. frame[h].days) : h \in Owing(e)})

\* The row leaveBalance.ensure gives.
Balance(e) == IF e \in DOMAIN balances THEN balances[e] ELSE FreshBalance

\* A request, without the columns no client relies on.
Listed(row) ==
  [employee |-> row.employee, start |-> row.start, end |-> row.end, state |-> row.state]

ledger == [r \in DOMAIN requests |-> Listed(requests[r])]

Charged(row, days) == [row EXCEPT !.used = @ + days, !.remaining = @ - days]

\* The balances, with the days still to be charged taken off.
account == [e \in Employees |-> Charged(Balance(e), Owed(e))]

Ledger == INSTANCE LeaveLedger WITH DaysOf <- calculateLeaveDays

\* The code promises what LeaveLedger says when one request is served at a time
\* and none dies: the store calls of a handler amount to one step of the ledger,
\* an approval being charged from the moment its decision is written.
ImplementsLedger == Ledger!Spec
=============================================================================
