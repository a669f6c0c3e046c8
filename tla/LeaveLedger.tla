----------------------------- MODULE LeaveLedger -----------------------------
(***************************************************************************)
(* What the leave service promises its clients: a ledger of leave requests *)
(* and an account of leave days, where submitting, editing, deciding and   *)
(* settling are each one indivisible step.  A decision is made once, an    *)
(* approval charges the account by exactly the days of the request, active *)
(* requests of an employee never overlap and a year is settled once.       *)
(***************************************************************************)
EXTENDS Integers

CONSTANTS Employees, RequestIds, Instants, Years, AnnualGrants, CarryOverCaps,
          DefaultGrantedDays,
          DaysOf(_, _)         \* the days a pair of dates is charged as

VARIABLES
  ledger,   \* the requests submitted so far
  account   \* every employee's days

Decided == {"APPROVED", "REJECTED", "CANCELED"}

\* The employee's other requests that are pending or approved.
Standing(e, r) ==
  {q \in DOMAIN ledger \ {r} :
     ledger[q].employee = e /\ ledger[q].state \in {"PENDING", "APPROVED"}}

Free(e, r, s, t) ==
  \A q \in Standing(e, r) : t < ledger[q].start \/ ledger[q].end < s

Entry(e, s, t) == [employee |-> e, start |-> s, end |-> t, state |-> "PENDING"]

Submit(r, e, s, t) ==
  /\ r \notin DOMAIN ledger /\ s <= t /\ Free(e, r, s, t)
  /\ ledger' = [q \in DOMAIN ledger \cup {r} |->
                  IF q = r THEN Entry(e, s, t) ELSE ledger[q]]
  /\ UNCHANGED account

Edit(r, s, t) ==
  /\ r \in DOMAIN ledger /\ ledger[r].state = "PENDING"
  /\ s <= t /\ Free(ledger[r].employee, r, s, t)
  /\ ledger' = [ledger EXCEPT ![r] = [@ EXCEPT !.start = s, !.end = t]]
  /\ UNCHANGED account

Charge(row, days) == [row EXCEPT !.used = @ + days, !.remaining = @ - days]

Decide(r, d) ==
  LET e == ledger[r].employee
      charge == IF d = "APPROVED" THEN DaysOf(ledger[r].start, ledger[r].end) ELSE 0
  IN  /\ r \in DOMAIN ledger /\ ledger[r].state = "PENDING"
      /\ ledger' = [ledger EXCEPT ![r].state = d]
      /\ account' = [account EXCEPT ![e] = Charge(@, charge)]

\* All the days that remain are carried over, up to the cap.
Settle(e, y, g, c) ==
  /\ account[e].lastAccrualYear < y
  /\ \E carry \in 0 .. c :
       /\ carry > 0 => carry <= account[e].remaining
       /\ carry < c => carry >= account[e].remaining
       /\ account' = [account EXCEPT ![e] =
            [granted |-> g + carry, used |-> 0, remaining |-> g + carry,
             carryOver |-> carry, lastAccrualYear |-> y]]
  /\ UNCHANGED ledger

Init ==
  /\ ledger = << >>
  /\ account = [e \in Employees |->
       [granted |-> DefaultGrantedDays, used |-> 0,
        remaining |-> DefaultGrantedDays, carryOver |-> 0, lastAccrualYear |-> 0]]

Next ==
  \/ \E r \in RequestIds, e \in Employees, s, t \in Instants : Submit(r, e, s, t)
  \/ \E r \in RequestIds, s, t \in Instants : Edit(r, s, t)
  \/ \E r \in RequestIds, d \in Decided : Decide(r, d)
  \/ \E e \in Employees, y \in Years, g \in AnnualGrants, c \in CarryOverCaps :
       Settle(e, y, g, c)

Spec == Init /\ [][Next]_<<ledger, account>>
=============================================================================
