-------------------------------- MODULE People --------------------------------
(***************************************************************************)
(* Organizations and employees (src/src/features/people/service.ts), and   *)
(* the tenant checks that keep an organization's administrators to its own *)
(* employees (src/src/lib/tenancy.ts, src/src/features/shared/             *)
(* tenant-scope.ts).  Each awaited store call is an action of its own, as  *)
(* in LeaveRequests; the stores are the Prisma and the in-memory one.      *)
(***************************************************************************)
EXTENDS Naturals, FiniteSets

CONSTANTS
  Handlers,     \* requests the API can have open at the same time
  EmployeeIds,  \* ids a caller can give to employees
  OrgIds,       \* ids the store can hand out to organizations
  Profiles,     \* what an employee's name, email and active columns can hold
  MaxCrashes,   \* bound on handlers that die between two awaits
  Unset,        \* a field the input leaves out
  Nil           \* a null column, an actor without organization

ASSUME PeopleAssumption ==
  /\ MaxCrashes \in Nat
  /\ Unset \notin OrgIds \cup Profiles \cup {Nil}
  /\ "system" \notin OrgIds \cup {Nil}
  /\ Nil \notin OrgIds \cup Profiles \cup EmployeeIds

VARIABLES
  deployed,       \* the environment of the process: tenancy_v1, and its store
  organizations,  \* ids of the Organization rows
  employees,      \* Employee rows by id
  births,         \* per id, the employee.created entries of the audit log
  published,      \* <<operation, id>> of the domain events sent
  frame,          \* each handler's local state
  crashes,        \* handlers that died so far, at most MaxCrashes
  placed,         \* history: per id, where a creation or the platform put it last
  overtaken       \* history: per id, the tenants that were updating it just then

tables == <<organizations, employees>>
trail == <<births, published>>
history == <<placed, overtaken>>
vars == <<deployed, tables, trail, frame, crashes, history>>

Row == [org : OrgIds \cup {Nil}, profile : Profiles]

\* Actors by what a tenant check looks at: the role system, or else the
\* organization of the token, Nil if it names none.
System == "system"
Actors == {System, Nil} \cup OrgIds

\* scope: the tenant a request is confined to, Nil if to none.
\* org, profile: the columns the input names.
Frame ==
  [at : {"idle", "insertOrg", "find", "insert", "update", "audit", "publish"},
   op : {"none", "organization.created", "employee.created", "employee.profile.updated"},
   id : EmployeeIds \cup OrgIds \cup {Nil}, scope : OrgIds \cup {Nil},
   org : OrgIds \cup {Nil, Unset}, profile : Profiles \cup {Unset}]

Idle ==
  [at |-> "idle", op |-> "none", id |-> Nil, scope |-> Nil, org |-> Unset, profile |-> Unset]

Continue(h, at) == frame' = [frame EXCEPT ![h].at = at]

Finish(h) == frame' = [frame EXCEPT ![h] = Idle]

-----------------------------------------------------------------------------
(* The tenant of a request. *)

\* requireTenantScope: without a tenant, 401.
HasScope(actor) == deployed.tenancy => actor # Nil

requireTenantScope(actor) ==
  IF deployed.tenancy /\ actor # System THEN actor ELSE Nil

HomelessMutant(scope, org) == scope = Nil \/ org \in {Nil, scope}

\* ensureTenantMatch: 404 for the employees of other tenants.
TenantMatch(scope, org) == scope \in {Nil, org}

\* 403: a tenant's request may name no other tenant, but it may name null.
MayName(scope, org) == scope = Nil \/ org \in {Nil, Unset, scope}

\* organizationId: tenantScope ?? input.organizationId
OrgToWrite(f) == IF f.scope # Nil THEN f.scope ELSE f.org

-----------------------------------------------------------------------------
(* A client opens a request on a free handler; what does not depend on the
   tables is checked before the first await.  A missing permission is 403. *)

Open(h, f) ==
  /\ frame[h].at = "idle"
  /\ frame' = [frame EXCEPT ![h] = f]
  /\ UNCHANGED <<deployed, tables, trail, crashes, history>>

\* Only the platform creates tenants.  The store hands out a new id.
OpenCreateOrganization(h, actor, o) ==
  /\ HasScope(actor) /\ requireTenantScope(actor) = Nil
  /\ o \notin organizations
  /\ \A g \in Handlers : frame[g].id # o
  /\ Open(h, [Idle EXCEPT !.at = "insertOrg", !.op = "organization.created", !.id = o])

OpenCreateEmployee(h, actor, id, o, p) ==
  /\ HasScope(actor) /\ MayName(requireTenantScope(actor), o)
  /\ Open(h, [at |-> "find", op |-> "employee.created", id |-> id,
              scope |-> requireTenantScope(actor), org |-> o, profile |-> p])

OpenUpdateEmployee(h, actor, id, o, p) ==
  /\ HasScope(actor)
  /\ o # Unset \/ p # Unset
  /\ Open(h, [at |-> "find", op |-> "employee.profile.updated", id |-> id,
              scope |-> requireTenantScope(actor), org |-> o, profile |-> p])

OpenSome(h) ==
  \E actor \in Actors :
    \/ \E o \in OrgIds : OpenCreateOrganization(h, actor, o)
    \/ \E id \in EmployeeIds, o \in OrgIds \cup {Unset}, p \in Profiles :
         OpenCreateEmployee(h, actor, id, o, p)
    \/ \E id \in EmployeeIds, o \in OrgIds \cup {Nil, Unset}, p \in Profiles \cup {Unset} :
         OpenUpdateEmployee(h, actor, id, o, p)

-----------------------------------------------------------------------------
(* The steps of a handler. *)

InsertOrganization(h) ==
  /\ frame[h].at = "insertOrg"
  /\ organizations' = organizations \cup {frame[h].id}
  /\ Continue(h, "audit")
  /\ UNCHANGED <<deployed, employees, trail, crashes, history>>

\* 409 for a creation, 404 and 403 for an update.
FindEmployee(h) ==
  LET f == frame[h]
      exists == f.id \in DOMAIN employees
      allowed == TenantMatch(f.scope, employees[f.id].org) /\ MayName(f.scope, f.org)
  IN  /\ f.at = "find"
      /\ \/ f.op = "employee.created" /\ exists /\ Finish(h)
         \/ f.op = "employee.created" /\ ~exists /\ Continue(h, "insert")
         \/ f.op = "employee.profile.updated" /\ ~exists /\ Finish(h)
         \/ f.op = "employee.profile.updated" /\ exists /\ ~allowed /\ Finish(h)
         \/ f.op = "employee.profile.updated" /\ exists /\ allowed /\ Continue(h, "update")
      /\ UNCHANGED <<deployed, tables, trail, crashes, history>>

UncheckedKeyMutant(id) == TRUE

\* Where the row is put, and the tenants whose updates have passed their check.
Place(id, org) ==
  /\ placed' = [placed EXCEPT ![id] = org]
  /\ overtaken' = [overtaken EXCEPT ![id] =
       {frame[g].scope : g \in {g \in Handlers : frame[g].id = id /\ frame[g].at = "update"}} \ {Nil}]

\* What create of the store accepts: Prisma throws on an id that is taken, the
\* in-memory store replaces the row.
KeyIsFree(id) == deployed.memory \/ id \notin DOMAIN employees

\* A foreign key of the database; the in-memory store has none.
OrgIsKnown(org) == deployed.memory \/ org \in organizations \cup {Nil}

\* A column the input leaves out is null in a new row.
NewRow(f) ==
  [org |-> IF OrgToWrite(f) = Unset THEN Nil ELSE OrgToWrite(f), profile |-> f.profile]

Insert(h) ==
  LET f == frame[h]
      row == NewRow(f)
      accepted == KeyIsFree(f.id) /\ OrgIsKnown(row.org)
  IN  /\ f.at = "insert"
      /\ \/ ~accepted /\ Finish(h) /\ UNCHANGED <<employees, history>>
         \/ /\ accepted
            /\ employees' = [id \in DOMAIN employees \cup {f.id} |->
                               IF id = f.id THEN row ELSE employees[id]]
            /\ Place(f.id, row.org)
            /\ Continue(h, "audit")
      /\ UNCHANGED <<deployed, organizations, births, published, crashes>>

\* A column the input leaves out stays as it is, but for the organization,
\* which the request of a tenant always writes.
UpdatedRow(row, f) ==
  [row EXCEPT !.org = IF OrgToWrite(f) = Unset THEN @ ELSE OrgToWrite(f),
              !.profile = IF f.profile = Unset THEN @ ELSE f.profile]

Update(h) ==
  LET f == frame[h]
      row == UpdatedRow(employees[f.id], f)
      accepted == OrgIsKnown(row.org)
  IN  /\ f.at = "update"
      /\ \/ ~accepted /\ Finish(h) /\ UNCHANGED <<employees, history>>
         \/ /\ accepted
            /\ employees' = [employees EXCEPT ![f.id] = row]
            /\ IF f.scope = Nil THEN Place(f.id, row.org) ELSE UNCHANGED history
            /\ Continue(h, "audit")
      /\ UNCHANGED <<deployed, organizations, births, published, crashes>>

Audit(h) ==
  LET f == frame[h]
  IN  /\ f.at = "audit"
      /\ births' = IF f.op = "employee.created" THEN [births EXCEPT ![f.id] = @ + 1] ELSE births
      /\ Continue(h, "publish")
      /\ UNCHANGED <<deployed, tables, published, crashes, history>>

Publish(h) ==
  LET f == frame[h]
  IN  /\ f.at = "publish"
      /\ published' = published \cup {<<f.op, f.id>>}
      /\ Finish(h)
      /\ UNCHANGED <<deployed, tables, births, crashes, history>>

\* The process dies, or a store call or the publisher throws.
Crash(h) ==
  /\ frame[h].at # "idle"
  /\ crashes < MaxCrashes
  /\ crashes' = crashes + 1
  /\ Finish(h)
  /\ UNCHANGED <<deployed, tables, trail, history>>

-----------------------------------------------------------------------------
Work(h) ==
  \/ InsertOrganization(h) \/ FindEmployee(h) \/ Insert(h) \/ Update(h)
  \/ Audit(h) \/ Publish(h)

Init ==
  /\ deployed \in [tenancy : BOOLEAN, memory : BOOLEAN]
  /\ organizations = {}
  /\ employees = << >>
  /\ births = [id \in EmployeeIds |-> 0]
  /\ published = {}
  /\ frame = [h \in Handlers |-> Idle]
  /\ crashes = 0
  /\ placed = [id \in EmployeeIds |-> Nil]
  /\ overtaken = [id \in EmployeeIds |-> {}]

Next == \E h \in Handlers : OpenSome(h) \/ Work(h) \/ Crash(h)

Spec == Init /\ [][Next]_vars

-----------------------------------------------------------------------------
TypeOK ==
  /\ deployed \in [tenancy : BOOLEAN, memory : BOOLEAN]
  /\ organizations \subseteq OrgIds
  /\ DOMAIN employees \subseteq EmployeeIds
  /\ \A id \in DOMAIN employees : employees[id] \in Row
  /\ births \in [EmployeeIds -> Nat]
  /\ frame \in [Handlers -> Frame]
  /\ crashes \in 0 .. MaxCrashes
  /\ placed \in [EmployeeIds -> OrgIds \cup {Nil}]
  /\ overtaken \in [EmployeeIds -> SUBSET (OrgIds \cup {Nil})]

\* "Duplicate employee create returns 409" (src/specs/people/test-cases.md) and
\* "audit logs for all employee/org mutations" (src/specs/people/contract.yaml):
\* over Prisma an id is created once, however many creations of it found it
\* free, with one audit entry unless the handler died before it, and the event
\* is sent only after that.  (The in-memory store lets two creations win.)
CreatedOnce ==
  \A id \in EmployeeIds :
    LET rows == IF id \in DOMAIN employees THEN 1 ELSE 0
        open == {h \in Handlers : frame[h].op = "employee.created" /\ frame[h].id = id
                                   /\ frame[h].at = "audit"}
    IN  /\ ~deployed.memory =>
             /\ births[id] + Cardinality(open) <= rows
             /\ crashes = 0 => births[id] + Cardinality(open) = rows
        /\ <<"employee.created", id>> \in published => births[id] > 0

\* "Cross-tenant reads/writes must be rejected" (src/specs/tenancy/contract.yaml):
\* an employee is in the organization where a creation or a platform actor put
\* it last.  Its old tenant can only pull it back with an update that had read
\* the row before that move and writes after it, since a tenant's update always
\* writes the organization; no other tenant ever can.
MovesStick ==
  \A id \in DOMAIN employees : employees[id].org \in {placed[id]} \cup overtaken[id]
=============================================================================
