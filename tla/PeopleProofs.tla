----------------------------- MODULE PeopleProofs -----------------------------
(***************************************************************************)
(* What holds of People for any number of requests, employees, tenants and *)
(* crashes, over either store and with tenancy on or off.                  *)
(***************************************************************************)
EXTENDS People, FiniteSetTheorems, TLAPS

Creates(f) == f.op = "employee.created"

\* What a handler relies on at each step.
Placed(f) ==
  /\ Creates(f) => f.id \in EmployeeIds /\ f.profile \in Profiles /\ f.org # Nil
  /\ f.op = "employee.profile.updated" => f.id \in EmployeeIds
  /\ f.at = "insertOrg" => f.op = "organization.created" /\ f.id \in OrgIds
  /\ f.at = "find" => f.op \in {"employee.created", "employee.profile.updated"}
  /\ f.at = "insert" => Creates(f)
  /\ f.at = "update" =>
       f.op = "employee.profile.updated" /\ f.id \in DOMAIN employees
  /\ f.at = "publish" /\ Creates(f) => births[f.id] > 0

\* A tenant whose update has passed its check has the employee, or had it when
\* the employee was last moved.
Entitled(f) ==
  f.at = "update" /\ f.scope # Nil => f.scope \in {placed[f.id]} \cup overtaken[f.id]

\* The creations that have written their row and not yet their audit entry.
Creators(id) ==
  {h \in Handlers : frame[h].op = "employee.created" /\ frame[h].id = id
                     /\ frame[h].at = "audit"}

RowsOf(id) == IF id \in DOMAIN employees THEN 1 ELSE 0

Counted(id) ==
  /\ IsFiniteSet(Creators(id))
  /\ ~deployed.memory =>
       /\ births[id] + Cardinality(Creators(id)) <= RowsOf(id)
       /\ crashes = 0 => births[id] + Cardinality(Creators(id)) = RowsOf(id)

Announced(id) == <<"employee.created", id>> \in published => births[id] > 0

\* The inductive invariant.
Inv ==
  /\ TypeOK
  /\ \A h \in Handlers : Placed(frame[h]) /\ Entitled(frame[h])
  /\ MovesStick
  /\ \A id \in EmployeeIds : Counted(id) /\ Announced(id)

-----------------------------------------------------------------------------
LEMMA IdleFrame ==
  Idle \in Frame /\ Placed(Idle) /\ Entitled(Idle) /\ Idle.at = "idle" /\ Idle.op = "none"
  BY PeopleAssumption DEF Idle, Frame, Placed, Entitled, Creates

LEMMA CurrentFrame ==
  ASSUME Inv, NEW h \in Handlers
  PROVE  /\ frame[h] \in Frame /\ Placed(frame[h]) /\ Entitled(frame[h])
         /\ \A at \in {"idle", "insertOrg", "find", "insert", "update", "audit", "publish"} :
              [frame[h] EXCEPT !.at = at] \in Frame
         /\ frame \in [Handlers -> Frame]
  BY DEF Inv, TypeOK, Frame

LEMMA Advance ==
  ASSUME Inv, NEW h \in Handlers,
         NEW at \in {"idle", "insertOrg", "find", "insert", "update", "audit", "publish"},
         NEW f, f = [frame[h] EXCEPT !.at = at]
  PROVE  /\ f \in Frame /\ f.at = at /\ f.op = frame[h].op /\ f.id = frame[h].id
         /\ f.scope = frame[h].scope /\ f.org = frame[h].org
         /\ f.profile = frame[h].profile
         /\ Continue(h, at) => /\ frame' = [frame EXCEPT ![h] = f] /\ frame'[h] = f
                                /\ \A g \in Handlers \ {h} : frame'[g] = frame[g]
<1>1. frame[h] \in Frame /\ frame \in [Handlers -> Frame]
  BY CurrentFrame
<1>2. /\ f \in Frame /\ f.at = at /\ f.op = frame[h].op /\ f.id = frame[h].id
      /\ f.scope = frame[h].scope /\ f.org = frame[h].org
      /\ f.profile = frame[h].profile
  BY <1>1 DEF Frame
<1>3. Continue(h, at) => /\ frame' = [frame EXCEPT ![h] = f] /\ frame'[h] = f
                         /\ \A g \in Handlers \ {h} : frame'[g] = frame[g]
  BY <1>1 DEF Continue
<1> QED
  BY <1>2, <1>3

\* Rows and audit entries stay, so the other handlers keep what they rely on.
LEMMA FrameStep ==
  ASSUME Inv, NEW h \in Handlers, NEW f \in Frame,
         frame' = [frame EXCEPT ![h] = f], Placed(f)', Entitled(f)',
         DOMAIN employees \subseteq DOMAIN employees',
         \A id \in EmployeeIds : births[id] > 0 => births'[id] > 0,
         \A g \in Handlers \ {h} : Entitled(frame[g]) => Entitled(frame[g])'
  PROVE  /\ frame' \in [Handlers -> Frame]
         /\ (\A g \in Handlers : Placed(frame[g]) /\ Entitled(frame[g]))'
<1>1. frame \in [Handlers -> Frame]
  BY DEF Inv, TypeOK
<1>2. frame' \in [Handlers -> Frame]
  BY <1>1
<1>3. ASSUME NEW g \in Handlers
      PROVE  Placed(frame[g])' /\ Entitled(frame[g])'
  <2>1. CASE g = h
    <3>1. frame'[g] = f
      BY <1>1, <2>1
    <3> QED
      BY <3>1 DEF Placed, Entitled, Creates
  <2>2. CASE g # h
    <3>1. frame'[g] = frame[g] /\ Placed(frame[g]) /\ Entitled(frame[g])
      BY <1>1, <2>2 DEF Inv
    <3>2. Placed(frame[g])'
      BY <3>1 DEF Placed, Creates
    <3>3. Entitled(frame[g])'
      BY <2>2, <3>1
    <3> QED
      BY <3>2, <3>3
  <2> QED
    BY <2>1, <2>2
<1> QED
  BY <1>2, <1>3

\* A step that writes neither employees nor audit entries of creations.
LEMMA QuietStep ==
  ASSUME Inv, NEW h \in Handlers, NEW f \in Frame,
         frame' = [frame EXCEPT ![h] = f], Placed(f), Entitled(f),
         UNCHANGED <<deployed, employees, births, placed, overtaken>>,
         organizations' \subseteq OrgIds, crashes' \in 0 .. MaxCrashes,
         crashes > 0 => crashes' > 0,
         ~(Creates(f) /\ f.at = "audit"),
         Creates(frame[h]) /\ frame[h].at = "audit" => crashes' > 0,
         \A id \in EmployeeIds :
           <<"employee.created", id>> \in published' => births[id] > 0
  PROVE  Inv'
<1>1. /\ frame' \in [Handlers -> Frame]
      /\ (\A g \in Handlers : Placed(frame[g]) /\ Entitled(frame[g]))'
  <2>1. Placed(f)' /\ Entitled(f)'
    BY DEF Placed, Entitled, Creates
  <2>2. \A g \in Handlers \ {h} : Entitled(frame[g]) => Entitled(frame[g])'
    <3> SUFFICES ASSUME NEW g \in Handlers \ {h}, Entitled(frame[g])
                 PROVE  Entitled(frame[g])'
      OBVIOUS
    <3>1. frame'[g] = frame[g]
      BY CurrentFrame
    <3> QED
      BY <3>1 DEF Entitled
  <2> QED
    BY <2>1, <2>2, FrameStep
<1>2. TypeOK'
  BY <1>1 DEF Inv, TypeOK
<1>3. MovesStick'
  BY DEF Inv, MovesStick
<1>4. ASSUME NEW id \in EmployeeIds
      PROVE  Counted(id)' /\ Announced(id)'
  <2>1. Counted(id) /\ Announced(id)
    BY DEF Inv
  <2>2. Announced(id)'
    BY DEF Announced
  <2>3. CASE h \notin Creators(id)
    <3>1. Creators(id)' = Creators(id)
      BY <2>3, CurrentFrame DEF Creators, Creates
    <3> QED
      BY <2>1, <2>2, <3>1 DEF Counted, RowsOf, Inv, TypeOK
  <2>4. CASE h \in Creators(id)
    <3>1. Creators(id)' = Creators(id) \ {h} /\ crashes' > 0
      BY <2>4, CurrentFrame DEF Creators, Creates
    <3>2. IsFiniteSet(Creators(id)') /\ Cardinality(Creators(id)') = Cardinality(Creators(id)) - 1
      BY <2>1, <2>4, <3>1, FS_RemoveElement DEF Counted
    <3>3. Cardinality(Creators(id)) \in Nat /\ births[id] \in Nat
      BY <2>1, FS_CardinalityType DEF Counted, Inv, TypeOK
    <3> QED
      BY <2>1, <2>2, <3>1, <3>2, <3>3 DEF Counted, RowsOf
  <2> QED
    BY <2>3, <2>4
<1> QED
  BY <1>1, <1>2, <1>3, <1>4 DEF Inv

\* A step that writes the row of an employee, and goes on to its audit entry.
LEMMA RowStep ==
  ASSUME Inv, NEW h \in Handlers, frame[h].at \in {"insert", "update"}, Continue(h, "audit"),
         NEW id \in EmployeeIds, id = frame[h].id, NEW row \in Row,
         employees' = [x \in DOMAIN employees \cup {id} |->
                         IF x = id THEN row ELSE employees[x]],
         UNCHANGED <<deployed, organizations, births, published, crashes>>,
         \/ Place(id, row.org)
         \/ UNCHANGED <<placed, overtaken>> /\ row.org \in {placed[id]} \cup overtaken[id],
         \/ Creates(frame[h]) /\ (deployed.memory \/ id \notin DOMAIN employees)
         \/ ~Creates(frame[h]) /\ id \in DOMAIN employees
  PROVE  Inv'
<1> PICK f \in Frame : f = [frame[h] EXCEPT !.at = "audit"]
  BY CurrentFrame
<1>1. /\ f.at = "audit" /\ f.op = frame[h].op /\ f.id = frame[h].id
      /\ f.profile = frame[h].profile /\ f.org = frame[h].org
      /\ frame' = [frame EXCEPT ![h] = f] /\ frame'[h] = f
      /\ \A g \in Handlers \ {h} : frame'[g] = frame[g]
  BY Advance
<1>2. placed \in [EmployeeIds -> OrgIds \cup {Nil}]
      /\ overtaken \in [EmployeeIds -> SUBSET (OrgIds \cup {Nil})]
  BY DEF Inv, TypeOK
<1> DEFINE chasing == {g \in Handlers : frame[g].id = id /\ frame[g].at = "update"}
           scopes == {frame[g].scope : g \in chasing} \ {Nil}
<1>3. scopes \subseteq OrgIds \cup {Nil}
  <2>1. \A g \in Handlers : frame[g] \in Frame
    BY CurrentFrame
  <2>2. \A g \in Handlers : frame[g].scope \in OrgIds \cup {Nil}
    BY <2>1 DEF Frame
  <2> QED
    BY <2>2
<1>4. /\ placed' \in [EmployeeIds -> OrgIds \cup {Nil}]
      /\ overtaken' \in [EmployeeIds -> SUBSET (OrgIds \cup {Nil})]
      /\ \A g \in Handlers \ {h} : Entitled(frame[g]) => Entitled(frame[g])'
      /\ MovesStick'
  <2>1. CASE Place(id, row.org)
    <3>1. /\ placed' = [placed EXCEPT ![id] = row.org]
          /\ overtaken' = [overtaken EXCEPT ![id] = scopes]
      BY <2>1 DEF Place
    <3>2. /\ placed' \in [EmployeeIds -> OrgIds \cup {Nil}]
          /\ overtaken' \in [EmployeeIds -> SUBSET (OrgIds \cup {Nil})]
      BY <1>2, <1>3, <3>1 DEF Row
    <3>3. ASSUME NEW g \in Handlers \ {h}, Entitled(frame[g])
          PROVE  Entitled(frame[g])'
      <4>1. CASE frame[g].id = id /\ frame[g].at = "update" /\ frame[g].scope # Nil
        <5>1. frame[g].scope \in scopes
          BY <4>1
        <5>2. overtaken'[id] = scopes
          BY <1>2, <3>1
        <5> QED
          BY <1>1, <4>1, <5>1, <5>2 DEF Entitled
      <4>2. CASE frame[g].id # id
        <5>1. frame[g].at = "update" => frame[g].id \in EmployeeIds
          BY CurrentFrame DEF Placed
        <5> QED
          BY <1>1, <1>2, <3>1, <3>3, <4>2, <5>1 DEF Entitled
      <4>3. CASE frame[g].at # "update" \/ frame[g].scope = Nil
        BY <1>1, <4>3 DEF Entitled
      <4> QED
        BY <4>1, <4>2, <4>3
    <3>4. MovesStick'
      <4>1. \A x \in DOMAIN employees' : x \in EmployeeIds
        BY DEF Inv, TypeOK
      <4>2. \A x \in DOMAIN employees' \ {id} :
              x \in DOMAIN employees /\ employees'[x] = employees[x]
              /\ placed'[x] = placed[x] /\ overtaken'[x] = overtaken[x]
        BY <1>2, <3>1, <4>1
      <4>3. employees'[id].org = placed'[id]
        BY <1>2, <3>1
      <4> QED
        BY <4>2, <4>3 DEF Inv, MovesStick
    <3> QED
      BY <3>2, <3>3, <3>4
  <2>2. CASE UNCHANGED <<placed, overtaken>> /\ row.org \in {placed[id]} \cup overtaken[id]
    <3>1. \A g \in Handlers \ {h} : Entitled(frame[g]) => Entitled(frame[g])'
      BY <1>1, <2>2 DEF Entitled
    <3>2. MovesStick'
      BY <2>2 DEF Inv, MovesStick
    <3> QED
      BY <1>2, <2>2, <3>1, <3>2
  <2> QED
    BY <2>1, <2>2
<1>5. /\ frame' \in [Handlers -> Frame]
      /\ (\A g \in Handlers : Placed(frame[g]) /\ Entitled(frame[g]))'
  <2>1. Placed(f)' /\ Entitled(f)'
    BY <1>1, CurrentFrame DEF Placed, Entitled, Creates
  <2> QED
    BY <1>1, <1>4, <2>1, FrameStep
<1>6. TypeOK'
  BY <1>4, <1>5 DEF Inv, TypeOK
<1>7. ASSUME NEW x \in EmployeeIds
      PROVE  Counted(x)' /\ Announced(x)'
  <2>1. Counted(x) /\ Announced(x)
    BY DEF Inv
  <2>2. Announced(x)'
    BY <2>1 DEF Announced
  <2>3. CASE x # id \/ ~Creates(frame[h])
    <3>1. Creators(x)' = Creators(x)
      BY <1>1, <2>3 DEF Creators, Creates
    <3>2. RowsOf(x)' = RowsOf(x)
      BY <2>3 DEF RowsOf
    <3> QED
      BY <2>1, <2>2, <3>1, <3>2 DEF Counted
  <2>4. CASE x = id /\ Creates(frame[h])
    <3>1. Creators(x)' = Creators(x) \cup {h} /\ h \notin Creators(x)
      <4>1. frame'[h].op = "employee.created" /\ frame'[h].id = x /\ frame'[h].at = "audit"
        BY <1>1, <2>4 DEF Creates
      <4>2. frame[h].at # "audit"
        OBVIOUS
      <4> QED
        BY <1>1, <4>1, <4>2 DEF Creators
    <3>2. /\ IsFiniteSet(Creators(x)')
          /\ Cardinality(Creators(x)') = Cardinality(Creators(x)) + 1
      BY <2>1, <3>1, FS_AddElement DEF Counted
    <3>3. Cardinality(Creators(x)) \in Nat /\ births[x] \in Nat
      BY <2>1, FS_CardinalityType DEF Counted, Inv, TypeOK
    <3>4. ~deployed.memory => RowsOf(x) = 0 /\ RowsOf(x)' = 1
      BY <2>4 DEF RowsOf
    <3> QED
      BY <2>1, <2>2, <3>2, <3>3, <3>4 DEF Counted
  <2> QED
    BY <2>3, <2>4
<1> QED
  BY <1>4, <1>5, <1>6, <1>7 DEF Inv

-----------------------------------------------------------------------------
(* One lemma for each action. *)

LEMMA AnnouncedNow ==
  ASSUME Inv
  PROVE  \A id \in EmployeeIds : <<"employee.created", id>> \in published => births[id] > 0
  BY DEF Inv, Announced

LEMMA OpenStep ==
  ASSUME Inv, NEW h \in Handlers, OpenSome(h)
  PROVE  Inv'
<1>1. ASSUME NEW f \in Frame, Open(h, f), Placed(f), f.at \notin {"update", "audit"}
      PROVE  Inv'
  <2>1. Entitled(f)
    BY <1>1 DEF Entitled
  <2>2. frame[h].at = "idle" /\ organizations \subseteq OrgIds /\ crashes \in 0 .. MaxCrashes
    BY <1>1 DEF Open, Inv, TypeOK
  <2> QED
    BY <1>1, <2>1, <2>2, AnnouncedNow, QuietStep DEF Open, tables, trail, history
<1> PICK actor \in Actors :
      \/ \E o \in OrgIds : OpenCreateOrganization(h, actor, o)
      \/ \E id \in EmployeeIds, o \in OrgIds \cup {Unset}, p \in Profiles :
           OpenCreateEmployee(h, actor, id, o, p)
      \/ \E id \in EmployeeIds, o \in OrgIds \cup {Nil, Unset}, p \in Profiles \cup {Unset} :
           OpenUpdateEmployee(h, actor, id, o, p)
  BY DEF OpenSome
<1>2. HasScope(actor) => requireTenantScope(actor) \in OrgIds \cup {Nil}
  BY DEF HasScope, requireTenantScope, Actors, System
<1> DEFINE s == requireTenantScope(actor)
<1> HIDE DEF s
<1>3. ASSUME NEW o \in OrgIds, OpenCreateOrganization(h, actor, o)
      PROVE  Inv'
  <2> DEFINE f == [Idle EXCEPT !.at = "insertOrg", !.op = "organization.created", !.id = o]
  <2>1. f \in Frame /\ Placed(f) /\ f.at = "insertOrg"
    BY IdleFrame DEF Frame, Placed, Idle, Creates
  <2> QED
    BY <1>1, <1>3, <2>1 DEF OpenCreateOrganization
<1>4. ASSUME NEW id \in EmployeeIds, NEW o \in OrgIds \cup {Unset}, NEW p \in Profiles,
             OpenCreateEmployee(h, actor, id, o, p)
      PROVE  Inv'
  <2> DEFINE f == [at |-> "find", op |-> "employee.created", id |-> id,
                   scope |-> s, org |-> o, profile |-> p]
  <2>1. s \in OrgIds \cup {Nil}
    BY <1>2, <1>4 DEF OpenCreateEmployee, s
  <2>2. f \in Frame /\ Placed(f) /\ f.at = "find"
    BY <2>1, PeopleAssumption DEF Frame, Placed, Creates
  <2>3. Open(h, f)
    BY <1>4 DEF OpenCreateEmployee, s
  <2> QED
    BY <1>1, <2>2, <2>3
<1>5. ASSUME NEW id \in EmployeeIds, NEW o \in OrgIds \cup {Nil, Unset},
             NEW p \in Profiles \cup {Unset}, OpenUpdateEmployee(h, actor, id, o, p)
      PROVE  Inv'
  <2> DEFINE f == [at |-> "find", op |-> "employee.profile.updated", id |-> id,
                   scope |-> s, org |-> o, profile |-> p]
  <2>1. s \in OrgIds \cup {Nil}
    BY <1>2, <1>5 DEF OpenUpdateEmployee, s
  <2>2. f \in Frame /\ Placed(f) /\ f.at = "find"
    BY <2>1 DEF Frame, Placed, Creates
  <2>3. Open(h, f)
    BY <1>5 DEF OpenUpdateEmployee, s
  <2> QED
    BY <1>1, <2>2, <2>3
<1> QED
  BY <1>3, <1>4, <1>5

\* The handler answers, or throws, before it wrote anything of an employee.
LEMMA RefuseStep ==
  ASSUME Inv, NEW h \in Handlers, Finish(h), frame[h].at # "audit",
         UNCHANGED <<deployed, tables, trail, crashes, history>>
  PROVE  Inv'
<1>1. organizations' \subseteq OrgIds /\ crashes' \in 0 .. MaxCrashes
  BY DEF Inv, TypeOK, tables
<1> QED
  BY <1>1, IdleFrame, AnnouncedNow, QuietStep DEF Finish, tables, trail, history

LEMMA CrashStep ==
  ASSUME Inv, NEW h \in Handlers, Crash(h)
  PROVE  Inv'
<1>1. organizations' \subseteq OrgIds /\ crashes' \in 0 .. MaxCrashes /\ crashes' > 0
  BY PeopleAssumption DEF Crash, Inv, TypeOK, tables
<1>2. ~(Creates(Idle) /\ Idle.at = "audit")
  BY IdleFrame
<1> QED
  BY <1>1, <1>2, IdleFrame, AnnouncedNow, QuietStep DEF Crash, Finish, tables, trail, history

LEMMA InsertOrganizationStep ==
  ASSUME Inv, NEW h \in Handlers, InsertOrganization(h)
  PROVE  Inv'
<1> PICK f \in Frame : f = [frame[h] EXCEPT !.at = "audit"]
  BY CurrentFrame
<1>1. /\ frame[h].at = "insertOrg" /\ frame[h].op = "organization.created"
      /\ frame[h].id \in OrgIds
  BY CurrentFrame DEF InsertOrganization, Placed
<1>2. f.at = "audit" /\ f.op = "organization.created"
  BY <1>1, CurrentFrame DEF Frame
<1>3. Placed(f) /\ Entitled(f) /\ ~Creates(f)
  BY <1>2 DEF Placed, Entitled, Creates
<1>4. organizations' \subseteq OrgIds /\ crashes' \in 0 .. MaxCrashes
  BY <1>1 DEF InsertOrganization, Inv, TypeOK
<1> QED
  BY <1>1, <1>3, <1>4, AnnouncedNow, QuietStep
  DEF InsertOrganization, Continue, trail, history

LEMMA FindEmployeeStep ==
  ASSUME Inv, NEW h \in Handlers, FindEmployee(h)
  PROVE  Inv'
<1>1. CASE Finish(h)
  BY <1>1, RefuseStep DEF FindEmployee
<1>2. ASSUME NEW at \in {"insert", "update"}, Continue(h, at),
             at = "insert" => Creates(frame[h]),
             at = "update" => /\ frame[h].op = "employee.profile.updated"
                              /\ frame[h].id \in DOMAIN employees
                              /\ TenantMatch(frame[h].scope, employees[frame[h].id].org)
      PROVE  Inv'
  <2> PICK f \in Frame : f = [frame[h] EXCEPT !.at = at]
    BY CurrentFrame
  <2>1. /\ f.at = at /\ f.op = frame[h].op /\ f.id = frame[h].id /\ f.scope = frame[h].scope
        /\ f.profile = frame[h].profile /\ f.org = frame[h].org
    BY CurrentFrame DEF Frame
  <2>2. Placed(f) /\ frame[h].at = "find"
    BY <1>2, <2>1, CurrentFrame DEF FindEmployee, Placed, Creates
  <2>3. Entitled(f)
    BY <1>2, <2>1 DEF Entitled, TenantMatch, Inv, MovesStick
  <2>4. organizations' \subseteq OrgIds /\ crashes' \in 0 .. MaxCrashes
    BY DEF FindEmployee, Inv, TypeOK, tables
  <2> QED
    BY <1>2, <2>1, <2>2, <2>3, <2>4, AnnouncedNow, QuietStep
    DEF FindEmployee, Continue, tables, trail, history
<1> QED
  BY <1>1, <1>2 DEF FindEmployee, Creates

LEMMA InsertStep ==
  ASSUME Inv, NEW h \in Handlers, Insert(h)
  PROVE  Inv'
<1> PICK f \in Frame : f = frame[h]
  BY CurrentFrame
<1>1. /\ f.at = "insert" /\ Creates(f) /\ f.id \in EmployeeIds /\ f.profile \in Profiles
      /\ f.org # Nil
  BY CurrentFrame DEF Insert, Placed
<1>2. CASE Finish(h) /\ UNCHANGED <<employees, history>>
  BY <1>1, <1>2, RefuseStep DEF Insert, tables, trail
<1>3. CASE /\ KeyIsFree(f.id)
           /\ employees' = [id \in DOMAIN employees \cup {f.id} |->
                              IF id = f.id THEN NewRow(f) ELSE employees[id]]
           /\ Place(f.id, NewRow(f).org)
           /\ Continue(h, "audit")
  <2>1. NewRow(f) \in Row
    BY <1>1, PeopleAssumption DEF NewRow, Row, OrgToWrite, Frame
  <2> QED
    BY <1>1, <1>3, <2>1, RowStep DEF Insert, KeyIsFree
<1> QED
  BY <1>2, <1>3 DEF Insert

LEMMA UpdateStep ==
  ASSUME Inv, NEW h \in Handlers, Update(h)
  PROVE  Inv'
<1> PICK f \in Frame : f = frame[h]
  BY CurrentFrame
<1>1. /\ f.at = "update" /\ f.op = "employee.profile.updated" /\ ~Creates(f)
      /\ f.id \in DOMAIN employees /\ f.id \in EmployeeIds
  BY CurrentFrame DEF Update, Placed, Creates
<1> PICK row : row = UpdatedRow(employees[f.id], f)
  OBVIOUS
<1>2. CASE Finish(h) /\ UNCHANGED <<employees, history>>
  BY <1>1, <1>2, RefuseStep DEF Update, tables, trail
<1>3. CASE /\ employees' = [employees EXCEPT ![f.id] = row]
           /\ IF f.scope = Nil THEN Place(f.id, row.org) ELSE UNCHANGED history
           /\ Continue(h, "audit")
  <2>1. employees[f.id] \in Row
    BY <1>1 DEF Inv, TypeOK
  <2>2. row \in Row /\ (f.scope # Nil => row.org = f.scope)
    BY <2>1, PeopleAssumption DEF UpdatedRow, Row, OrgToWrite, Frame
  <2>3. employees' = [x \in DOMAIN employees \cup {f.id} |->
                        IF x = f.id THEN row ELSE employees[x]]
    BY <1>1, <1>3
  <2>4. f.scope # Nil => row.org \in {placed[f.id]} \cup overtaken[f.id]
    BY <1>1, <2>2, CurrentFrame DEF Entitled
  <2>5. \/ Place(f.id, row.org)
        \/ /\ UNCHANGED <<placed, overtaken>>
           /\ row.org \in {placed[f.id]} \cup overtaken[f.id]
    BY <1>3, <2>4 DEF history
  <2>6. UNCHANGED <<deployed, organizations, births, published, crashes>>
    BY DEF Update
  <2>7. /\ frame[h].at = "update" /\ ~Creates(frame[h])
        /\ f.id = frame[h].id /\ f.id \in EmployeeIds /\ f.id \in DOMAIN employees
    BY <1>1
  <2>8. Continue(h, "audit") /\ row \in Row
    BY <1>3, <2>2
  <2>9. CASE Place(f.id, row.org)
    BY <2>3, <2>6, <2>7, <2>8, <2>9, RowStep
  <2>10. CASE UNCHANGED <<placed, overtaken>> /\ row.org \in {placed[f.id]} \cup overtaken[f.id]
    BY <2>3, <2>6, <2>7, <2>8, <2>10, RowStep
  <2> QED
    BY <2>5, <2>9, <2>10
<1> QED
  BY <1>2, <1>3 DEF Update

LEMMA AuditStep ==
  ASSUME Inv, NEW h \in Handlers, Audit(h)
  PROVE  Inv'
<1> PICK f \in Frame : f = [frame[h] EXCEPT !.at = "publish"]
  BY CurrentFrame
<1>1. /\ f.at = "publish" /\ f.op = frame[h].op /\ f.id = frame[h].id
      /\ f.profile = frame[h].profile /\ f.org = frame[h].org
      /\ frame[h].at = "audit" /\ frame' = [frame EXCEPT ![h] = f] /\ frame'[h] = f
      /\ \A g \in Handlers \ {h} : frame'[g] = frame[g]
  BY Advance DEF Audit
<1>2. CASE ~Creates(frame[h])
  <2>1. Placed(f) /\ Entitled(f) /\ ~Creates(f)
    BY <1>1, <1>2, CurrentFrame DEF Placed, Entitled, Creates
  <2>2. organizations' \subseteq OrgIds /\ crashes' \in 0 .. MaxCrashes
    BY DEF Audit, Inv, TypeOK, tables
  <2> QED
    BY <1>1, <1>2, <2>1, <2>2, AnnouncedNow, QuietStep DEF Audit, Creates, tables, history
<1>3. CASE Creates(frame[h])
  <2>1. f.id \in EmployeeIds /\ births' = [births EXCEPT ![f.id] = @ + 1]
    BY <1>1, <1>3, CurrentFrame DEF Audit, Placed, Creates
  <2>2. /\ births \in [EmployeeIds -> Nat] /\ births' \in [EmployeeIds -> Nat]
        /\ \A x \in EmployeeIds : births'[x] = IF x = f.id THEN births[x] + 1 ELSE births[x]
    BY <2>1 DEF Inv, TypeOK
  <2>3. UNCHANGED <<deployed, organizations, employees, published, crashes, placed, overtaken>>
    BY DEF Audit, tables, history
  <2>4. /\ frame' \in [Handlers -> Frame]
        /\ (\A g \in Handlers : Placed(frame[g]) /\ Entitled(frame[g]))'
    <3>1. Placed(f)' /\ Entitled(f)'
      <4>1. births[f.id] \in Nat /\ births'[f.id] > 0
        BY <2>1, <2>2
      <4> QED
        BY <1>1, <1>3, <4>1, CurrentFrame DEF Placed, Entitled, Creates
    <3>2. \A g \in Handlers \ {h} : Entitled(frame[g]) => Entitled(frame[g])'
      BY <1>1, <2>3 DEF Entitled
    <3>3. \A x \in EmployeeIds : births[x] > 0 => births'[x] > 0
      BY <2>2
    <3> QED
      BY <1>1, <2>3, <3>1, <3>2, <3>3, FrameStep
  <2>5. TypeOK'
    BY <2>2, <2>3, <2>4 DEF Inv, TypeOK
  <2>6. MovesStick'
    BY <2>3 DEF Inv, MovesStick
  <2>7. ASSUME NEW x \in EmployeeIds
        PROVE  Counted(x)' /\ Announced(x)'
    <3>1. Counted(x) /\ Announced(x) /\ births[x] \in Nat
      BY <2>2 DEF Inv
    <3>2. Announced(x)'
      BY <2>2, <2>3, <3>1 DEF Announced
    <3>3. CASE x # f.id
      <4>1. Creators(x)' = Creators(x)
        BY <1>1, <3>3 DEF Creators
      <4> QED
        BY <2>2, <2>3, <3>1, <3>2, <3>3, <4>1 DEF Counted, RowsOf
    <3>4. CASE x = f.id
      <4>1. Creators(x)' = Creators(x) \ {h} /\ h \in Creators(x)
        <5>1. frame[h].op = "employee.created" /\ frame[h].id = x /\ frame'[h].at # "audit"
          BY <1>1, <1>3, <3>4 DEF Creates
        <5> QED
          BY <1>1, <5>1 DEF Creators
      <4>2. /\ IsFiniteSet(Creators(x)')
            /\ Cardinality(Creators(x)') = Cardinality(Creators(x)) - 1
        BY <3>1, <4>1, FS_RemoveElement DEF Counted
      <4>3. Cardinality(Creators(x)) \in Nat
        BY <3>1, FS_CardinalityType DEF Counted
      <4> QED
        BY <2>2, <2>3, <3>1, <3>2, <3>4, <4>2, <4>3 DEF Counted, RowsOf
    <3> QED
      BY <3>3, <3>4
  <2> QED
    BY <2>4, <2>5, <2>6, <2>7 DEF Inv
<1> QED
  BY <1>2, <1>3

LEMMA PublishStep ==
  ASSUME Inv, NEW h \in Handlers, Publish(h)
  PROVE  Inv'
<1>1. frame[h].at = "publish" /\ Placed(frame[h])
  BY CurrentFrame DEF Publish
<1>2. \A id \in EmployeeIds :
        <<"employee.created", id>> \in published' => births[id] > 0
  BY <1>1, AnnouncedNow DEF Publish, Placed, Creates
<1>3. organizations' \subseteq OrgIds /\ crashes' \in 0 .. MaxCrashes
  BY DEF Publish, Inv, TypeOK, tables
<1> QED
  BY <1>1, <1>2, <1>3, IdleFrame, QuietStep DEF Publish, Finish, tables, history

-----------------------------------------------------------------------------
LEMMA InitInv == Init => Inv
<1> SUFFICES ASSUME Init PROVE Inv
  OBVIOUS
<1>1. TypeOK
  BY IdleFrame, PeopleAssumption DEF Init, TypeOK
<1>2. \A h \in Handlers : Placed(frame[h]) /\ Entitled(frame[h])
  BY IdleFrame DEF Init
<1>3. ASSUME NEW id \in EmployeeIds
      PROVE  Counted(id) /\ Announced(id)
  <2>1. Creators(id) = {}
    BY IdleFrame DEF Init, Creators
  <2> QED
    BY <2>1, FS_EmptySet DEF Init, Counted, Announced, RowsOf
<1> QED
  BY <1>1, <1>2, <1>3 DEF Inv, Init, MovesStick

LEMMA NextInv == Inv /\ [Next]_vars => Inv'
<1> SUFFICES ASSUME Inv, [Next]_vars PROVE Inv'
  OBVIOUS
<1>1. ASSUME NEW h \in Handlers, OpenSome(h) \/ Work(h) \/ Crash(h)
      PROVE  Inv'
  BY <1>1, OpenStep, InsertOrganizationStep, FindEmployeeStep, InsertStep, UpdateStep,
     AuditStep, PublishStep, CrashStep DEF Work
<1>2. CASE UNCHANGED vars
  <2>1. TypeOK'
    BY <1>2 DEF vars, tables, trail, history, Inv, TypeOK
  <2>2. (\A h \in Handlers : Placed(frame[h]) /\ Entitled(frame[h]))'
    BY <1>2 DEF vars, tables, trail, history, Inv, Placed, Entitled, Creates
  <2>3. MovesStick'
    BY <1>2 DEF vars, tables, trail, history, Inv, MovesStick
  <2>4. (\A id \in EmployeeIds : Counted(id) /\ Announced(id))'
    BY <1>2
    DEF vars, tables, trail, history, Inv, Counted, Announced, Creators, RowsOf
  <2> QED
    BY <2>1, <2>2, <2>3, <2>4 DEF Inv
<1> QED
  BY <1>1, <1>2 DEF Next

\* The inductive invariant holds whatever the requests and their interleaving.
THEOREM PeopleInvariance == Spec => []Inv
  BY InitInv, NextInv, PTL DEF Spec

\* Rows, counts and handlers keep their types.
THEOREM PeopleTypes == Spec => []TypeOK
<1>1. Inv => TypeOK
  BY DEF Inv
<1> QED
  BY <1>1, PeopleInvariance, PTL

\* Only a platform request, a creation, or an update that was under way at the
\* last of these decides the organization of an employee.
THEOREM PlacementsHold == Spec => []MovesStick
<1>1. Inv => MovesStick
  BY DEF Inv
<1> QED
  BY <1>1, PeopleInvariance, PTL

\* Over Prisma every id is created at most once, and announced after its audit
\* entry.
THEOREM BirthsAreUnique == Spec => []CreatedOnce
<1>1. Inv => CreatedOnce
  <2> SUFFICES ASSUME Inv, NEW id \in EmployeeIds
               PROVE  /\ ~deployed.memory =>
                          /\ births[id] + Cardinality(Creators(id)) <= RowsOf(id)
                          /\ crashes = 0 =>
                               births[id] + Cardinality(Creators(id)) = RowsOf(id)
                      /\ <<"employee.created", id>> \in published => births[id] > 0
    BY DEF CreatedOnce, Creators, RowsOf
  <2> QED
    BY DEF Inv, Counted, Announced
<1> QED
  BY <1>1, PeopleInvariance, PTL
=============================================================================
