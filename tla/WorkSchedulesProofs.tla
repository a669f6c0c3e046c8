------------------------- MODULE WorkSchedulesProofs -------------------------
(***************************************************************************)
(* How far schedules of an employee can overlap, for any number of         *)
(* handlers, employees, organizations, moves, schedules and crashes.       *)
(***************************************************************************)
EXTENDS WorkSchedules, FiniteSetTheorems, TLAPS

\* The schedules that hold the slot and were checked against all of the employee's.
Checked(e, x) == Covering(e, x) \ overtaken

\* The handlers about to book the slot at x for the employee, having seen no
\* schedule that holds it.
Pending(e, x) ==
  {h \in Handlers :
     /\ frame[h].at = "insert" /\ frame[h].employee = e /\ frame[h].id \notin overtaken
     /\ frame[h].start <= x /\ x < frame[h].end}

\* Each handler has an input, and the id it will store under is its own.
Placed ==
  /\ \A h \in Handlers :
       frame[h].at # "idle" => frame[h].id \in ScheduleIds /\ frame[h].employee \in Employees
  /\ \A h \in Handlers :
       frame[h].at \in {"find", "list", "insert"} =>
         /\ frame[h].id \notin DOMAIN schedules
         /\ \A g \in Handlers \ {h} : frame[g].id # frame[h].id
  /\ \A h \in Handlers :
       frame[h].at \in {"audit", "publish"} => frame[h].id \in DOMAIN schedules
  /\ \A h \in Handlers : frame[h].at = "publish" => frame[h].id \in audited

\* Bookings made and bookings bound to be made.
Charged ==
  \A e \in Employees, x \in Instants :
    Cardinality(Checked(e, x)) + Cardinality(Pending(e, x)) <= Cardinality(Handlers)

Inv == TypeOK /\ Placed /\ TrailOrdered /\ Charged

LEMMA Finiteness ==
  ASSUME TypeOK, NEW e, NEW x
  PROVE  /\ IsFiniteSet(Checked(e, x)) /\ Cardinality(Checked(e, x)) \in Nat
         /\ IsFiniteSet(Pending(e, x)) /\ Cardinality(Pending(e, x)) \in Nat
         /\ Cardinality(Pending(e, x)) <= Cardinality(Handlers)
<1>1. Checked(e, x) \subseteq ScheduleIds
  BY DEF Checked, Covering, TypeOK
<1>2. Pending(e, x) \subseteq Handlers
  BY DEF Pending
<1> QED
  BY <1>1, <1>2, ScheduleAssumption, FS_Subset, FS_CardinalityType

\* What a step may do to the history: the check of the handler's own request
\* decides on its id, and on no other.
Recorded(h) ==
  \/ UNCHANGED overtaken
  \/ /\ frame[h].at = "list"
     /\ \A i \in ScheduleIds \ {frame[h].id} : i \in overtaken' <=> i \in overtaken

\* The other requests, and the schedules, keep their place in the history.
LEMMA RecordedElsewhere ==
  ASSUME Inv, NEW h \in Handlers, Recorded(h)
  PROVE  /\ \A i \in DOMAIN schedules : i \in overtaken' <=> i \in overtaken
         /\ \A g \in Handlers \ {h} :
              frame[g].at = "insert" => (frame[g].id \in overtaken' <=> frame[g].id \in overtaken)
<1>1. CASE UNCHANGED overtaken
  BY <1>1
<1>2. CASE ~UNCHANGED overtaken
  <2>1. /\ frame[h].at = "list"
        /\ \A i \in ScheduleIds \ {frame[h].id} : i \in overtaken' <=> i \in overtaken
    BY <1>2 DEF Recorded
  <2>2. frame[h].id \notin DOMAIN schedules /\ \A g \in Handlers \ {h} : frame[g].id # frame[h].id
    BY <2>1 DEF Inv, Placed
  <2>3. DOMAIN schedules \subseteq ScheduleIds
    BY DEF Inv, TypeOK
  <2>4. \A g \in Handlers : frame[g].at = "insert" => frame[g].id \in ScheduleIds
    BY DEF Inv, Placed
  <2> QED
    BY <2>1, <2>2, <2>3, <2>4
<1> QED
  BY <1>1, <1>2

\* A step that stores nothing and makes no handler ready to.
LEMMA ChargedKept ==
  ASSUME Inv, TypeOK', UNCHANGED schedules,
         \A i \in DOMAIN schedules : i \in overtaken' <=> i \in overtaken,
         \A h \in Handlers :
           frame'[h].at = "insert" =>
             /\ frame'[h] = frame[h]
             /\ frame[h].id \in overtaken' <=> frame[h].id \in overtaken
  PROVE  Charged'
<1> SUFFICES ASSUME NEW e \in Employees, NEW x \in Instants
             PROVE  Cardinality(Checked(e, x)') + Cardinality(Pending(e, x)')
                      <= Cardinality(Handlers)
  BY DEF Charged
<1>1. Checked(e, x)' = Checked(e, x)
  BY DEF Checked, Covering
<1>2. Pending(e, x)' \subseteq Pending(e, x)
  BY DEF Pending
<1>3. Cardinality(Pending(e, x)') <= Cardinality(Pending(e, x))
      /\ Cardinality(Pending(e, x)') \in Nat
  BY <1>2, Finiteness, FS_Subset, FS_CardinalityType DEF Inv
<1>4. Cardinality(Handlers) \in Nat
  BY ScheduleAssumption, FS_CardinalityType
<1>5. Cardinality(Checked(e, x)) + Cardinality(Pending(e, x)) <= Cardinality(Handlers)
  BY DEF Inv, Charged
<1> QED
  BY <1>1, <1>3, <1>4, <1>5, Finiteness DEF Inv

LEMMA OpenStep ==
  ASSUME Inv, NEW h \in Handlers, Open(h)
  PROVE  Inv'
<1> PICK i \in ScheduleIds, e \in Employees, s \in Instants, t \in Instants :
      OpenCreate(h, i, e, s, t)
  BY DEF Open
<1> PICK n : n = [at |-> "find", id |-> i, employee |-> e, organization |-> Nil,
                  start |-> s, end |-> t]
  OBVIOUS
<1>1. n \in Frame
  BY DEF Frame, Steps, Homes
<1>2. /\ frame' = [frame EXCEPT ![h] = n] /\ frame[h].at = "idle"
      /\ UNCHANGED <<organization, schedules, audited, published, crashes, overtaken>>
      /\ i \notin DOMAIN schedules /\ \A g \in Handlers : frame[g].id # i
  BY DEF OpenCreate
<1>3. TypeOK'
  BY <1>1, <1>2 DEF Inv, TypeOK
<1>4. Placed'
  BY <1>2 DEF Inv, TypeOK, Placed
<1>5. Charged'
  BY <1>2, <1>3, ChargedKept DEF Inv, TypeOK
<1>6. TrailOrdered'
  BY <1>2 DEF Inv, TrailOrdered
<1> QED
  BY <1>3, <1>4, <1>5, <1>6 DEF Inv

LEMMA IdleFrame == Idle \in Frame
  BY ScheduleAssumption DEF Idle, Frame, Steps, Instants, Homes

\* A handler that gives up its request.
LEMMA FinishStep ==
  ASSUME Inv, NEW h \in Handlers, Finish(h), UNCHANGED <<organization, schedules>>,
         audited \subseteq audited', TrailOrdered', crashes' \in 0 .. MaxCrashes,
         Recorded(h), overtaken' \subseteq ScheduleIds
  PROVE  Inv'
<1>1. frame' \in [Handlers -> Frame]
      /\ \A g \in Handlers : frame'[g] = IF g = h THEN Idle ELSE frame[g]
  BY IdleFrame DEF Finish, Inv, TypeOK
<1>2. TypeOK'
  BY <1>1 DEF Inv, TypeOK, TrailOrdered
<1>3. Idle.at = "idle" /\ Idle.id = Nil /\ Nil \notin ScheduleIds
  BY ScheduleAssumption DEF Idle
<1>4. Placed'
  BY <1>1, <1>3 DEF Inv, Placed
<1>5. Charged'
  BY <1>1, <1>2, <1>3, ChargedKept, RecordedElsewhere
<1> QED
  BY <1>2, <1>4, <1>5 DEF Inv

\* A handler that goes on to a call that stores nothing of its request yet.
LEMMA ContinueInFrame ==
  ASSUME Inv, NEW h \in Handlers, NEW at \in Steps, NEW o \in Homes, ContinueIn(h, at, o)
  PROVE  /\ frame' \in [Handlers -> Frame]
         /\ \A g \in Handlers \ {h} : frame'[g] = frame[g]
         /\ frame'[h].at = at /\ frame'[h].id = frame[h].id
         /\ frame'[h].employee = frame[h].employee
         /\ frame'[h].start = frame[h].start /\ frame'[h].end = frame[h].end
<1> PICK f \in Frame : f = frame[h]
  BY DEF Inv, TypeOK
<1> PICK n : n = [at |-> at, id |-> f.id, employee |-> f.employee, organization |-> o,
                  start |-> f.start, end |-> f.end]
  OBVIOUS
<1>1. /\ n \in Frame /\ n.at = at /\ n.id = f.id /\ n.employee = f.employee
      /\ n.start = f.start /\ n.end = f.end
  BY DEF Frame
<1>2. frame' = [frame EXCEPT ![h] = n]
  BY DEF ContinueIn
<1> QED
  BY <1>1, <1>2 DEF Inv, TypeOK

LEMMA FindStep ==
  ASSUME Inv, NEW h \in Handlers, FindEmployee(h)
  PROVE  Inv'
<1>1. /\ frame[h].at = "find"
      /\ UNCHANGED <<organization, schedules, audited, published, crashes, overtaken>>
  BY DEF FindEmployee
<1>2. /\ TrailOrdered' /\ crashes' \in 0 .. MaxCrashes /\ overtaken' \subseteq ScheduleIds
      /\ audited \subseteq audited' /\ Recorded(h)
  BY <1>1 DEF Inv, TypeOK, TrailOrdered, Recorded
<1>3. CASE Finish(h)
  BY <1>1, <1>2, <1>3, FinishStep
<1>4. ASSUME ContinueIn(h, "list", organization[frame[h].employee])
      PROVE  Inv'
  <2>1. organization[frame[h].employee] \in Homes /\ "list" \in Steps
    BY <1>1 DEF Inv, TypeOK, Placed, Steps
  <2>2. /\ frame' \in [Handlers -> Frame]
        /\ \A g \in Handlers \ {h} : frame'[g] = frame[g]
        /\ frame'[h].at = "list" /\ frame'[h].id = frame[h].id
        /\ frame'[h].employee = frame[h].employee
    BY <1>4, <2>1, ContinueInFrame
  <2>3. TypeOK'
    BY <1>1, <2>2 DEF Inv, TypeOK
  <2>4. Placed'
    BY <1>1, <2>2 DEF Inv, Placed
  <2>5. Charged'
    BY <1>1, <2>2, <2>3, ChargedKept
  <2> QED
    BY <1>2, <2>3, <2>4, <2>5 DEF Inv
<1> QED
  BY <1>3, <1>4 DEF FindEmployee

LEMMA ListStep ==
  ASSUME Inv, NEW h \in Handlers, List(h)
  PROVE  Inv'
<1> PICK f : f = frame[h]
  OBVIOUS
<1>1. /\ f \in Frame /\ f.at = "list" /\ f.id \in ScheduleIds
      /\ UNCHANGED <<organization, schedules, audited, published, crashes>>
      /\ overtaken' = IF Left(f) THEN overtaken \cup {f.id} ELSE overtaken \ {f.id}
  BY DEF List, Inv, TypeOK, Placed
<1>2. /\ TrailOrdered' /\ crashes' \in 0 .. MaxCrashes /\ overtaken' \subseteq ScheduleIds
      /\ audited \subseteq audited' /\ Recorded(h)
  BY <1>1 DEF Inv, TypeOK, TrailOrdered, Recorded
<1>3. CASE Finish(h)
  BY <1>1, <1>2, <1>3, FinishStep
<1>4. ASSUME strictOverlaps(f.employee, f.organization, f.start, f.end) = {},
             ContinueIn(h, "insert", Nil)
      PROVE  Inv'
  <2>1. /\ frame' \in [Handlers -> Frame]
        /\ \A g \in Handlers \ {h} : frame'[g] = frame[g]
        /\ frame'[h].at = "insert" /\ frame'[h].id = f.id /\ frame'[h].employee = f.employee
        /\ frame'[h].start = f.start /\ frame'[h].end = f.end
    BY <1>4, ContinueInFrame DEF Steps, Homes
  <2>3. TypeOK'
    BY <1>1, <1>2, <2>1 DEF Inv, TypeOK
  <2>4. Placed'
    BY <1>1, <2>1 DEF Inv, Placed
  <2>5. Charged'
    <3> SUFFICES ASSUME NEW e \in Employees, NEW x \in Instants
                 PROVE  Cardinality(Checked(e, x)') + Cardinality(Pending(e, x)')
                          <= Cardinality(Handlers)
      BY DEF Charged
    <3>1. Checked(e, x)' = Checked(e, x)
      BY <1>1, <1>2, RecordedElsewhere DEF Checked, Covering
    <3>2. Cardinality(Handlers) \in Nat
      BY ScheduleAssumption, FS_CardinalityType
    <3>3. CASE ~Left(f) /\ f.employee = e /\ f.start <= x /\ x < f.end
      <4>1. Checked(e, x) = {}
        <5> SUFFICES ASSUME NEW i \in Covering(e, x) PROVE FALSE
          BY DEF Checked
        <5>1. /\ i \in DOMAIN schedules /\ schedules[i].employee = e
              /\ schedules[i].start <= x /\ x < schedules[i].end
          BY DEF Covering
        <5>2. /\ schedules[i].start \in Int /\ schedules[i].end \in Int
              /\ f.start \in Int /\ f.end \in Int /\ x \in Int
          BY <1>1, <5>1 DEF Inv, TypeOK, Row, Frame, Instants
        <5>3. f.organization # Nil => organization[f.employee] = f.organization
          BY <3>3 DEF Left
        <5>4. i \in strictOverlaps(f.employee, f.organization, f.start, f.end)
          BY <3>3, <5>1, <5>2, <5>3 DEF strictOverlaps, listInPeriod
        <5> QED
          BY <1>4, <5>4
      <4>2. Cardinality(Checked(e, x)) = 0
        BY <4>1, FS_EmptySet
      <4>3. /\ Cardinality(Pending(e, x)') \in Nat
            /\ Cardinality(Pending(e, x)') <= Cardinality(Handlers)
        <5>1. Pending(e, x)' \subseteq Handlers
          BY DEF Pending
        <5> QED
          BY <5>1, ScheduleAssumption, FS_Subset, FS_CardinalityType
      <4> QED
        BY <3>1, <3>2, <4>2, <4>3
    <3>4. CASE Left(f) \/ ~(f.employee = e /\ f.start <= x /\ x < f.end)
      <4>1. Pending(e, x)' = Pending(e, x)
        <5>1. h \notin Pending(e, x)
          BY <1>1 DEF Pending
        <5>2. h \notin Pending(e, x)'
          BY <1>1, <2>1, <3>4 DEF Pending
        <5>3. \A g \in Handlers \ {h} : g \in Pending(e, x)' <=> g \in Pending(e, x)
          BY <1>2, <2>1, RecordedElsewhere DEF Pending
        <5>4. Pending(e, x) \subseteq Handlers /\ Pending(e, x)' \subseteq Handlers
          BY DEF Pending
        <5> QED
          BY <5>1, <5>2, <5>3, <5>4
      <4> QED
        BY <3>1, <4>1 DEF Inv, Charged
    <3> QED
      BY <3>3, <3>4
  <2> QED
    BY <1>2, <2>3, <2>4, <2>5 DEF Inv
<1> QED
  BY <1>3, <1>4 DEF List

LEMMA InsertStep ==
  ASSUME Inv, NEW h \in Handlers, Insert(h)
  PROVE  Inv'
<1> PICK f : f = frame[h]
  OBVIOUS
<1>1. f \in Frame /\ f.at = "insert" /\ UNCHANGED <<organization, audited, published, crashes, overtaken>>
  BY DEF Insert, Inv, TypeOK
<1>2. /\ f.id \in ScheduleIds /\ f.employee \in Employees /\ f.id \notin DOMAIN schedules
      /\ \A g \in Handlers \ {h} : frame[g].id # f.id
  BY <1>1 DEF Inv, Placed
<1> PICK row : row = NewRow(f)
  OBVIOUS
<1>3. /\ row \in Row /\ row.employee = f.employee
      /\ row.start = f.start /\ row.end = f.end
  BY <1>1, <1>2 DEF NewRow, Row, Frame
<1> PICK n : n = [f EXCEPT !.at = "audit"]
  OBVIOUS
<1>4. n \in Frame /\ n.at = "audit" /\ n.id = f.id /\ n.employee = f.employee
  BY <1>1 DEF Frame, Steps
<1>5. /\ frame' = [frame EXCEPT ![h] = n]
      /\ \A g \in Handlers : frame'[g] = IF g = h THEN n ELSE frame[g]
  BY DEF Insert, Continue, Inv, TypeOK
<1>6. /\ DOMAIN schedules' = DOMAIN schedules \cup {f.id}
      /\ schedules'[f.id] = row
      /\ \A i \in DOMAIN schedules : schedules'[i] = schedules[i]
  BY <1>2 DEF Insert
<1>7. TypeOK'
  BY <1>1, <1>2, <1>3, <1>4, <1>5, <1>6 DEF Inv, TypeOK
<1>8. Placed'
  <2>1. \A g \in Handlers :
          (frame[g].at # "idle")' => (frame[g].id \in ScheduleIds /\ frame[g].employee \in Employees)'
    BY <1>2, <1>4, <1>5 DEF Inv, Placed
  <2>2. ASSUME NEW g \in Handlers, frame'[g].at \in {"find", "list", "insert"}
        PROVE  /\ frame'[g].id \notin DOMAIN schedules'
               /\ \A k \in Handlers \ {g} : frame'[k].id # frame'[g].id
    <3>1. g # h /\ frame'[g] = frame[g]
      BY <1>4, <1>5, <2>2
    <3>2. /\ frame[g].id \notin DOMAIN schedules
          /\ \A k \in Handlers \ {g} : frame[k].id # frame[g].id
      BY <2>2, <3>1 DEF Inv, Placed
    <3>3. frame[g].id # f.id
      BY <1>2, <3>1
    <3>4. \A k \in Handlers : frame'[k].id = frame[k].id
      BY <1>4, <1>5
    <3> QED
      BY <1>6, <3>1, <3>2, <3>3, <3>4
  <2>3. \A g \in Handlers :
          (frame[g].at \in {"audit", "publish"})' => (frame[g].id \in DOMAIN schedules)'
    BY <1>4, <1>5, <1>6 DEF Inv, Placed
  <2>4. \A g \in Handlers : (frame[g].at = "publish")' => (frame[g].id \in audited)'
    BY <1>1, <1>4, <1>5 DEF Inv, Placed
  <2> QED
    BY <2>1, <2>2, <2>3, <2>4 DEF Placed
<1>9. TrailOrdered'
  BY <1>1, <1>6 DEF Inv, TrailOrdered
<1>10. Charged'
  <2> SUFFICES ASSUME NEW e \in Employees, NEW x \in Instants
               PROVE  Cardinality(Checked(e, x)') + Cardinality(Pending(e, x)')
                        <= Cardinality(Handlers)
    BY DEF Charged
  <2>1. CASE f.id \notin overtaken /\ f.employee = e /\ f.start <= x /\ x < f.end
    <3>1. Checked(e, x)' = Checked(e, x) \cup {f.id} /\ f.id \notin Checked(e, x)
      BY <1>1, <1>2, <1>3, <1>6, <2>1 DEF Checked, Covering
    <3>2. Pending(e, x)' = Pending(e, x) \ {h} /\ h \in Pending(e, x)
      <4>1. h \in Pending(e, x) /\ h \notin Pending(e, x)'
        BY <1>1, <1>4, <1>5, <2>1 DEF Pending
      <4>2. \A g \in Handlers : g # h => (g \in Pending(e, x)' <=> g \in Pending(e, x))
        BY <1>1, <1>5 DEF Pending
      <4>3. Pending(e, x) \subseteq Handlers /\ Pending(e, x)' \subseteq Handlers
        BY DEF Pending
      <4> QED
        BY <4>1, <4>2, <4>3
    <3>3. Cardinality(Checked(e, x)') = Cardinality(Checked(e, x)) + 1
      BY <3>1, Finiteness, FS_AddElement DEF Inv
    <3>4. Cardinality(Pending(e, x)') = Cardinality(Pending(e, x)) - 1
      BY <3>2, Finiteness, FS_RemoveElement DEF Inv
    <3>5. Cardinality(Checked(e, x)) + Cardinality(Pending(e, x)) <= Cardinality(Handlers)
      BY DEF Inv, Charged
    <3>6. Cardinality(Checked(e, x)) \in Nat /\ Cardinality(Pending(e, x)) \in Nat
      BY Finiteness DEF Inv
    <3> QED
      BY <3>3, <3>4, <3>5, <3>6
  <2>2. CASE f.id \in overtaken \/ ~(f.employee = e /\ f.start <= x /\ x < f.end)
    <3>1. Checked(e, x)' = Checked(e, x)
      BY <1>1, <1>2, <1>3, <1>6, <2>2 DEF Checked, Covering
    <3>2. Pending(e, x)' = Pending(e, x)
      <4>1. h \notin Pending(e, x) /\ h \notin Pending(e, x)'
        BY <1>4, <1>5, <2>2 DEF Pending
      <4>2. \A g \in Handlers : g # h => (g \in Pending(e, x)' <=> g \in Pending(e, x))
        BY <1>1, <1>5 DEF Pending
      <4>3. Pending(e, x) \subseteq Handlers /\ Pending(e, x)' \subseteq Handlers
        BY DEF Pending
      <4> QED
        BY <4>1, <4>2, <4>3
    <3> QED
      BY <3>1, <3>2 DEF Inv, Charged
  <2> QED
    BY <2>1, <2>2
<1> QED
  BY <1>7, <1>8, <1>9, <1>10 DEF Inv

LEMMA AuditStep ==
  ASSUME Inv, NEW h \in Handlers, Audit(h)
  PROVE  Inv'
<1> PICK f : f = frame[h]
  OBVIOUS
<1>1. /\ f \in Frame /\ f.at = "audit" /\ UNCHANGED <<organization, schedules, published, crashes, overtaken>>
      /\ audited' = audited \cup {f.id}
  BY DEF Audit, Inv, TypeOK
<1>2. f.id \in ScheduleIds /\ f.employee \in Employees /\ f.id \in DOMAIN schedules
  BY <1>1 DEF Inv, Placed
<1> PICK n : n = [f EXCEPT !.at = "publish"]
  OBVIOUS
<1>3. n \in Frame /\ n.at = "publish" /\ n.id = f.id /\ n.employee = f.employee
  BY <1>1 DEF Frame, Steps
<1>4. /\ frame' = [frame EXCEPT ![h] = n]
      /\ \A g \in Handlers : frame'[g] = IF g = h THEN n ELSE frame[g]
  BY DEF Audit, Continue, Inv, TypeOK
<1>5. TypeOK'
  BY <1>1, <1>2, <1>3, <1>4 DEF Inv, TypeOK
<1>6. Placed'
  BY <1>1, <1>2, <1>3, <1>4 DEF Inv, Placed
<1>7. TrailOrdered'
  BY <1>1, <1>2 DEF Inv, TrailOrdered
<1>8. Charged'
  BY <1>1, <1>3, <1>4, <1>5, ChargedKept
<1> QED
  BY <1>5, <1>6, <1>7, <1>8 DEF Inv

LEMMA PublishStep ==
  ASSUME Inv, NEW h \in Handlers, Publish(h)
  PROVE  Inv'
<1>1. frame[h].id \in audited
  BY DEF Publish, Inv, Placed
<1>2. TrailOrdered' /\ crashes' \in 0 .. MaxCrashes
  BY <1>1 DEF Publish, Inv, TypeOK, TrailOrdered
<1> QED
  BY <1>2, FinishStep DEF Publish, Recorded, Inv, TypeOK

LEMMA CrashStep ==
  ASSUME Inv, NEW h \in Handlers, Crash(h)
  PROVE  Inv'
<1>1. TrailOrdered' /\ crashes' \in 0 .. MaxCrashes
  BY ScheduleAssumption DEF Crash, Inv, TypeOK, TrailOrdered
<1> QED
  BY <1>1, FinishStep DEF Crash, Recorded, Inv, TypeOK

LEMMA MoveStep ==
  ASSUME Inv, NEW e \in Employees, NEW o \in Homes, Move(e, o)
  PROVE  Inv'
<1>1. /\ organization' \in [Employees -> Homes]
      /\ UNCHANGED <<schedules, audited, published, frame, crashes, overtaken>>
  BY DEF Move, Inv, TypeOK
<1>2. TypeOK' /\ Placed' /\ TrailOrdered'
  BY <1>1 DEF Inv, TypeOK, Placed, TrailOrdered
<1>3. Charged'
  BY <1>1, <1>2, ChargedKept
<1> QED
  BY <1>2, <1>3 DEF Inv

LEMMA InitInv == Init => Inv
<1> SUFFICES ASSUME Init PROVE Inv
  OBVIOUS
<1>1. /\ DOMAIN schedules = {} /\ audited = {} /\ published = {} /\ crashes = 0
      /\ frame \in [Handlers -> Frame] /\ \A h \in Handlers : frame[h].at = "idle"
      /\ organization \in [Employees -> Homes] /\ overtaken = {}
  BY IdleFrame DEF Init, Idle
<1>2. TypeOK /\ Placed /\ TrailOrdered
  BY <1>1, ScheduleAssumption DEF TypeOK, Placed, TrailOrdered
<1>3. Charged
  <2> SUFFICES ASSUME NEW e \in Employees, NEW x \in Instants
               PROVE  Cardinality(Checked(e, x)) + Cardinality(Pending(e, x))
                        <= Cardinality(Handlers)
    BY DEF Charged
  <2>1. Checked(e, x) = {} /\ Pending(e, x) = {}
    BY <1>1 DEF Checked, Covering, Pending
  <2>2. Cardinality(Checked(e, x)) = 0 /\ Cardinality(Pending(e, x)) = 0
    BY <2>1, FS_EmptySet
  <2>3. Cardinality(Handlers) \in Nat
    BY ScheduleAssumption, FS_CardinalityType
  <2> QED
    BY <2>2, <2>3
<1> QED
  BY <1>2, <1>3 DEF Inv

LEMMA NextInv == Inv /\ [Next]_vars => Inv'
<1>1. ASSUME Inv, Next PROVE Inv'
  BY <1>1, OpenStep, FindStep, ListStep, InsertStep, AuditStep, PublishStep, CrashStep,
     MoveStep DEF Next, Work
<1>2. ASSUME Inv, UNCHANGED vars PROVE Inv'
  <2>1. TypeOK' /\ Placed' /\ TrailOrdered'
    BY <1>2 DEF Inv, TypeOK, Placed, TrailOrdered, vars
  <2>2. Charged'
    BY <1>2, <2>1, ChargedKept DEF vars
  <2> QED
    BY <2>1, <2>2 DEF Inv
<1> QED
  BY <1>1, <1>2

\* Every reachable state meets the strengthened invariant: each window that was
\* checked against all schedules of its employee is accounted for from its check
\* on, whoever is moved, dies or books in between.
THEOREM ScheduleInvariance == Spec => []Inv
  BY InitInv, NextInv, PTL DEF Spec

\* The rows and the handlers' local state keep their types.
THEOREM ScheduleTypes == Spec => []TypeOK
<1>1. Inv => TypeOK
  BY DEF Inv
<1> QED
  BY <1>1, ScheduleInvariance, PTL

\* No slot of an employee is booked more often than requests can be open, but for
\* schedules whose employee had left the organization they were checked in.
THEOREM BookingsAreBounded == Spec => []BookingsBounded
<1>1. ASSUME Inv
      PROVE  BookingsBounded
  <2> SUFFICES ASSUME NEW e \in Employees, NEW x \in Instants
               PROVE  Cardinality(Checked(e, x)) <= Cardinality(Handlers)
    BY DEF BookingsBounded, Checked
  <2>1. Cardinality(Checked(e, x)) + Cardinality(Pending(e, x)) <= Cardinality(Handlers)
    BY <1>1 DEF Inv, Charged
  <2>2. /\ Cardinality(Checked(e, x)) \in Nat /\ Cardinality(Pending(e, x)) \in Nat
        /\ Cardinality(Handlers) \in Nat
    BY <1>1, Finiteness, ScheduleAssumption, FS_CardinalityType DEF Inv
  <2> QED
    BY <2>1, <2>2
<1>2. Inv => BookingsBounded
  BY <1>1
<1> QED
  BY <1>2, ScheduleInvariance, PTL

\* With one request at a time, schedules of an employee do not overlap as long as
\* nobody is moved between a request's two reads.
THEOREM SerialSchedulesDisjoint ==
  ASSUME Cardinality(Handlers) = 1
  PROVE  Spec => [](overtaken = {} => NoOverlap)
<1>1. ASSUME BookingsBounded, overtaken = {}
      PROVE  NoOverlap
  <2> SUFFICES ASSUME NEW e \in Employees, NEW x \in Instants
               PROVE  Cardinality(Covering(e, x)) <= 1
    BY DEF NoOverlap
  <2>1. Covering(e, x) \ overtaken = Covering(e, x)
    BY <1>1
  <2> QED
    BY <1>1, <2>1 DEF BookingsBounded
<1>2. BookingsBounded => (overtaken = {} => NoOverlap)
  BY <1>1
<1> QED
  BY <1>2, BookingsAreBounded, PTL

\* Events and audit entries are of stored schedules.
THEOREM ScheduleTrailsOrdered == Spec => []TrailOrdered
<1>1. Inv => TrailOrdered
  BY DEF Inv
<1> QED
  BY <1>1, ScheduleInvariance, PTL

-----------------------------------------------------------------------------
(* Which requests are refused. *)

\* No window is empty: not a stored one, nor one that is being worked on.
Windows ==
  /\ \A i \in DOMAIN schedules : schedules[i].start < schedules[i].end
  /\ \A h \in Handlers : frame[h].at # "idle" => frame[h].start < frame[h].end

LEMMA WindowsNext ==
  ASSUME Inv, Windows, [Next]_vars
  PROVE  Windows'
<1>1. CASE UNCHANGED vars
  BY <1>1 DEF vars, Windows
<1>2. ASSUME NEW h \in Handlers, Open(h)
      PROVE  Windows'
  <2> PICK i \in ScheduleIds, e \in Employees, s \in Instants, t \in Instants :
        OpenCreate(h, i, e, s, t)
    BY <1>2 DEF Open
  <2> QED
    BY DEF OpenCreate, Windows, Inv, TypeOK
<1>3. ASSUME NEW h \in Handlers, NEW at, Continue(h, at), frame[h].at # "idle",
             UNCHANGED schedules
      PROVE  Windows'
  <2> PICK n : n = [frame[h] EXCEPT !.at = at]
    OBVIOUS
  <2>1. n.start = frame[h].start /\ n.end = frame[h].end
    BY DEF Inv, TypeOK, Frame
  <2>2. \A g \in Handlers : frame'[g] = IF g = h THEN n ELSE frame[g]
    BY <1>3 DEF Continue, Inv, TypeOK
  <2> QED
    BY <1>3, <2>1, <2>2 DEF Windows
<1>4. ASSUME NEW h \in Handlers, Finish(h), UNCHANGED schedules
      PROVE  Windows'
  <2>1. \A g \in Handlers : frame'[g] = IF g = h THEN Idle ELSE frame[g]
    BY <1>4 DEF Finish, Inv, TypeOK
  <2> QED
    BY <1>4, <2>1 DEF Windows, Idle
<1>5. ASSUME NEW h \in Handlers, NEW at, NEW o, ContinueIn(h, at, o),
             frame[h].at # "idle", UNCHANGED schedules
      PROVE  Windows'
  <2> PICK n : n = [at |-> at, id |-> frame[h].id, employee |-> frame[h].employee,
                    organization |-> o, start |-> frame[h].start, end |-> frame[h].end]
    OBVIOUS
  <2>1. n.start = frame[h].start /\ n.end = frame[h].end
    OBVIOUS
  <2>2. \A g \in Handlers : frame'[g] = IF g = h THEN n ELSE frame[g]
    BY <1>5 DEF ContinueIn, Inv, TypeOK
  <2> QED
    BY <1>5, <2>1, <2>2 DEF Windows
<1>6. ASSUME NEW h \in Handlers, Insert(h)
      PROVE  Windows'
  <2> PICK n : n = [frame[h] EXCEPT !.at = "audit"]
    OBVIOUS
  <2>1. n.start = frame[h].start /\ n.end = frame[h].end
    BY DEF Inv, TypeOK, Frame
  <2>2. /\ \A g \in Handlers : frame'[g] = IF g = h THEN n ELSE frame[g]
        /\ frame[h].at # "idle"
    BY <1>6 DEF Insert, Continue, Inv, TypeOK
  <2>3. \A i \in DOMAIN schedules' :
          schedules'[i] = IF i = frame[h].id THEN NewRow(frame[h]) ELSE schedules[i]
    BY <1>6 DEF Insert
  <2>4. DOMAIN schedules' = DOMAIN schedules \cup {frame[h].id}
    BY <1>6 DEF Insert
  <2>5. /\ (NewRow(frame[h])).start = frame[h].start /\ (NewRow(frame[h])).end = frame[h].end
        /\ frame[h].start < frame[h].end
    BY <2>2 DEF NewRow, Windows
  <2>6. \A i \in DOMAIN schedules' : schedules'[i].start < schedules'[i].end
    BY <2>3, <2>4, <2>5 DEF Windows
  <2>7. \A g \in Handlers : frame'[g].at # "idle" => frame'[g].start < frame'[g].end
    BY <2>1, <2>2, <2>5 DEF Windows
  <2> QED
    BY <2>6, <2>7 DEF Windows
<1> QED
  BY <1>1, <1>2, <1>3, <1>4, <1>5, <1>6
  DEF Next, Work, FindEmployee, List, Audit, Publish, Crash, Move, Windows

\* Two windows overlap strictly when they share a slot, and only then.
LEMMA OverlapIsASlot ==
  ASSUME Inv, Windows, NEW e, NEW o, NEW s \in Instants, NEW t \in Instants, s < t,
         o \in {Nil, organization[e]}
  PROVE  strictOverlaps(e, o, s, t) # {} <=> \E x \in s .. t - 1 : Covering(e, x) # {}
<1>1. \A i \in DOMAIN schedules :
        /\ schedules[i].start \in Int /\ schedules[i].end \in Int
        /\ schedules[i].start < schedules[i].end
  BY DEF Inv, TypeOK, Row, Instants, Windows
<1>2. s \in Int /\ t \in Int
  BY DEF Instants
<1>3. ASSUME NEW i \in strictOverlaps(e, o, s, t)
      PROVE  \E x \in s .. t - 1 : Covering(e, x) # {}
  <2> PICK x : x = IF s <= schedules[i].start THEN schedules[i].start ELSE s
    OBVIOUS
  <2>1. i \in DOMAIN schedules /\ schedules[i].employee = e
        /\ schedules[i].start < t /\ schedules[i].end > s
    BY <1>3 DEF strictOverlaps, listInPeriod
  <2>2. x \in s .. t - 1 /\ schedules[i].start <= x /\ x < schedules[i].end
    BY <1>1, <1>2, <2>1
  <2>3. i \in Covering(e, x)
    BY <2>1, <2>2 DEF Covering
  <2> QED
    BY <2>2, <2>3
<1>4. ASSUME NEW x \in s .. t - 1, NEW i \in Covering(e, x)
      PROVE  i \in strictOverlaps(e, o, s, t)
  <2>1. i \in DOMAIN schedules /\ schedules[i].employee = e
        /\ schedules[i].start <= x /\ x < schedules[i].end
    BY <1>4 DEF Covering
  <2>2. schedules[i].start <= t /\ schedules[i].end >= s
        /\ schedules[i].start < t /\ schedules[i].end > s
    BY <1>1, <1>2, <2>1
  <2> QED
    BY <2>1, <2>2 DEF strictOverlaps, listInPeriod
<1> QED
  BY <1>3, <1>4

\* The answer of a handler that listed the schedules around its window.
RefusesTaken ==
  \A h \in Handlers :
    LET f == frame[h] IN
      List(h) =>
        (frame'[h].at = "idle" <=>
           /\ ~Left(f)
           /\ \E x \in f.start .. f.end - 1 : Covering(f.employee, x) # {})

LEMMA ListAnswers ==
  ASSUME Inv, Windows
  PROVE  RefusesTaken
<1> SUFFICES ASSUME NEW h \in Handlers, List(h)
             PROVE  frame'[h].at = "idle" <=>
                      /\ ~Left(frame[h])
                      /\ \E x \in frame[h].start .. frame[h].end - 1 :
                           Covering(frame[h].employee, x) # {}
  BY DEF RefusesTaken
<1> PICK f \in Frame : f = frame[h]
  BY DEF Inv, TypeOK
<1>1. f.start \in Instants /\ f.end \in Instants /\ f.start < f.end
  BY DEF List, Windows, Frame
<1>2. strictOverlaps(f.employee, f.organization, f.start, f.end) # {}
        <=> ~Left(f) /\ \E x \in f.start .. f.end - 1 : Covering(f.employee, x) # {}
  <2>1. CASE Left(f)
    BY <2>1 DEF Left, strictOverlaps, listInPeriod
  <2>2. CASE ~Left(f)
    <3>1. f.organization \in {Nil, organization[f.employee]}
      BY <2>2 DEF Left
    <3> QED
      BY <1>1, <2>2, <3>1, OverlapIsASlot
  <2> QED
    BY <2>1, <2>2
<1>3. Finish(h) => frame'[h].at = "idle"
  BY DEF Finish, Idle, Inv, TypeOK
<1>4. ContinueIn(h, "insert", Nil) => frame'[h].at = "insert"
  BY DEF ContinueIn, Inv, TypeOK
<1> QED
  BY <1>2, <1>3, <1>4 DEF List

\* A request is refused when, and only when, its employee is still in the
\* organization it read and a slot of its window is taken, at the moment of the
\* check, however many handlers race, wherever they die and whoever is moved.
THEOREM RefusalsAreExact == Spec => RefusedIffTaken
<1>1. Init => Windows
  BY DEF Init, Windows, Idle
<1>2. Inv /\ Windows /\ [Next]_vars => Windows'
  BY WindowsNext
<1>3. Inv /\ Windows /\ [Next]_vars => [RefusesTaken]_vars
  BY ListAnswers
<1>4. [RefusesTaken]_vars <=>
        [\A h \in Handlers :
           LET f == frame[h] IN
             List(h) =>
               (frame'[h].at = "idle" <=>
                  /\ ~Left(f)
                  /\ \E x \in f.start .. f.end - 1 : Covering(f.employee, x) # {})]_vars
  BY DEF RefusesTaken
<1> QED
  BY <1>1, <1>2, <1>3, <1>4, ScheduleInvariance, PTL DEF Spec, RefusedIffTaken
=============================================================================
