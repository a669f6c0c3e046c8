--------------------------- MODULE AttendanceProofs ---------------------------
(***************************************************************************)
(* What holds of AttendanceRecords for any number of requests, employees,  *)
(* records, instants and crashes.                                          *)
(***************************************************************************)
EXTENDS AttendanceRecords, TLAPS

Decided(r) == r \in DOMAIN records /\ records[r].state \in Finals

Coherent(row) == row.stamped <=> row.state = "APPROVED"

\* What a handler relies on at each step.
Placed(f) ==
  /\ f.at # "idle" => f.op \in Ops /\ f.record \in RecordIds
  /\ f.at = "find" => f.op # "recorded"
  /\ f.at = "insert" => /\ f.op = "recorded" /\ f.employee \in Employees
                        /\ f.record \notin DOMAIN records
  /\ f.at = "edit" => f.op = "corrected"
  /\ f.at = "decide" => f.op \in Finals
  /\ f.at \in {"edit", "decide"} => f.record \in DOMAIN records
  /\ f.at = "audit" /\ f.op \in Finals => Decided(f.record)
  /\ f.at = "publish" => <<f.op, f.record>> \in audited

\* No two creations are given the same id.
Reserved ==
  \A c, d \in Clerks :
    frame[c].at = "insert" /\ frame[d].at = "insert" /\ c # d =>
      frame[c].record # frame[d].record

\* The inductive invariant.
Inv ==
  /\ TypeOK
  /\ \A c \in Clerks : Placed(frame[c])
  /\ Reserved
  /\ StampCoherent
  /\ TrailOrdered

\* No step takes a decision back.
Sticks == \A r \in RecordIds : Decided(r) => Decided(r)'

-----------------------------------------------------------------------------
LEMMA IdleFrame == Idle \in Frame /\ Placed(Idle) /\ Idle.at = "idle"
  BY AttendanceAssumption DEF Idle, Frame, Steps, Instants, Placed, Finals

LEMMA CurrentFrame ==
  ASSUME Inv, NEW c \in Clerks
  PROVE  frame \in [Clerks -> Frame] /\ frame[c] \in Frame /\ Placed(frame[c])
  BY DEF Inv, TypeOK

LEMMA Advance ==
  ASSUME Inv, NEW c \in Clerks, NEW at \in Steps, NEW f, f = [frame[c] EXCEPT !.at = at]
  PROVE  /\ f \in Frame /\ f.at = at /\ f.op = frame[c].op /\ f.record = frame[c].record
         /\ f.employee = frame[c].employee
         /\ Continue(c, at) => frame' = [frame EXCEPT ![c] = f]
<1>1. frame[c] \in Frame
  BY CurrentFrame
<1>2. /\ f \in Frame /\ f.at = at /\ f.op = frame[c].op /\ f.record = frame[c].record
      /\ f.employee = frame[c].employee
  BY <1>1 DEF Frame
<1>3. Continue(c, at) => frame' = [frame EXCEPT ![c] = f]
  BY DEF Continue
<1> QED
  BY <1>2, <1>3

\* Rows, audit entries and decisions stay, so the other handlers keep what they
\* rely on.
LEMMA FrameStep ==
  ASSUME Inv, NEW c \in Clerks, NEW f \in Frame,
         frame' = [frame EXCEPT ![c] = f], Placed(f)',
         f.at = "insert" =>
           \A d \in Clerks \ {c} : frame[d].at = "insert" => frame[d].record # f.record,
         DOMAIN records \subseteq DOMAIN records', audited \subseteq audited', Sticks,
         \A d \in Clerks \ {c} :
           frame[d].at = "insert" => frame[d].record \notin DOMAIN records'
  PROVE  /\ frame' \in [Clerks -> Frame]
         /\ (\A d \in Clerks : Placed(frame[d]))'
         /\ Reserved'
<1>1. frame \in [Clerks -> Frame]
  BY DEF Inv, TypeOK
<1>2. frame' \in [Clerks -> Frame] /\ frame'[c] = f
      /\ \A d \in Clerks \ {c} : frame'[d] = frame[d]
  BY <1>1
<1>3. ASSUME NEW d \in Clerks
      PROVE  Placed(frame[d])'
  <2>1. CASE d = c
    BY <1>2, <2>1 DEF Placed, Decided
  <2>2. CASE d # c
    <3>1. frame'[d] = frame[d] /\ Placed(frame[d])
      BY <1>2, <2>2 DEF Inv
    <3> PICK g : g = frame[d]
      OBVIOUS
    <3>2. Placed(g) /\ (g.at = "insert" => g.record \notin DOMAIN records')
      BY <2>2, <3>1
    <3>3. g.at = "audit" /\ g.op \in Finals => Decided(g.record)'
      BY <3>2 DEF Sticks, Placed
    <3>4. Placed(g)'
      BY <3>2, <3>3 DEF Placed
    <3> QED
      BY <3>1, <3>4 DEF Placed, Decided
  <2> QED
    BY <2>1, <2>2
<1>4. Reserved'
  BY <1>2 DEF Inv, Reserved
<1> QED
  BY <1>2, <1>3, <1>4

\* A step of a handler that writes nothing.
LEMMA QuietStep ==
  ASSUME Inv, NEW c \in Clerks, NEW f \in Frame,
         frame' = [frame EXCEPT ![c] = f], Placed(f),
         f.at = "insert" =>
           \A d \in Clerks \ {c} : frame[d].at = "insert" => frame[d].record # f.record,
         UNCHANGED <<records, trail>>, crashes' \in 0 .. MaxCrashes
  PROVE  Inv' /\ Sticks
<1>1. UNCHANGED <<records, audited, published, finals>>
  BY DEF trail
<1>2. Sticks
  BY <1>1 DEF Sticks, Decided
<1>3. Placed(f)'
  BY <1>1 DEF Placed, Decided
<1>4. \A d \in Clerks \ {c} :
        frame[d].at = "insert" => frame[d].record \notin DOMAIN records'
  BY <1>1 DEF Inv, Placed
<1>5. /\ frame' \in [Clerks -> Frame]
      /\ (\A d \in Clerks : Placed(frame[d]))'
      /\ Reserved'
  BY <1>1, <1>2, <1>3, <1>4, FrameStep
<1>6. TypeOK' /\ StampCoherent' /\ TrailOrdered'
  BY <1>1, <1>5 DEF Inv, TypeOK, StampCoherent, TrailOrdered
<1> QED
  BY <1>2, <1>5, <1>6 DEF Inv

LEMMA FinishStep ==
  ASSUME Inv, NEW c \in Clerks, Finish(c), UNCHANGED <<records, trail>>,
         crashes' \in 0 .. MaxCrashes
  PROVE  Inv' /\ Sticks
  BY IdleFrame, QuietStep DEF Finish

\* A step that writes one row and goes on to its audit entry.
LEMMA RowStep ==
  ASSUME Inv, NEW c \in Clerks, Continue(c, "audit"),
         NEW id \in RecordIds, id = frame[c].record, frame[c].at # "idle",
         NEW row \in Row,
         DOMAIN records' = DOMAIN records \cup {id}, records'[id] = row,
         \A r \in DOMAIN records : r # id => records'[r] = records[r],
         Coherent(row),
         Decided(id) => row.state \in Finals,
         frame[c].op \in Finals => row.state \in Finals,
         \A d \in Clerks \ {c} : frame[d].at = "insert" => frame[d].record # id,
         UNCHANGED <<trail, crashes>>
  PROVE  Inv' /\ Sticks
<1> PICK f : f = [frame[c] EXCEPT !.at = "audit"]
  OBVIOUS
<1>1. /\ f \in Frame /\ f.at = "audit" /\ f.op = frame[c].op /\ f.record = id
      /\ frame' = [frame EXCEPT ![c] = f]
  BY Advance DEF Steps
<1>2. UNCHANGED <<audited, published, finals, crashes>>
  BY DEF trail
<1>3. /\ DOMAIN records' = DOMAIN records \cup {id}
      /\ records'[id] = row
      /\ \A r \in DOMAIN records : r # id => records'[r] = records[r]
  OBVIOUS
<1>4. Sticks
  BY <1>3 DEF Sticks, Decided
<1>5. Placed(f)'
  <2>1. f.op \in Ops /\ f.record \in RecordIds
    BY <1>1, CurrentFrame DEF Placed
  <2>2. f.op \in Finals => Decided(f.record)'
    BY <1>1, <1>3 DEF Decided
  <2> QED
    BY <1>1, <2>1, <2>2 DEF Placed
<1>6. \A d \in Clerks \ {c} :
        frame[d].at = "insert" => frame[d].record \notin DOMAIN records'
  BY <1>3 DEF Inv, Placed
<1>7. /\ frame' \in [Clerks -> Frame]
      /\ (\A d \in Clerks : Placed(frame[d]))'
      /\ Reserved'
  BY <1>1, <1>2, <1>3, <1>4, <1>5, <1>6, FrameStep
<1>8. TypeOK'
  <2>1. DOMAIN records' \subseteq RecordIds /\ \A r \in DOMAIN records' : records'[r] \in Row
    BY <1>3 DEF Inv, TypeOK
  <2> QED
    BY <1>2, <1>7, <2>1 DEF Inv, TypeOK
<1>9. StampCoherent'
  BY <1>3 DEF Inv, StampCoherent, Coherent
<1>10. TrailOrdered'
  <2>1. ASSUME NEW r \in RecordIds, NEW d \in Finals, <<d, r>> \in audited'
        PROVE  Decided(r)'
    BY <1>2, <1>4, <2>1 DEF Inv, TrailOrdered, Sticks, Decided
  <2> QED
    BY <1>2, <2>1 DEF Inv, TrailOrdered, Decided
<1> QED
  BY <1>4, <1>7, <1>8, <1>9, <1>10 DEF Inv

-----------------------------------------------------------------------------
LEMMA OpenStep ==
  ASSUME Inv, NEW c \in Clerks, OpenSome(c)
  PROVE  Inv' /\ Sticks
<1>1. ASSUME NEW f \in Frame, Placed(f), Open(c, f),
             f.at = "insert" => \A d \in Clerks : frame[d].record # f.record
      PROVE  Inv' /\ Sticks
  BY <1>1, QuietStep DEF Open, Inv, TypeOK
<1>2. ASSUME NEW r \in RecordIds, NEW e \in Employees, NEW t \in Instants,
             NEW m \in Minutes \cup {Nil}, OpenCreate(c, r, e, t, m)
      PROVE  Inv' /\ Sticks
  <2> DEFINE f == [Idle EXCEPT !.at = "insert", !.op = "recorded", !.record = r,
                               !.employee = e, !.checkIn = t, !.minutes = m]
  <2>1. f \in Frame /\ Placed(f) /\ f.record = r
    BY <1>2 DEF OpenCreate, Idle, Frame, Steps, Placed, Ops, Finals
  <2> QED
    BY <1>1, <1>2, <2>1 DEF OpenCreate
<1>3. ASSUME NEW r \in RecordIds, NEW p \in SUBSET {"checkIn", "minutes"},
             NEW t \in Instants, NEW m \in Minutes, OpenCorrect(c, r, p, t, m)
      PROVE  Inv' /\ Sticks
  <2> DEFINE f == [Idle EXCEPT !.at = "find", !.op = "corrected", !.record = r,
                               !.patch = p, !.checkIn = t, !.minutes = m]
  <2>1. f \in Frame /\ Placed(f) /\ f.at = "find"
    BY DEF Idle, Frame, Steps, Placed, Ops, Finals
  <2> QED
    BY <1>1, <1>3, <2>1 DEF OpenCorrect
<1>4. ASSUME NEW r \in RecordIds, NEW d \in Finals, OpenDecide(c, r, d)
      PROVE  Inv' /\ Sticks
  <2> DEFINE f == [Idle EXCEPT !.at = "find", !.op = d, !.record = r]
  <2>1. f \in Frame /\ f.at = "find" /\ f.op = d /\ f.record = r
    BY IdleFrame DEF Frame, Steps, Ops
  <2>2. Placed(f)
    BY <2>1 DEF Placed, Ops, Finals
  <2> QED
    BY <1>1, <1>4, <2>1, <2>2 DEF OpenDecide
<1> QED
  BY <1>2, <1>3, <1>4 DEF OpenSome

LEMMA RefuseStep ==
  ASSUME Inv, NEW c \in Clerks, Refuse(c)
  PROVE  Inv' /\ Sticks
  BY FinishStep DEF Refuse, Inv, TypeOK

LEMMA CrashStep ==
  ASSUME Inv, NEW c \in Clerks, Crash(c)
  PROVE  Inv' /\ Sticks
<1>1. crashes' \in 0 .. MaxCrashes
  BY AttendanceAssumption DEF Crash, Inv, TypeOK
<1> QED
  BY <1>1, FinishStep DEF Crash

LEMMA FindStep ==
  ASSUME Inv, NEW c \in Clerks, FindPending(c)
  PROVE  Inv' /\ Sticks
<1>1. crashes' \in 0 .. MaxCrashes /\ UNCHANGED <<records, trail>>
  BY DEF FindPending, Inv, TypeOK
<1>2. CASE Finish(c)
  BY <1>1, <1>2, FinishStep
<1>3. ASSUME NEW at \in {"edit", "decide"}, Continue(c, at),
             at = "decide" <=> frame[c].op \in Finals,
             frame[c].at = "find", frame[c].record \in DOMAIN records
      PROVE  Inv' /\ Sticks
  <2> PICK f : f = [frame[c] EXCEPT !.at = at]
    OBVIOUS
  <2>1. /\ f \in Frame /\ f.at = at /\ f.op = frame[c].op /\ f.record = frame[c].record
        /\ frame' = [frame EXCEPT ![c] = f]
    BY <1>3, Advance DEF Steps
  <2>2. Placed(f)
    BY <1>3, <2>1, CurrentFrame DEF Placed, Ops
  <2> QED
    BY <1>1, <2>1, <2>2, QuietStep
<1> QED
  BY <1>2, <1>3 DEF FindPending

LEMMA InsertStep ==
  ASSUME Inv, NEW c \in Clerks, Insert(c)
  PROVE  Inv' /\ Sticks
<1> PICK f \in Frame : f = frame[c]
  BY CurrentFrame
<1>1. /\ f.at = "insert" /\ f.op = "recorded" /\ f.employee \in Employees
      /\ f.record \in RecordIds /\ f.record \notin DOMAIN records
  BY CurrentFrame DEF Insert, Placed
<1> PICK row : row = [employee |-> f.employee, checkIn |-> f.checkIn, minutes |-> f.minutes,
                      state |-> "PENDING", stamped |-> FALSE]
  OBVIOUS
<1>2. row \in Row /\ ~row.stamped /\ row.state = "PENDING"
  BY <1>1 DEF Row, Frame
<1>3. /\ ~Decided(f.record) /\ f.op \notin Finals
      /\ \A d \in Clerks \ {c} : frame[d].at = "insert" => frame[d].record # f.record
  BY <1>1 DEF Decided, Finals, Inv, Reserved
<1>4. /\ DOMAIN records' = DOMAIN records \cup {f.record} /\ records'[f.record] = row
      /\ \A r \in DOMAIN records : r # f.record => records'[r] = records[r]
      /\ Continue(c, "audit") /\ UNCHANGED <<trail, crashes>>
  BY DEF Insert
<1>5. /\ f.record = frame[c].record /\ frame[c].at # "idle" /\ row \in Row
      /\ frame[c].op \notin Finals /\ Coherent(row)
  BY <1>1, <1>2, <1>3 DEF Coherent
<1> QED
  BY <1>1, <1>3, <1>4, <1>5, RowStep

\* A write to a row that is there, by a correction or a decision.
LEMMA UpdateStep ==
  ASSUME Inv, NEW c \in Clerks, frame[c].at \in {"edit", "decide"}, Continue(c, "audit"),
         NEW row, row \in Row, Coherent(row),
         records' = [records EXCEPT ![frame[c].record] = row],
         Decided(frame[c].record) => row.state \in Finals,
         frame[c].op \in Finals => row.state \in Finals,
         UNCHANGED <<trail, crashes>>
  PROVE  Inv' /\ Sticks
<1> PICK id : id = frame[c].record
  OBVIOUS
<1>1. id \in RecordIds /\ id \in DOMAIN records /\ frame[c].at # "idle"
  BY CurrentFrame DEF Placed
<1>2. /\ DOMAIN records' = DOMAIN records \cup {id} /\ records'[id] = row
      /\ \A r \in DOMAIN records : r # id => records'[r] = records[r]
  BY <1>1
<1>3. \A d \in Clerks \ {c} : frame[d].at = "insert" => frame[d].record # id
  BY <1>1 DEF Inv, Placed
<1>4. Decided(id) => row.state \in Finals
  OBVIOUS
<1> QED
  BY <1>1, <1>2, <1>3, <1>4, RowStep

LEMMA EditStep ==
  ASSUME Inv, NEW c \in Clerks, Edit(c)
  PROVE  Inv' /\ Sticks
<1> PICK f \in Frame : f = frame[c]
  BY CurrentFrame
<1>1. f.at = "edit" /\ f.op = "corrected" /\ f.record \in DOMAIN records
  BY CurrentFrame DEF Edit, Placed
<1> PICK old : old = records[f.record]
  OBVIOUS
<1> PICK row : row = CorrectedRow(old, f)
  OBVIOUS
<1>2. old \in Row /\ (old.stamped <=> old.state = "APPROVED")
  BY <1>1 DEF Inv, TypeOK, StampCoherent
<1>3. CASE f.patch \subseteq {"checkIn"} \/ f.minutes \in Minutes \cup {Nil}
  <2>1. row \in Row /\ row.state = old.state /\ row.stamped = old.stamped
    BY <1>2 DEF CorrectedRow, Row, Frame
  <2>2. Decided(f.record) => row.state \in Finals
    BY <2>1 DEF Decided
  <2>3. Coherent(row)
    BY <1>2, <2>1 DEF Coherent
  <2> QED
    BY <1>1, <2>1, <2>2, <2>3, UpdateStep DEF Edit, Finals
<1> QED
  BY <1>3 DEF Frame

LEMMA DecideStep ==
  ASSUME Inv, NEW c \in Clerks, Decide(c)
  PROVE  Inv' /\ Sticks
<1> PICK f \in Frame : f = frame[c]
  BY CurrentFrame
<1>1. f.at = "decide" /\ f.op \in Finals /\ f.record \in DOMAIN records
  BY CurrentFrame DEF Decide, Placed
<1> PICK row : row = DecidedRow(records[f.record], f.op)
  OBVIOUS
<1>2. records[f.record] \in Row
  BY <1>1 DEF Inv, TypeOK
<1>3. row \in Row /\ row.state = f.op /\ Coherent(row)
  BY <1>1, <1>2 DEF DecidedRow, Row, Coherent
<1> QED
  BY <1>1, <1>3, UpdateStep DEF Decide

LEMMA AuditStep ==
  ASSUME Inv, NEW c \in Clerks, Audit(c)
  PROVE  Inv' /\ Sticks
<1> PICK f : f = [frame[c] EXCEPT !.at = "publish"]
  OBVIOUS
<1>1. /\ f \in Frame /\ f.at = "publish" /\ f.op = frame[c].op
      /\ f.record = frame[c].record /\ frame' = [frame EXCEPT ![c] = f]
  BY Advance DEF Audit, Steps
<1>2. /\ f.op \in Ops /\ f.record \in RecordIds
      /\ f.op \in Finals => Decided(f.record)
  BY <1>1, CurrentFrame DEF Audit, Placed
<1>3. audited' = audited \cup {<<f.op, f.record>>}
      /\ UNCHANGED <<records, published, finals, crashes>>
  BY <1>1 DEF Audit
<1>4. Sticks
  BY <1>3 DEF Sticks, Decided
<1>5. Placed(f)'
  BY <1>1, <1>2, <1>3 DEF Placed
<1>6. /\ frame' \in [Clerks -> Frame]
      /\ (\A d \in Clerks : Placed(frame[d]))'
      /\ Reserved'
  <2>1. \A d \in Clerks \ {c} :
          frame[d].at = "insert" => frame[d].record \notin DOMAIN records'
    BY <1>3 DEF Inv, Placed
  <2> QED
    BY <1>1, <1>3, <1>4, <1>5, <2>1, FrameStep
<1>7. TypeOK'
  BY <1>2, <1>3, <1>6 DEF Inv, TypeOK
<1>8. StampCoherent'
  BY <1>3 DEF Inv, StampCoherent
<1>9. TrailOrdered'
  BY <1>2, <1>3 DEF Inv, TrailOrdered, Decided
<1> QED
  BY <1>4, <1>6, <1>7, <1>8, <1>9 DEF Inv

LEMMA PublishStep ==
  ASSUME Inv, NEW c \in Clerks, Publish(c)
  PROVE  Inv' /\ Sticks
<1> PICK f \in Frame : f = frame[c]
  BY CurrentFrame
<1>1. f.op \in Ops /\ f.record \in RecordIds /\ <<f.op, f.record>> \in audited
  BY CurrentFrame DEF Publish, Placed
<1>2. /\ published' = published \cup {<<f.op, f.record>>}
      /\ finals' = IF f.op \in Finals
                   THEN [finals EXCEPT ![f.record] = Append(@, f.op)] ELSE finals
      /\ frame' = [frame EXCEPT ![c] = Idle]
      /\ UNCHANGED <<records, audited, crashes>>
  BY DEF Publish, Finish, IsFinal
<1>3. Sticks
  BY <1>2 DEF Sticks, Decided
<1>4. /\ frame' \in [Clerks -> Frame]
      /\ (\A d \in Clerks : Placed(frame[d]))'
      /\ Reserved'
  <2>1. \A d \in Clerks \ {c} :
          frame[d].at = "insert" => frame[d].record \notin DOMAIN records'
    BY <1>2 DEF Inv, Placed
  <2>2. Placed(Idle)'
    BY DEF Placed, Idle
  <2> QED
    BY <1>2, <1>3, <2>1, <2>2, IdleFrame, FrameStep
<1>5. finals \in [RecordIds -> Seq(Finals)]
  BY DEF Inv, TypeOK
<1>6. finals' \in [RecordIds -> Seq(Finals)]
  BY <1>1, <1>2, <1>5
<1>7. TypeOK'
  BY <1>1, <1>2, <1>4, <1>6 DEF Inv, TypeOK
<1>8. StampCoherent'
  BY <1>2 DEF Inv, StampCoherent
<1>9. ASSUME NEW r \in RecordIds, NEW i \in DOMAIN finals'[r]
      PROVE  <<finals'[r][i], r>> \in published'
  <2>1. finals[r] \in Seq(Finals)
    BY <1>5
  <2>2. i \in DOMAIN finals[r] => <<finals[r][i], r>> \in published
    BY DEF Inv, TrailOrdered
  <2>3. CASE finals'[r] = finals[r]
    BY <1>2, <1>9, <2>2, <2>3
  <2>4. CASE r = f.record /\ finals'[r] = Append(finals[r], f.op)
    <3>1. i \in DOMAIN finals[r] \/ i = Len(finals[r]) + 1
      BY <1>9, <2>1, <2>4
    <3>2. CASE i = Len(finals[r]) + 1
      BY <1>1, <1>2, <2>1, <2>4, <3>2
    <3>3. CASE i \in DOMAIN finals[r]
      BY <1>2, <2>1, <2>2, <2>4, <3>3
    <3> QED
      BY <3>1, <3>2, <3>3
  <2> QED
    BY <1>1, <1>2, <1>5, <2>3, <2>4
<1>10. TrailOrdered'
  BY <1>1, <1>2, <1>9 DEF Inv, TrailOrdered
<1> QED
  BY <1>3, <1>4, <1>7, <1>8, <1>10 DEF Inv

-----------------------------------------------------------------------------
LEMMA InitInv == Init => Inv
<1> SUFFICES ASSUME Init PROVE Inv
  OBVIOUS
<1>1. TypeOK
  BY IdleFrame, AttendanceAssumption DEF Init, TypeOK
<1>2. (\A c \in Clerks : Placed(frame[c])) /\ Reserved
  BY IdleFrame DEF Init, Reserved
<1>3. StampCoherent /\ TrailOrdered
  BY DEF Init, StampCoherent, TrailOrdered
<1> QED
  BY <1>1, <1>2, <1>3 DEF Inv

LEMMA NextInv == Inv /\ [Next]_attendance => Inv' /\ Sticks
<1> SUFFICES ASSUME Inv, [Next]_attendance PROVE Inv' /\ Sticks
  OBVIOUS
<1>1. ASSUME NEW c \in Clerks, OpenSome(c) \/ Refuse(c) \/ Crash(c) \/ Work(c)
      PROVE  Inv' /\ Sticks
  BY <1>1, OpenStep, RefuseStep, CrashStep, FindStep, InsertStep, EditStep, DecideStep,
     AuditStep, PublishStep DEF Work
<1>2. CASE UNCHANGED attendance
  <2>1. UNCHANGED <<records, audited, published, finals, frame, crashes>>
    BY <1>2 DEF attendance
  <2>2. Sticks
    BY <2>1 DEF Sticks, Decided
  <2>3. TypeOK' /\ Reserved' /\ StampCoherent' /\ TrailOrdered'
    BY <2>1 DEF Inv, TypeOK, Reserved, StampCoherent, TrailOrdered
  <2>4. (\A c \in Clerks : Placed(frame[c]))'
    BY <2>1 DEF Inv, Placed, Decided
  <2> QED
    BY <2>2, <2>3, <2>4 DEF Inv
<1> QED
  BY <1>1, <1>2 DEF Next

\* The inductive invariant holds whatever the requests and their interleaving.
THEOREM AttendanceInvariance == Spec => []Inv
  BY InitInv, NextInv, PTL DEF Spec

\* Rows, audit entries, events and handlers keep their types.
THEOREM AttendanceTypes == Spec => []TypeOK
<1>1. Inv => TypeOK
  BY DEF Inv
<1> QED
  BY <1>1, AttendanceInvariance, PTL

\* approvedAt and approvedBy are set exactly on APPROVED records, whatever
\* decisions and corrections race.
THEOREM StampsAreCoherent == Spec => []StampCoherent
<1>1. Inv => StampCoherent
  BY DEF Inv
<1> QED
  BY <1>1, AttendanceInvariance, PTL

\* Every event has its audit entry, and every final one a decided record.
THEOREM TrailIsOrdered == Spec => []TrailOrdered
<1>1. Inv => TrailOrdered
  BY DEF Inv
<1> QED
  BY <1>1, AttendanceInvariance, PTL

\* No interleaving makes a decided record pending again.
THEOREM DecisionsStick == Spec => DecisionSticks
<1>1. Inv /\ [Next]_attendance =>
        [\A r \in DOMAIN records :
           records[r].state \in Finals =>
             r \in DOMAIN records' /\ records'[r].state \in Finals]_attendance
  <2> SUFFICES ASSUME Inv, [Next]_attendance, NEW r \in DOMAIN records,
                      records[r].state \in Finals
               PROVE  r \in DOMAIN records' /\ records'[r].state \in Finals
    OBVIOUS
  <2>1. r \in RecordIds /\ Decided(r)
    BY DEF Inv, TypeOK, Decided
  <2> QED
    BY <2>1, NextInv DEF Sticks, Decided
<1> QED
  BY <1>1, AttendanceInvariance, PTL DEF Spec, DecisionSticks
=============================================================================
