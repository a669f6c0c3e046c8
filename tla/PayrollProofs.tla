----------------------------- MODULE PayrollProofs -----------------------------
(***************************************************************************)
(* What holds of PayrollRuns for any number of requests, runs, profiles,   *)
(* versions and crashes, whatever attendance records it is computed from.  *)
(***************************************************************************)
EXTENDS PayPeriod, FiniteSetTheorems, TLAPS

\* The fields of a handler and of a run; their amounts need no type here.
Shaped(f) ==
  f = [at |-> f.at, op |-> f.op, run |-> f.run, employee |-> f.employee,
       period |-> f.period, deductions |-> f.deductions, id |-> f.id,
       expected |-> f.expected, version |-> f.version, content |-> f.content,
       count |-> f.count, gross |-> f.gross]

RowShaped(row) ==
  row = [employee |-> row.employee, period |-> row.period, count |-> row.count,
         gross |-> row.gross, deductions |-> row.deductions, net |-> row.net,
         profile |-> row.profile, version |-> row.version, state |-> row.state]

Saying(id, v, c) == [of |-> id, version |-> v, content |-> c]

Written(f) == f.op = "upsert" /\ f.at = "audit"

Stored == {Saying(id, profiles[id].version, profiles[id].content) : id \in DOMAIN profiles}

Booked == {Saying(b.of, b.version, b.content) : b \in ProfileEntries}

Unbooked ==
  {Saying(desk[h].id, desk[h].version, desk[h].content) :
     h \in {h \in Operators : Written(desk[h])}}

\* All that is, or will be, said of what a version of a profile holds.
Sayings == Stored \cup Booked \cup Unbooked

Consistent ==
  \A s, t \in Sayings : s.of = t.of /\ s.version = t.version => s.content = t.content

Bounded ==
  \A s \in Sayings :
    /\ s.of \in DOMAIN profiles /\ s.version \in Nat
    /\ s.version <= profiles[s.of].version

\* The deductions are those of version v of the profile.
Explained(id, v, amount, d) ==
  /\ id \in DOMAIN profiles /\ v \in Nat /\ v <= profiles[id].version
  /\ \A s \in Sayings : s.of = id /\ s.version = v => d = ByProfile(amount, s.content)

Confirmed(x) == x \in DOMAIN runs /\ runs[x].state = "CONFIRMED"

Preparing(f) == f.at \in {"list", "findProfile", "insert"}

\* What a handler relies on at each step.
Placed(f) ==
  /\ Shaped(f)
  /\ Preparing(f) => /\ f.op \in {"gross", "manual", "profile"}
                     /\ f.run \in RunIds /\ f.run \notin DOMAIN runs
                     /\ f.id # Nil => f.op = "profile"
  /\ f.at = "findProfile" => f.op = "profile"
  /\ f.at = "insert" /\ f.id # Nil => Explained(f.id, f.version, f.gross, f.deductions)
  /\ f.at = "findRun" => f.op = "confirm"
  /\ f.at = "confirm" => f.op = "confirm" /\ f.run \in DOMAIN runs
  /\ f.at \in {"audit", "publish"} /\ f.op = "confirm" => Confirmed(f.run)
  /\ f.at = "upsert" => f.op = "upsert" /\ f.id \in ProfileIds
  /\ f.at = "readProfile" => f.op = "read"
  /\ f.at = "publish" => Entry(f) \in books

\* No two previews are given the same run id.
Reserved ==
  \A g, h \in Operators :
    g # h /\ Preparing(desk[g]) /\ Preparing(desk[h]) => desk[g].run # desk[h].run

RunsExplained ==
  \A x \in DOMAIN runs :
    /\ x \in RunIds /\ RowShaped(runs[x])
    /\ runs[x].profile # Nil =>
         Explained(runs[x].profile, runs[x].version, runs[x].gross, runs[x].deductions)

Tables ==
  /\ DOMAIN desk = Operators
  /\ DOMAIN profiles \subseteq ProfileIds
  /\ \A id \in DOMAIN profiles : profiles[id].version \in Nat
  /\ \A b \in ProfileEntries :
       b = [op |-> "upsert", of |-> b.of, version |-> b.version, content |-> b.content]
  /\ notices \subseteq books

\* The inductive invariant.
Inv ==
  /\ Tables
  /\ \A h \in Operators : Placed(desk[h])
  /\ Reserved
  /\ Consistent /\ Bounded
  /\ RunsExplained

\* What a step may do to runs and say of them: the body of RunsFrozen.
Frozen ==
  /\ \A x \in DOMAIN runs :
       x \in DOMAIN runs' /\ runs'[x] \in {runs[x], [runs[x] EXCEPT !.state = "CONFIRMED"]}
  /\ \A b \in (books' \ books) \cup (notices' \ notices) :
       b.op = "confirm" => b.of \in DOMAIN runs /\ runs[b.of].state = "CONFIRMED"
  /\ notices' \subseteq books'

\* What every step leaves to those who rely on it.
Kept ==
  /\ DOMAIN runs \subseteq DOMAIN runs' /\ books \subseteq books'
  /\ \A x : Confirmed(x) => Confirmed(x)'
  /\ \A id, v, amount, d : Explained(id, v, amount, d) => Explained(id, v, amount, d)'

-----------------------------------------------------------------------------
LEMMA IdleFacts == Shaped(Idle) /\ Placed(Idle) /\ ~Preparing(Idle) /\ ~Written(Idle)
  BY DEF Idle, Shaped, Placed, Preparing, Written

LEMMA Current ==
  ASSUME Inv, NEW h \in Operators
  PROVE  Placed(desk[h]) /\ Shaped(desk[h]) /\ DOMAIN desk = Operators
  BY DEF Inv, Tables, Placed

\* One handler moves on.
LEMMA FrameStep ==
  ASSUME Inv, NEW h \in Operators, NEW f, Resume(h, f), Placed(f)', Kept,
         Preparing(f) =>
           \A g \in Operators \ {h} : Preparing(desk[g]) => desk[g].run # f.run,
         \A g \in Operators \ {h} : Preparing(desk[g]) => desk[g].run \notin DOMAIN runs'
  PROVE  DOMAIN desk' = Operators /\ (\A g \in Operators : Placed(desk[g]))' /\ Reserved'
<1>1. /\ DOMAIN desk' = Operators /\ desk'[h] = f
      /\ \A g \in Operators \ {h} : desk'[g] = desk[g]
  BY DEF Resume, Inv, Tables
<1>2. ASSUME NEW g \in Operators
      PROVE  Placed(desk[g])'
  <2>1. CASE g = h
    BY <1>1, <2>1 DEF Placed, Shaped, Preparing, Explained, Entry, Confirmed
  <2>2. CASE g # h
    <3> PICK k : k = desk[g]
      OBVIOUS
    <3>1. desk'[g] = k /\ Placed(k) /\ (Preparing(k) => k.run \notin DOMAIN runs')
      BY <1>1, <2>2 DEF Inv
    <3>2. /\ k.at = "insert" /\ k.id # Nil =>
               Explained(k.id, k.version, k.gross, k.deductions)'
          /\ k.at \in {"audit", "publish"} /\ k.op = "confirm" => Confirmed(k.run)'
      BY <3>1 DEF Kept, Placed
    <3>3. Placed(k)'
      BY <3>1, <3>2 DEF Placed, Kept, Entry, Shaped, Preparing
    <3> QED
      BY <3>1, <3>3 DEF Placed, Shaped, Preparing, Explained, Entry, Confirmed
  <2> QED
    BY <2>1, <2>2
<1>3. Reserved'
  BY <1>1 DEF Inv, Reserved, Preparing
<1> QED
  BY <1>1, <1>2, <1>3

\* As long as nothing new is said of a profile, what was explained stays so.
LEMMA SameSayings ==
  ASSUME Inv, UNCHANGED profiles, Sayings' \subseteq Sayings
  PROVE  /\ Consistent' /\ Bounded'
         /\ \A id, v, amount, d : Explained(id, v, amount, d) => Explained(id, v, amount, d)'
<1>1. Consistent' /\ Bounded'
  BY DEF Inv, Consistent, Bounded
<1>2. ASSUME NEW id, NEW v, NEW amount, NEW d, Explained(id, v, amount, d)
      PROVE  Explained(id, v, amount, d)'
  BY <1>2 DEF Explained, ByProfile
<1> QED
  BY <1>1, <1>2

\* A handler that writes nothing of a profile says nothing new.
LEMMA NothingWritten ==
  ASSUME Inv, NEW h \in Operators, NEW f, Resume(h, f), ~Written(f),
         UNCHANGED <<profiles, books>>
  PROVE  Sayings' \subseteq Sayings
<1>1. /\ DOMAIN desk' = Operators /\ desk'[h] = f
      /\ \A g \in Operators \ {h} : desk'[g] = desk[g]
  BY DEF Resume, Inv, Tables
<1>2. Unbooked' \subseteq Unbooked
  BY <1>1 DEF Unbooked, Written, Saying
<1>3. Stored' = Stored /\ Booked' = Booked
  BY DEF Stored, Booked, ProfileEntries, Saying
<1> QED
  BY <1>2, <1>3 DEF Sayings

LEMMA RunsStep ==
  ASSUME \A x \in DOMAIN runs' :
           /\ x \in RunIds
           /\ \E row :
                /\ row = runs'[x] /\ RowShaped(row)
                /\ row.profile # Nil =>
                     Explained(row.profile, row.version, row.gross, row.deductions)'
  PROVE  RunsExplained'
<1> SUFFICES ASSUME NEW x \in DOMAIN runs'
             PROVE  /\ x \in RunIds /\ RowShaped(runs[x])'
                    /\ runs'[x].profile # Nil =>
                         Explained(runs[x].profile, runs[x].version,
                                   runs[x].gross, runs[x].deductions)'
  BY DEF RunsExplained
<1> PICK row : /\ row = runs'[x] /\ RowShaped(row)
               /\ row.profile # Nil =>
                    Explained(row.profile, row.version, row.gross, row.deductions)'
  OBVIOUS
<1>1. RowShaped(runs[x])'
  BY DEF RowShaped
<1>2. ASSUME runs'[x].profile # Nil
      PROVE  Explained(runs[x].profile, runs[x].version,
                       runs[x].gross, runs[x].deductions)'
  BY <1>2 DEF Explained
<1> QED
  BY <1>1, <1>2

LEMMA CurrentRun ==
  ASSUME Inv, NEW x \in DOMAIN runs, NEW row, row = runs[x]
  PROVE  /\ x \in RunIds /\ RowShaped(row)
         /\ row.profile # Nil =>
              Explained(row.profile, row.version, row.gross, row.deductions)
  BY DEF Inv, RunsExplained

\* A step that changes no row and no trail.
LEMMA QuietStep ==
  ASSUME Inv, NEW h \in Operators, NEW f, Resume(h, f), Placed(f), ~Written(f),
         Preparing(f) =>
           \A g \in Operators \ {h} : Preparing(desk[g]) => desk[g].run # f.run,
         UNCHANGED <<runs, profiles, books, notices>>
  PROVE  Inv' /\ Frozen
<1>1. /\ Consistent' /\ Bounded'
      /\ \A id, v, amount, d : Explained(id, v, amount, d) => Explained(id, v, amount, d)'
  BY NothingWritten, SameSayings
<1>2. Kept
  BY <1>1 DEF Kept, Confirmed
<1>3. Placed(f)'
  <2>1. f.at = "insert" /\ f.id # Nil => Explained(f.id, f.version, f.gross, f.deductions)'
    BY <1>1 DEF Placed
  <2> QED
    BY <2>1 DEF Placed, Shaped, Preparing, Confirmed, Entry
<1>4. DOMAIN desk' = Operators /\ (\A g \in Operators : Placed(desk[g]))' /\ Reserved'
  <2>1. \A g \in Operators \ {h} : Preparing(desk[g]) => desk[g].run \notin DOMAIN runs'
    BY DEF Inv, Placed
  <2> QED
    BY <1>2, <1>3, <2>1, FrameStep
<1>5. Tables'
  BY <1>4 DEF Inv, Tables, ProfileEntries
<1>6. RunsExplained'
  <2>1. ASSUME NEW x \in DOMAIN runs'
        PROVE  /\ x \in RunIds
               /\ \E row :
                    /\ row = runs'[x] /\ RowShaped(row)
                    /\ row.profile # Nil =>
                         Explained(row.profile, row.version, row.gross, row.deductions)'
    <3> PICK row : row = runs[x]
      OBVIOUS
    <3> QED
      BY <1>1, CurrentRun
  <2> QED
    BY <2>1, RunsStep
<1>7. Frozen
  BY DEF Frozen, Inv, Tables
<1> QED
  BY <1>1, <1>4, <1>5, <1>6, <1>7 DEF Inv

LEMMA FinishStep ==
  ASSUME Inv, NEW h \in Operators, Finish(h), UNCHANGED <<runs, profiles, books, notices>>
  PROVE  Inv' /\ Frozen
  BY IdleFacts, QuietStep DEF Finish

Backed(row) ==
  /\ RowShaped(row)
  /\ row.profile # Nil => Explained(row.profile, row.version, row.gross, row.deductions)

\* Run x is new, or it was there and is confirmed.
WritesRun(x, row) ==
  /\ DOMAIN runs' = DOMAIN runs \cup {x} /\ runs'[x] = row
  /\ \A y \in DOMAIN runs : y # x => runs'[y] = runs[y]
  /\ x \in DOMAIN runs => row = [runs[x] EXCEPT !.state = "CONFIRMED"]
  /\ UNCHANGED <<profiles, books, notices>>

\* A step that writes one run and goes on to its audit entry.
LEMMA RunStep ==
  ASSUME Inv, NEW h \in Operators, NEW f, Resume(h, f), Shaped(f), f.at = "audit",
         f.op # "upsert", NEW x \in RunIds, NEW row, Backed(row), WritesRun(x, row),
         f.op = "confirm" => f.run = x /\ row.state = "CONFIRMED",
         \A g \in Operators \ {h} : Preparing(desk[g]) => desk[g].run # x
  PROVE  Inv' /\ Frozen
<1> USE DEF Backed, WritesRun
<1>1. /\ Consistent' /\ Bounded'
      /\ \A id, v, amount, d : Explained(id, v, amount, d) => Explained(id, v, amount, d)'
  <2>1. ~Written(f)
    BY DEF Written
  <2> QED
    BY <2>1, NothingWritten, SameSayings
<1>2. \A y : Confirmed(y) => Confirmed(y)'
  <2>1. ASSUME x \in DOMAIN runs
        PROVE  row.state = "CONFIRMED"
    BY <2>1, CurrentRun DEF RowShaped
  <2> QED
    BY <2>1 DEF Confirmed
<1>3. Kept
  BY <1>1, <1>2 DEF Kept
<1>4. Placed(f)'
  BY DEF Placed, Shaped, Preparing, Confirmed
<1>5. DOMAIN desk' = Operators /\ (\A g \in Operators : Placed(desk[g]))' /\ Reserved'
  <2>1. \A g \in Operators \ {h} : Preparing(desk[g]) => desk[g].run \notin DOMAIN runs'
    BY DEF Inv, Placed
  <2>2. ~Preparing(f)
    BY DEF Preparing
  <2> QED
    BY <1>3, <1>4, <2>1, <2>2, FrameStep
<1>6. Tables'
  BY <1>5 DEF Inv, Tables, ProfileEntries
<1>7. RunsExplained'
  <2>1. ASSUME NEW y \in DOMAIN runs'
        PROVE  /\ y \in RunIds
               /\ \E r :
                    /\ r = runs'[y] /\ RowShaped(r)
                    /\ r.profile # Nil => Explained(r.profile, r.version, r.gross, r.deductions)'
    <3>1. CASE y = x
      BY <1>1, <3>1
    <3>2. CASE y # x
      <4> PICK r : r = runs[y]
        OBVIOUS
      <4> QED
        BY <1>1, <3>2, CurrentRun
    <3> QED
      BY <3>1, <3>2
  <2> QED
    BY <2>1, RunsStep
<1>8. Frozen
  BY DEF Frozen, Inv, Tables
<1> QED
  BY <1>1, <1>5, <1>6, <1>7, <1>8 DEF Inv

-----------------------------------------------------------------------------
LEMMA OpenStep ==
  ASSUME Inv, NEW h \in Operators, OpenSome(h)
  PROVE  Inv' /\ Frozen
<1>1. ASSUME NEW f, Receive(h, f), Placed(f), ~Written(f),
             Preparing(f) => \A g \in Operators : desk[g].run # f.run
      PROVE  Inv' /\ Frozen
  BY <1>1, QuietStep DEF Receive
<1>2. ASSUME NEW op \in {"gross", "manual", "profile"}, NEW x \in RunIds, NEW e, NEW p,
             NEW d, NEW id, NEW v, OpenPreview(h, op, x, e, p, d, id, v),
             id # Nil => op = "profile"
      PROVE  Inv' /\ Frozen
  <2> PICK f : f = [Idle EXCEPT !.at = "list", !.op = op, !.run = x, !.employee = e,
                                !.period = p, !.deductions = d, !.id = id, !.expected = v]
    OBVIOUS
  <2>1. f.at = "list" /\ f.op = op /\ f.run = x /\ f.id = id /\ Shaped(f)
    BY DEF Idle, Shaped
  <2>2. Placed(f) /\ ~Written(f)
    BY <1>2, <2>1 DEF Placed, Written, Preparing, OpenPreview
  <2> QED
    BY <1>1, <1>2, <2>1, <2>2 DEF OpenPreview
<1>3. ASSUME NEW x \in RunIds, OpenConfirm(h, x)
      PROVE  Inv' /\ Frozen
  <2> PICK f : f = [Idle EXCEPT !.at = "findRun", !.op = "confirm", !.run = x]
    OBVIOUS
  <2>1. f.at = "findRun" /\ f.op = "confirm" /\ Shaped(f)
    BY DEF Idle, Shaped
  <2> QED
    BY <1>1, <1>3, <2>1 DEF OpenConfirm, Placed, Written, Preparing
<1>4. ASSUME NEW id \in ProfileIds, NEW c \in Contents, OpenUpsert(h, id, c)
      PROVE  Inv' /\ Frozen
  <2> PICK f : f = [Idle EXCEPT !.at = "upsert", !.op = "upsert", !.id = id, !.content = c]
    OBVIOUS
  <2>1. f.at = "upsert" /\ f.op = "upsert" /\ f.id = id /\ Shaped(f)
    BY DEF Idle, Shaped
  <2> QED
    BY <1>1, <1>4, <2>1 DEF OpenUpsert, Placed, Written, Preparing
<1>5. ASSUME NEW id \in ProfileIds, OpenRead(h, id)
      PROVE  Inv' /\ Frozen
  <2> PICK f : f = [Idle EXCEPT !.at = "readProfile", !.op = "read", !.id = id]
    OBVIOUS
  <2>1. f.at = "readProfile" /\ f.op = "read" /\ Shaped(f)
    BY DEF Idle, Shaped
  <2> QED
    BY <1>1, <1>5, <2>1 DEF OpenRead, Placed, Written, Preparing
<1> QED
  BY <1>2, <1>3, <1>4, <1>5 DEF OpenSome

LEMMA RefuseStep ==
  ASSUME Inv, NEW h \in Operators, Refuse(h)
  PROVE  Inv' /\ Frozen
  BY FinishStep DEF Refuse

LEMMA CrashStep ==
  ASSUME Inv, NEW h \in Operators, Crash(h)
  PROVE  Inv' /\ Frozen
  BY FinishStep DEF Crash

\* A preview goes on with the run id it was given.
LEMMA PrepareStep ==
  ASSUME Inv, NEW h \in Operators, NEW f, Resume(h, f), Preparing(desk[h]),
         Placed(f), Preparing(f), f.run = desk[h].run,
         UNCHANGED <<runs, profiles, books, notices>>
  PROVE  Inv' /\ Frozen
<1>1. ~Written(f)
  BY DEF Written, Preparing
<1>2. \A g \in Operators \ {h} : Preparing(desk[g]) => desk[g].run # f.run
  BY DEF Inv, Reserved
<1> QED
  BY <1>1, <1>2, QuietStep

\* What List does of what its query returned.
Listed(h, found) ==
  LET f == desk[h]
      g == [f EXCEPT !.count = Cardinality(found), !.gross = Gross(found)]
  IN  /\ f.at = "list"
      /\ \/ f.op = "gross" /\ Resume(h, [g EXCEPT !.at = "insert"])
         \/ /\ f.op = "manual" /\ Affordable(g.gross, f.deductions)
            /\ Resume(h, [g EXCEPT !.at = "insert"])
         \/ f.op = "manual" /\ ~Affordable(g.gross, f.deductions) /\ Finish(h)
         \/ f.op = "profile" /\ Resume(h, [g EXCEPT !.at = "findProfile"])
      /\ UNCHANGED <<runs, profiles, books, notices, failures>>

LEMMA SomeListed ==
  ASSUME NEW h \in Operators, NEW f, f = desk[h], List(h)
  PROVE  \E members \in SUBSET Employees :
           Listed(h, listApprovedInPeriod(f.employee, f.period, members))
  BY DEF List, Listed

LEMMA ListStep ==
  ASSUME Inv, NEW h \in Operators, List(h)
  PROVE  Inv' /\ Frozen
<1> PICK f : f = desk[h]
  OBVIOUS
<1>1. f.at = "list" /\ Shaped(f) /\ Placed(f) /\ Preparing(f)
  BY Current DEF List, Preparing
<1>2. UNCHANGED <<runs, profiles, books, notices>>
  BY DEF List
<1>3. ASSUME NEW n, NEW m, NEW at \in {"insert", "findProfile"},
             Resume(h, [[f EXCEPT !.count = n, !.gross = m] EXCEPT !.at = at]),
             at = "findProfile" <=> f.op = "profile"
      PROVE  Inv' /\ Frozen
  <2> PICK k : k = [[f EXCEPT !.count = n, !.gross = m] EXCEPT !.at = at]
    OBVIOUS
  <2>1. k.at = at /\ k.op = f.op /\ k.run = f.run /\ k.id = f.id /\ Shaped(k)
    BY <1>1 DEF Shaped
  <2>2. Placed(k) /\ Preparing(k)
    BY <1>1, <1>3, <2>1 DEF Placed, Preparing
  <2> QED
    BY <1>1, <1>2, <1>3, <2>1, <2>2, PrepareStep
<1>4. CASE Finish(h)
  BY <1>2, <1>4, FinishStep
<1> PICK members \in SUBSET Employees :
         Listed(h, listApprovedInPeriod(f.employee, f.period, members))
  BY SomeListed
<1> PICK found : found = listApprovedInPeriod(f.employee, f.period, members)
  OBVIOUS
<1> PICK n : n = Cardinality(found)
  OBVIOUS
<1> PICK m : m = Gross(found)
  OBVIOUS
<1>5. \/ Finish(h)
      \/ /\ f.op \in {"gross", "manual"}
         /\ Resume(h, [[f EXCEPT !.count = n, !.gross = m] EXCEPT !.at = "insert"])
      \/ /\ f.op = "profile"
         /\ Resume(h, [[f EXCEPT !.count = n, !.gross = m] EXCEPT !.at = "findProfile"])
  BY DEF Listed
<1> QED
  BY <1>3, <1>4, <1>5

LEMMA FindProfileStep ==
  ASSUME Inv, NEW h \in Operators, FindProfile(h)
  PROVE  Inv' /\ Frozen
<1> PICK f : f = desk[h]
  OBVIOUS
<1>1. f.at = "findProfile" /\ f.op = "profile" /\ Shaped(f) /\ Placed(f) /\ Preparing(f)
  BY Current DEF FindProfile, Preparing, Placed
<1>2. UNCHANGED <<runs, profiles, books, notices>>
  BY DEF FindProfile
<1>3. CASE Finish(h)
  BY <1>2, <1>3, FinishStep
<1> PICK c : c = profiles[f.id].content
  OBVIOUS
<1> PICK v : v = profiles[f.id].version
  OBVIOUS
<1> PICK d : d = ByProfile(f.gross, c)
  OBVIOUS
<1>4. CASE /\ f.id \in DOMAIN profiles
           /\ Resume(h, [f EXCEPT !.at = "insert", !.deductions = d, !.version = v])
  <2> PICK k : k = [f EXCEPT !.at = "insert", !.deductions = d, !.version = v]
    OBVIOUS
  <2>1. /\ k.at = "insert" /\ k.op = f.op /\ k.run = f.run /\ k.id = f.id /\ Shaped(k)
        /\ k.gross = f.gross /\ k.deductions = d /\ k.version = v
    BY <1>1 DEF Shaped
  <2>2. Explained(f.id, v, f.gross, d)
    <3>1. Saying(f.id, v, c) \in Sayings
      BY <1>4 DEF Sayings, Stored
    <3>2. \A s \in Sayings : s.of = f.id /\ s.version = v => s.content = c
      BY <3>1 DEF Inv, Consistent, Saying
    <3>3. v \in Nat
      BY <1>4 DEF Inv, Tables
    <3> QED
      BY <1>4, <3>2, <3>3 DEF Explained
  <2>3. Placed(k) /\ Preparing(k)
    BY <1>1, <2>1, <2>2 DEF Placed, Preparing
  <2> QED
    BY <1>1, <1>2, <1>4, <2>1, <2>3, PrepareStep
<1> QED
  BY <1>3, <1>4 DEF FindProfile, Usable

LEMMA FindRunStep ==
  ASSUME Inv, NEW h \in Operators, FindRun(h)
  PROVE  Inv' /\ Frozen
<1> PICK f : f = desk[h]
  OBVIOUS
<1>1. f.at = "findRun" /\ f.op = "confirm" /\ Shaped(f)
  BY Current DEF FindRun, Placed
<1>2. UNCHANGED <<runs, profiles, books, notices>>
  BY DEF FindRun
<1>3. CASE Finish(h)
  BY <1>2, <1>3, FinishStep
<1>4. CASE f.run \in DOMAIN runs /\ Resume(h, [f EXCEPT !.at = "confirm"])
  <2> PICK k : k = [f EXCEPT !.at = "confirm"]
    OBVIOUS
  <2>1. k.at = "confirm" /\ k.op = "confirm" /\ k.run = f.run /\ Shaped(k)
    BY <1>1 DEF Shaped
  <2>2. Placed(k) /\ ~Written(k) /\ ~Preparing(k)
    BY <1>4, <2>1 DEF Placed, Written, Preparing
  <2> QED
    BY <1>2, <1>4, <2>2, QuietStep
<1> QED
  BY <1>3, <1>4 DEF FindRun

LEMMA ReadProfileStep ==
  ASSUME Inv, NEW h \in Operators, ReadProfile(h)
  PROVE  Inv' /\ Frozen
<1> PICK f : f = desk[h]
  OBVIOUS
<1>1. f.at = "readProfile" /\ f.op = "read" /\ Shaped(f)
  BY Current DEF ReadProfile, Placed
<1>2. UNCHANGED <<runs, profiles, books, notices>>
  BY DEF ReadProfile
<1>3. CASE Finish(h)
  BY <1>2, <1>3, FinishStep
<1>4. CASE Resume(h, [f EXCEPT !.at = "audit"])
  <2> PICK k : k = [f EXCEPT !.at = "audit"]
    OBVIOUS
  <2>1. k.at = "audit" /\ k.op = "read" /\ Shaped(k)
    BY <1>1 DEF Shaped
  <2>2. Placed(k) /\ ~Written(k) /\ ~Preparing(k)
    BY <2>1 DEF Placed, Written, Preparing
  <2> QED
    BY <1>2, <1>4, <2>2, QuietStep
<1> QED
  BY <1>3, <1>4 DEF ReadProfile

LEMMA InsertStep ==
  ASSUME Inv, NEW h \in Operators, Insert(h)
  PROVE  Inv' /\ Frozen
<1> PICK f : f = desk[h]
  OBVIOUS
<1>1. /\ f.at = "insert" /\ f.op \in {"gross", "manual", "profile"} /\ Shaped(f)
      /\ f.run \in RunIds /\ f.run \notin DOMAIN runs /\ Preparing(f)
      /\ f.id # Nil => Explained(f.id, f.version, f.gross, f.deductions)
  BY Current DEF Insert, Placed, Preparing
<1> PICK row : row = NewRun(f)
  OBVIOUS
<1>2. /\ RowShaped(row) /\ row.profile = f.id /\ row.version = f.version
      /\ row.gross = f.gross /\ row.deductions = f.deductions
  BY DEF NewRun, RowShaped
<1> PICK k : k = [f EXCEPT !.at = "audit"]
  OBVIOUS
<1>3. k.at = "audit" /\ k.op = f.op /\ Shaped(k)
  BY <1>1 DEF Shaped
<1>4. /\ Resume(h, k) /\ UNCHANGED <<profiles, books, notices>>
      /\ DOMAIN runs' = DOMAIN runs \cup {f.run} /\ runs'[f.run] = row
      /\ \A y \in DOMAIN runs : y # f.run => runs'[y] = runs[y]
  BY DEF Insert
<1>5. \A g \in Operators \ {h} : Preparing(desk[g]) => desk[g].run # f.run
  BY <1>1 DEF Inv, Reserved
<1>6. k.op # "upsert" /\ k.op # "confirm" /\ RowShaped(row)
  BY <1>1, <1>2, <1>3
<1>7. row.profile # Nil => Explained(row.profile, row.version, row.gross, row.deductions)
  BY <1>1, <1>2
<1> PICK x \in RunIds : x = f.run
  BY <1>1
<1>8. x \notin DOMAIN runs
  BY <1>1
<1>9. Backed(row) /\ WritesRun(x, row)
  BY <1>4, <1>6, <1>7, <1>8 DEF Backed, WritesRun
<1> QED
  BY <1>3, <1>4, <1>5, <1>6, <1>9, RunStep

LEMMA ConfirmStep ==
  ASSUME Inv, NEW h \in Operators, Confirm(h)
  PROVE  Inv' /\ Frozen
<1> PICK f : f = desk[h]
  OBVIOUS
<1>1. f.at = "confirm" /\ f.op = "confirm" /\ Shaped(f) /\ f.run \in DOMAIN runs
  BY Current DEF Confirm, Placed
<1> PICK old : old = runs[f.run]
  OBVIOUS
<1> PICK row : row = [old EXCEPT !.state = "CONFIRMED"]
  OBVIOUS
<1>2. /\ RowShaped(old) /\ f.run \in RunIds
      /\ old.profile # Nil => Explained(old.profile, old.version, old.gross, old.deductions)
  BY <1>1, CurrentRun
<1>3. /\ RowShaped(row) /\ row.state = "CONFIRMED" /\ row.profile = old.profile
      /\ row.version = old.version /\ row.gross = old.gross
      /\ row.deductions = old.deductions
  BY <1>2 DEF RowShaped
<1> PICK k : k = [f EXCEPT !.at = "audit"]
  OBVIOUS
<1>4. k.at = "audit" /\ k.op = "confirm" /\ k.run = f.run /\ Shaped(k)
  BY <1>1 DEF Shaped
<1>5. /\ Resume(h, k) /\ UNCHANGED <<profiles, books, notices>>
      /\ DOMAIN runs' = DOMAIN runs \cup {f.run} /\ runs'[f.run] = row
      /\ \A y \in DOMAIN runs : y # f.run => runs'[y] = runs[y]
  BY <1>1 DEF Confirm, ConfirmedRow
<1> PICK x \in RunIds : x = f.run
  BY <1>2
<1>6. k.op # "upsert" /\ k.run = x /\ row.state = "CONFIRMED"
  BY <1>3, <1>4
<1>7. \A g \in Operators \ {h} : Preparing(desk[g]) => desk[g].run # x
  BY <1>1 DEF Inv, Placed
<1>8. row.profile # Nil => Explained(row.profile, row.version, row.gross, row.deductions)
  BY <1>2, <1>3
<1>9. RowShaped(row) /\ row = [runs[x] EXCEPT !.state = "CONFIRMED"]
  BY <1>3
<1>10. /\ Resume(h, k) /\ UNCHANGED <<profiles, books, notices>>
       /\ DOMAIN runs' = DOMAIN runs \cup {x} /\ runs'[x] = row
       /\ \A y \in DOMAIN runs : y # x => runs'[y] = runs[y]
  BY <1>5
<1>11. Backed(row) /\ WritesRun(x, row)
  BY <1>8, <1>9, <1>10 DEF Backed, WritesRun
<1> QED
  BY <1>4, <1>6, <1>7, <1>10, <1>11, RunStep

\* The new version is above all that anybody has said of the profile.
LEMMA UpsertStep ==
  ASSUME Inv, NEW h \in Operators, Upsert(h)
  PROVE  Inv' /\ Frozen
<1> PICK f : f = desk[h]
  OBVIOUS
<1>1. f.at = "upsert" /\ f.op = "upsert" /\ f.id \in ProfileIds /\ Shaped(f)
  BY Current DEF Upsert, Placed
<1> PICK v : v = NextVersion(f.id)
  OBVIOUS
<1>2. /\ v \in Nat
      /\ f.id \in DOMAIN profiles => profiles[f.id].version \in Nat
                                     /\ v = profiles[f.id].version + 1
  BY DEF NextVersion, Inv, Tables
<1> PICK k : k = [f EXCEPT !.at = "audit", !.version = v]
  OBVIOUS
<1>3. /\ k.at = "audit" /\ k.op = "upsert" /\ k.id = f.id /\ k.version = v
      /\ k.content = f.content /\ Shaped(k)
  BY <1>1 DEF Shaped
<1>4. /\ Resume(h, k) /\ UNCHANGED <<runs, books, notices>>
      /\ DOMAIN profiles' = DOMAIN profiles \cup {f.id}
      /\ profiles'[f.id].version = v /\ profiles'[f.id].content = f.content
      /\ \A id \in DOMAIN profiles : id # f.id => profiles'[id] = profiles[id]
  BY DEF Upsert
<1> PICK new : new = Saying(f.id, v, f.content)
  OBVIOUS
<1>5. new.of = f.id /\ new.version = v /\ new.content = f.content
  BY DEF Saying
<1>6. Sayings' \subseteq Sayings \cup {new}
  <2>1. Stored' \subseteq Stored \cup {new}
    BY <1>4 DEF Stored, Saying
  <2>2. Booked' = Booked
    BY <1>4 DEF Booked, ProfileEntries, Saying
  <2>3. Unbooked' \subseteq Unbooked \cup {new}
    <3>1. /\ desk'[h] = k /\ \A g \in Operators \ {h} : desk'[g] = desk[g]
      BY <1>4 DEF Resume, Inv, Tables
    <3>2. ASSUME NEW g \in Operators, Written(desk'[g])
          PROVE  Saying(desk'[g].id, desk'[g].version, desk'[g].content) \in Unbooked \cup {new}
      <4>1. CASE g = h
        BY <1>3, <3>1, <4>1
      <4>2. CASE g # h
        BY <3>1, <3>2, <4>2 DEF Unbooked
      <4> QED
        BY <4>1, <4>2
    <3> QED
      BY <3>2 DEF Unbooked, Saying, Written
  <2> QED
    BY <2>1, <2>2, <2>3 DEF Sayings
<1>7. \A s \in Sayings :
        /\ s.of \in DOMAIN profiles /\ s.version \in Nat
        /\ s.version <= profiles[s.of].version
        /\ s.of = f.id => s.version # v
  BY <1>2 DEF Inv, Bounded
<1>8. \A id \in DOMAIN profiles :
        /\ profiles[id].version \in Nat /\ profiles'[id].version \in Nat
        /\ profiles[id].version <= profiles'[id].version
        /\ id = f.id => v > profiles[id].version
  BY <1>2, <1>4 DEF Inv, Tables
<1>9. Consistent'
  BY <1>5, <1>6, <1>7 DEF Inv, Consistent
<1>10. Bounded'
  <2> SUFFICES ASSUME NEW s \in Sayings'
               PROVE  /\ s.of \in DOMAIN profiles' /\ s.version \in Nat
                      /\ s.version <= profiles'[s.of].version
    BY DEF Bounded
  <2>1. CASE s \in Sayings
    <3>1. s.of \in DOMAIN profiles /\ s.version \in Nat
          /\ s.version <= profiles[s.of].version
      BY <1>7, <2>1
    <3> QED
      BY <1>4, <1>8, <3>1
  <2>2. CASE s = new
    BY <1>2, <1>4, <1>5, <2>2
  <2> QED
    BY <1>6, <2>1, <2>2
<1>11. ASSUME NEW id, NEW w, NEW amount, NEW d, Explained(id, w, amount, d)
       PROVE  Explained(id, w, amount, d)'
  <2>1. id \in DOMAIN profiles /\ w \in Nat /\ w <= profiles[id].version
    BY <1>11 DEF Explained
  <2>2. id \in DOMAIN profiles' /\ w <= profiles'[id].version /\ (id = f.id => w # v)
    BY <1>2, <1>4, <1>8, <2>1
  <2>3. \A s \in Sayings' : s.of = id /\ s.version = w => s \in Sayings
    BY <1>5, <1>6, <2>2
  <2> QED
    BY <1>11, <2>1, <2>2, <2>3 DEF Explained, ByProfile
<1>12. Kept
  BY <1>4, <1>11 DEF Kept, Confirmed
<1>13. Placed(k)'
  BY <1>3 DEF Placed, Shaped, Preparing
<1>14. DOMAIN desk' = Operators /\ (\A g \in Operators : Placed(desk[g]))' /\ Reserved'
  <2>1. \A g \in Operators \ {h} : Preparing(desk[g]) => desk[g].run \notin DOMAIN runs'
    BY <1>4 DEF Inv, Placed
  <2>2. ~Preparing(k)
    BY <1>3 DEF Preparing
  <2> QED
    BY <1>4, <1>12, <1>13, <2>1, <2>2, FrameStep
<1>15. Tables'
  <2>1. DOMAIN profiles' \subseteq ProfileIds
    BY <1>1, <1>4 DEF Inv, Tables
  <2>2. \A id \in DOMAIN profiles' : profiles'[id].version \in Nat
    BY <1>2, <1>4, <1>8
  <2> QED
    BY <1>4, <1>14, <2>1, <2>2 DEF Inv, Tables, ProfileEntries
<1>16. RunsExplained'
  <2>1. ASSUME NEW x \in DOMAIN runs'
        PROVE  /\ x \in RunIds
               /\ \E row :
                    /\ row = runs'[x] /\ RowShaped(row)
                    /\ row.profile # Nil =>
                         Explained(row.profile, row.version, row.gross, row.deductions)'
    <3> PICK row : row = runs[x]
      OBVIOUS
    <3> QED
      BY <1>4, <1>11, CurrentRun
  <2> QED
    BY <2>1, RunsStep
<1>17. Frozen
  BY <1>4 DEF Frozen, Inv, Tables
<1> QED
  BY <1>9, <1>10, <1>14, <1>15, <1>16, <1>17 DEF Inv

\* What a handler has written is booked as it wrote it.
LEMMA AuditStep ==
  ASSUME Inv, NEW h \in Operators, Audit(h)
  PROVE  Inv' /\ Frozen
<1> PICK f : f = desk[h]
  OBVIOUS
<1>1. /\ f.at = "audit" /\ Shaped(f)
      /\ f.op = "confirm" => Confirmed(f.run)
  BY Current DEF Audit, Placed
<1> PICK b : b = Entry(f)
  OBVIOUS
<1>2. books' = books \cup {b} /\ UNCHANGED <<runs, profiles, notices>>
  BY DEF Audit
<1>3. /\ b.op = f.op
      /\ b.op = "upsert" =>
           b = [op |-> "upsert", of |-> f.id, version |-> f.version, content |-> f.content]
      /\ b.op = "confirm" => b.of = f.run
  BY DEF Entry
<1>4. PICK k : Resume(h, k) /\ (k = Idle \/ k = [f EXCEPT !.at = "publish"])
  BY DEF Audit, Finish
<1>5. \/ k = Idle
      \/ k.at = "publish" /\ k.op = f.op /\ k.run = f.run /\ Shaped(k) /\ Entry(k) = b
  <2>1. CASE k = [f EXCEPT !.at = "publish"]
    <3>1. /\ k.at = "publish" /\ k.op = f.op /\ k.run = f.run /\ Shaped(k)
          /\ k.id = f.id /\ k.version = f.version /\ k.content = f.content
      BY <1>1, <2>1 DEF Shaped
    <3>2. Entry(k) = Entry(f)
      BY <3>1 DEF Entry
    <3> QED
      BY <3>1, <3>2
  <2> QED
    BY <1>4, <2>1
<1>6. ~Written(k) /\ ~Preparing(k)
  BY <1>5, IdleFacts DEF Written, Preparing
<1>7. Sayings' \subseteq Sayings
  <2>1. Stored' = Stored
    BY <1>2 DEF Stored, Saying
  <2>2. Unbooked' \subseteq Unbooked
    <3>1. /\ desk'[h] = k /\ \A g \in Operators \ {h} : desk'[g] = desk[g]
      BY <1>4 DEF Resume, Inv, Tables
    <3> QED
      BY <1>6, <3>1 DEF Unbooked, Saying, Written
  <2>3. ASSUME NEW a \in ProfileEntries'
        PROVE  Saying(a.of, a.version, a.content) \in Booked \cup Unbooked
    <3>1. CASE a \in books
      BY <2>3, <3>1 DEF Booked, ProfileEntries
    <3>2. CASE a = b
      <4>1. f.op = "upsert" /\ a.of = f.id /\ a.version = f.version /\ a.content = f.content
        BY <1>3, <2>3, <3>2 DEF ProfileEntries
      <4> QED
        BY <1>1, <4>1 DEF Unbooked, Written
    <3> QED
      BY <1>2, <2>3, <3>1, <3>2 DEF ProfileEntries
  <2>4. Booked' \subseteq Booked \cup Unbooked
    BY <2>3 DEF Booked, Saying
  <2> QED
    BY <2>1, <2>2, <2>4 DEF Sayings
<1>8. /\ Consistent' /\ Bounded'
      /\ \A id, v, amount, d : Explained(id, v, amount, d) => Explained(id, v, amount, d)'
  BY <1>2, <1>7, SameSayings
<1>9. Kept
  BY <1>2, <1>8 DEF Kept, Confirmed
<1>10. Placed(k)'
  <2>1. CASE k = Idle
    BY <2>1 DEF Placed, Idle, Shaped, Preparing
  <2>2. CASE k # Idle
    BY <1>1, <1>2, <1>5, <2>2 DEF Placed, Shaped, Preparing, Confirmed, Entry
  <2> QED
    BY <2>1, <2>2
<1>11. DOMAIN desk' = Operators /\ (\A g \in Operators : Placed(desk[g]))' /\ Reserved'
  <2>1. \A g \in Operators \ {h} : Preparing(desk[g]) => desk[g].run \notin DOMAIN runs'
    BY <1>2 DEF Inv, Placed
  <2> QED
    BY <1>4, <1>6, <1>9, <1>10, <2>1, FrameStep
<1>12. Tables'
  <2>1. \A a \in ProfileEntries' :
          a = [op |-> "upsert", of |-> a.of, version |-> a.version, content |-> a.content]
    BY <1>2, <1>3 DEF Inv, Tables, ProfileEntries
  <2> QED
    BY <1>2, <1>11, <2>1 DEF Inv, Tables
<1>13. RunsExplained'
  <2>1. ASSUME NEW x \in DOMAIN runs'
        PROVE  /\ x \in RunIds
               /\ \E row :
                    /\ row = runs'[x] /\ RowShaped(row)
                    /\ row.profile # Nil =>
                         Explained(row.profile, row.version, row.gross, row.deductions)'
    <3> PICK row : row = runs[x]
      OBVIOUS
    <3> QED
      BY <1>2, <1>8, CurrentRun
  <2> QED
    BY <2>1, RunsStep
<1>14. Frozen
  BY <1>1, <1>2, <1>3 DEF Frozen, Inv, Tables, Confirmed
<1> QED
  BY <1>8, <1>11, <1>12, <1>13, <1>14 DEF Inv

LEMMA PublishStep ==
  ASSUME Inv, NEW h \in Operators, Publish(h)
  PROVE  Inv' /\ Frozen
<1> PICK f : f = desk[h]
  OBVIOUS
<1>1. f.at = "publish" /\ Entry(f) \in books /\ (f.op = "confirm" => Confirmed(f.run))
  BY Current DEF Publish, Placed
<1>2. notices' = notices \cup {Entry(f)} /\ Resume(h, Idle) /\ UNCHANGED <<runs, profiles, books>>
  BY DEF Publish, Finish
<1>3. /\ Consistent' /\ Bounded'
      /\ \A id, v, amount, d : Explained(id, v, amount, d) => Explained(id, v, amount, d)'
  BY <1>2, IdleFacts, NothingWritten, SameSayings
<1>4. Kept
  BY <1>2, <1>3 DEF Kept, Confirmed
<1>5. Placed(Idle)'
  BY DEF Placed, Idle, Shaped, Preparing
<1>6. DOMAIN desk' = Operators /\ (\A g \in Operators : Placed(desk[g]))' /\ Reserved'
  <2>1. \A g \in Operators \ {h} : Preparing(desk[g]) => desk[g].run \notin DOMAIN runs'
    BY <1>2 DEF Inv, Placed
  <2> QED
    BY <1>2, <1>4, <1>5, <2>1, IdleFacts, FrameStep
<1>7. Tables'
  BY <1>1, <1>2, <1>6 DEF Inv, Tables, ProfileEntries
<1>8. RunsExplained'
  <2>1. ASSUME NEW x \in DOMAIN runs'
        PROVE  /\ x \in RunIds
               /\ \E row :
                    /\ row = runs'[x] /\ RowShaped(row)
                    /\ row.profile # Nil =>
                         Explained(row.profile, row.version, row.gross, row.deductions)'
    <3> PICK row : row = runs[x]
      OBVIOUS
    <3> QED
      BY <1>2, <1>3, CurrentRun
  <2> QED
    BY <2>1, RunsStep
<1>9. Frozen
  <2>1. (Entry(f)).op = f.op /\ (f.op = "confirm" => (Entry(f)).of = f.run)
    BY DEF Entry
  <2> QED
    BY <1>1, <1>2, <2>1 DEF Frozen, Inv, Tables, Confirmed
<1> QED
  BY <1>3, <1>6, <1>7, <1>8, <1>9 DEF Inv

-----------------------------------------------------------------------------
LEMMA InitInv == Init => Inv
<1> SUFFICES ASSUME Init PROVE Inv
  OBVIOUS
<1>1. Tables /\ Reserved
  BY IdleFacts DEF Init, Tables, Reserved, ProfileEntries
<1>2. \A h \in Operators : Placed(desk[h])
  BY IdleFacts DEF Init
<1>3. Sayings = {}
  BY IdleFacts DEF Init, Sayings, Stored, Booked, Unbooked, ProfileEntries
<1> QED
  BY <1>1, <1>2, <1>3 DEF Inv, Init, Consistent, Bounded, RunsExplained

LEMMA NextInv == Inv /\ [Serve]_payroll => Inv' /\ Frozen
<1> SUFFICES ASSUME Inv, [Serve]_payroll PROVE Inv' /\ Frozen
  OBVIOUS
<1>1. ASSUME NEW h \in Operators, OpenSome(h) \/ Refuse(h) \/ Crash(h) \/ Work(h)
      PROVE  Inv' /\ Frozen
  BY <1>1, OpenStep, RefuseStep, CrashStep, ListStep, FindProfileStep, InsertStep,
     FindRunStep, ConfirmStep, UpsertStep, ReadProfileStep, AuditStep, PublishStep DEF Work
<1>2. CASE UNCHANGED payroll
  <2>1. UNCHANGED <<runs, profiles, books, notices, desk>>
    BY <1>2 DEF payroll
  <2>2. Sayings' = Sayings
    BY <2>1 DEF Sayings, Stored, Booked, Unbooked, ProfileEntries, Saying, Written
  <2>3. Consistent' /\ Bounded' /\ Reserved' /\ Tables'
    BY <2>1, <2>2 DEF Inv, Consistent, Bounded, Reserved, Tables, ProfileEntries, Preparing
  <2>4. (\A h \in Operators : Placed(desk[h]))'
    BY <2>1, <2>2
    DEF Inv, Placed, Shaped, Preparing, Explained, ByProfile, Confirmed, Entry
  <2>5. RunsExplained'
    BY <2>1, <2>2 DEF Inv, RunsExplained, RowShaped, Explained, ByProfile
  <2>6. Frozen
    BY <2>1 DEF Frozen, Inv, Tables
  <2> QED
    BY <2>3, <2>4, <2>5, <2>6 DEF Inv
<1> QED
  BY <1>1, <1>2 DEF Serve

\* The inductive invariant holds whatever else writes the attendance table.
THEOREM PayrollInvariance == Spec => []Inv
  BY InitInv, NextInv, PTL DEF Spec

\* Runs keep their amounts, and confirmations are said only of confirmed runs.
THEOREM RunsAreFrozen == Spec => RunsFrozen
<1>1. Inv /\ [Serve]_payroll => [Frozen]_<<records, payroll>>
  BY NextInv
<1>2. Spec => [][Frozen]_<<records, payroll>>
  BY <1>1, PayrollInvariance, PTL DEF Spec
<1> QED
  BY <1>2 DEF RunsFrozen, Frozen

\* The version a run names explains its deductions, whoever wrote the profile
\* in between.
THEOREM TracesAreFaithful == Spec => []TraceFaithful
<1>1. Inv => TraceFaithful
  <2> SUFFICES ASSUME Inv, NEW x \in DOMAIN runs, NEW b \in ProfileEntries,
                      runs[x].profile = b.of, runs[x].version = b.version
               PROVE  runs[x].deductions = ByProfile(runs[x].gross, b.content)
    BY DEF TraceFaithful
  <2>1. Saying(b.of, b.version, b.content) \in Sayings
    BY DEF Sayings, Booked
  <2>2. b.of \in ProfileIds
    BY <2>1 DEF Inv, Bounded, Tables, Saying
  <2>3. Explained(runs[x].profile, runs[x].version, runs[x].gross, runs[x].deductions)
    BY <2>2, PayrollAssumption DEF Inv, RunsExplained
  <2> QED
    BY <2>1, <2>3 DEF Explained, Saying
<1> QED
  BY <1>1, PayrollInvariance, PTL

\* A version of a profile is one content for good.
THEOREM VersionsAreUnique == Spec => []VersionsUnique
<1>1. Inv => VersionsUnique
  <2> SUFFICES ASSUME Inv, NEW b \in ProfileEntries
               PROVE  /\ b.of \in DOMAIN profiles /\ b.version <= profiles[b.of].version
                      /\ b.version = profiles[b.of].version =>
                           b.content = profiles[b.of].content
                      /\ \A c \in ProfileEntries :
                           b.of = c.of /\ b.version = c.version => b = c
    BY DEF VersionsUnique
  <2>1. \A a \in ProfileEntries : Saying(a.of, a.version, a.content) \in Sayings
    BY DEF Sayings, Booked
  <2>2. b.of \in DOMAIN profiles /\ b.version <= profiles[b.of].version
    BY <2>1 DEF Inv, Bounded, Saying
  <2>3. Saying(b.of, profiles[b.of].version, profiles[b.of].content) \in Sayings
    BY <2>2 DEF Sayings, Stored
  <2>4. b.version = profiles[b.of].version => b.content = profiles[b.of].content
    BY <2>1, <2>3 DEF Inv, Consistent, Saying
  <2>5. ASSUME NEW c \in ProfileEntries, b.of = c.of, b.version = c.version
        PROVE  b = c
    <3>1. b.content = c.content
      BY <2>1, <2>5 DEF Inv, Consistent, Saying
    <3> QED
      BY <2>5, <3>1 DEF Inv, Tables
  <2> QED
    BY <2>2, <2>4, <2>5
<1> QED
  BY <1>1, PayrollInvariance, PTL

\* Next to the attendance service, payroll behaves as it does over any records.
THEOREM PaydayIsPayroll == PayPeriodSpec => Spec
<1>1. PayPeriodInit => Init
  BY DEF PayPeriodInit
<1>2. [PayPeriodNext]_vars => [Serve]_payroll
  BY DEF PayPeriodNext, Next, vars
<1> QED
  BY <1>1, <1>2, PTL DEF PayPeriodSpec, Spec

-----------------------------------------------------------------------------
(* What a run is computed from, and its types. *)

\* What payroll relies on of the attendance table, which it does not write.
AttendanceTable ==
  /\ IsFiniteSet(DOMAIN records)
  /\ \A r \in DOMAIN records : records[r].minutes \in Nat \cup {Nil}

\* The approved records of a period can be counted, and so can their minutes.
LEMMA GrossType ==
  ASSUME AttendanceTable, NEW rs \in SUBSET DOMAIN records
  PROVE  /\ Cardinality(rs) \in Nat /\ Gross(rs) \in Nat
         /\ Cardinality(rs) = 0 => Gross(rs) = 0
<1>1. IsFiniteSet(rs) /\ Cardinality(rs) \in Nat
  BY FS_Subset, FS_CardinalityType DEF AttendanceTable
<1>2. ASSUME NEW r \in rs
      PROVE  IsFiniteSet({r} \X (1 .. Payable(r)))
  <2>1. Payable(r) \in Nat
    BY <1>2 DEF Payable, AttendanceTable
  <2>2. IsFiniteSet(1 .. Payable(r))
    BY <2>1, FS_Interval
  <2>3. IsFiniteSet({r})
    BY FS_Singleton
  <2> QED
    BY <2>2, <2>3, FS_Product
<1> DEFINE parts == {{r} \X (1 .. Payable(r)) : r \in rs}
<1>3. IsFiniteSet(parts)
  <2>1. [r \in rs |-> {r} \X (1 .. Payable(r))] \in Surjection(rs, parts)
    BY DEF Surjection
  <2> QED
    BY <1>1, <2>1, FS_Surjection
<1>4. IsFiniteSet(PayableMinutes(rs))
  BY <1>2, <1>3, FS_UNION DEF PayableMinutes
<1>5. Gross(rs) \in Nat
  BY <1>4, FS_CardinalityType, PayrollAssumption DEF Gross
<1>6. ASSUME Cardinality(rs) = 0
      PROVE  Gross(rs) = 0
  <2>1. PayableMinutes(rs) = {}
    BY <1>1, <1>6, FS_EmptySet DEF PayableMinutes
  <2> QED
    BY <2>1, FS_EmptySet, PayrollAssumption DEF Gross
<1> QED
  BY <1>1, <1>5, <1>6

LEMMA ShareType ==
  ASSUME NEW amount \in Nat, NEW percent \in Nat
  PROVE  Share(amount, percent) \in Nat
<1> PICK n : n = amount * percent
  OBVIOUS
<1>1. n \in Nat
  OBVIOUS
<1>2. 2 * amount * percent = 2 * n
  OBVIOUS
<1>3. (2 * n + 100) \div 200 \in Nat
  BY <1>1
<1> QED
  BY <1>2, <1>3 DEF Share

LEMMA DeductionsType ==
  ASSUME NEW gross \in Nat, NEW c \in Contents
  PROVE  ByProfile(gross, c) \in Deductions
<1>1. c \in Content
  BY PayrollAssumption
<1>2. c.withholding \in Nat /\ c.insurance \in Nat /\ c.other \in Nat
  BY <1>1 DEF Content
<1> QED
  BY <1>2, ShareType DEF ByProfile, Deductions

Costed(f) == f.count \in Nat /\ f.gross \in Nat /\ (f.count = 0 => f.gross = 0)

\* What the columns of a run are filled from, at each step of a handler.
Filled(f) ==
  /\ f.run \in RunIds \cup {Nil}
  /\ f.version \in (1 .. MaxVersion) \cup {Nil}
  /\ Preparing(f) => f.employee \in Employees \cup {Nil} /\ f.period \in Periods
  /\ f.at = "list" =>
       /\ f.version = Nil
       /\ f.op = "profile" => f.id \in ProfileIds
       /\ f.op = "gross" => f.deductions = Nil
       /\ f.op = "manual" => f.deductions \in ManualInputs
  /\ f.at = "findProfile" => f.id \in ProfileIds /\ Costed(f)
  /\ f.at = "insert" =>
       /\ Costed(f)
       /\ f.deductions \in Deductions \cup {Nil}
       /\ f.deductions # Nil => Affordable(f.gross, f.deductions)
       /\ f.id \in ProfileIds \cup {Nil}
       /\ f.version = Nil <=> f.id = Nil
  /\ f.at = "upsert" => f.content \in Contents

RowTyped(row) ==
  /\ row \in Run
  /\ row.net = Nil <=> row.deductions = Nil
  /\ row.version = Nil <=> row.profile = Nil
  /\ row.count = 0 => row.gross = 0
  /\ row.deductions # Nil =>
       row.net = row.gross - Total(row.deductions) /\ row.net >= 0

\* Inductive next to Inv.
Typing ==
  /\ \A x \in DOMAIN runs : RowTyped(runs[x])
  /\ \A id \in DOMAIN profiles :
       profiles[id] \in [version : 1 .. MaxVersion, content : Contents]
  /\ \A h \in Operators : Filled(desk[h])
  /\ failures \in 0 .. MaxFailures

LEMMA IdleFilled == Filled(Idle)
  BY DEF Filled, Idle, Preparing

\* One handler moves on.
LEMMA FilledDesk ==
  ASSUME Inv, Typing, NEW h \in Operators, NEW f, Resume(h, f), Filled(f)
  PROVE  (\A g \in Operators : Filled(desk[g]))'
<1>1. \A g \in Operators : desk'[g] = IF g = h THEN f ELSE desk[g]
  BY DEF Resume, Inv, Tables
<1> QED
  BY <1>1 DEF Typing, Filled, Preparing, Costed

LEMMA FilledStep ==
  ASSUME Inv, Typing, NEW h \in Operators, NEW f, Resume(h, f), Filled(f),
         UNCHANGED <<runs, profiles>>, failures' \in 0 .. MaxFailures
  PROVE  Typing'
<1>1. (\A g \in Operators : Filled(desk[g]))'
  BY FilledDesk
<1> QED
  BY <1>1 DEF Typing, RowTyped

\* A handler past its preparation relies on its run and version only.
LEMMA PassedOn ==
  ASSUME Inv, Typing, NEW h \in Operators,
         NEW at \in {"audit", "publish", "confirm"}, NEW f, f = [desk[h] EXCEPT !.at = at]
  PROVE  Filled(f)
<1>1. f.at = at /\ f.run = desk[h].run /\ f.version = desk[h].version
  BY Current DEF Shaped
<1> QED
  BY <1>1 DEF Typing, Filled, Preparing

LEMMA QuietTyping ==
  ASSUME Inv, Typing, NEW h \in Operators,
         OpenSome(h) \/ Refuse(h) \/ Crash(h) \/ FindRun(h) \/ ReadProfile(h)
         \/ Audit(h) \/ Publish(h)
  PROVE  Typing'
<1>1. ASSUME NEW f, Receive(h, f), Filled(f)
      PROVE  Typing'
  BY <1>1, FilledStep DEF Receive, Typing
<1>2. ASSUME NEW x \in RunIds, NEW e \in Employees \cup {Nil}, NEW p \in Periods,
             NEW op \in {"gross", "manual", "profile"}, NEW d, NEW id, NEW v,
             op = "profile" => id \in ProfileIds,
             op = "gross" => d = Nil,
             op = "manual" => d \in ManualInputs,
             OpenPreview(h, op, x, e, p, d, id, v)
      PROVE  Typing'
  <2> PICK f : f = [Idle EXCEPT !.at = "list", !.op = op, !.run = x, !.employee = e,
                                !.period = p, !.deductions = d, !.id = id, !.expected = v]
    OBVIOUS
  <2>1. /\ f.at = "list" /\ f.op = op /\ f.run = x /\ f.employee = e /\ f.period = p
        /\ f.deductions = d /\ f.id = id /\ f.version = Nil
    BY DEF Idle
  <2>2. Filled(f)
    BY <1>2, <2>1 DEF Filled, Preparing
  <2> QED
    BY <1>1, <1>2, <2>2 DEF OpenPreview
<1>3. ASSUME NEW x \in RunIds, OpenConfirm(h, x)
      PROVE  Typing'
  BY <1>1, <1>3 DEF OpenConfirm, Filled, Preparing, Idle
<1>4. ASSUME NEW id \in ProfileIds, NEW c \in Contents, OpenUpsert(h, id, c)
      PROVE  Typing'
  BY <1>1, <1>4 DEF OpenUpsert, Filled, Preparing, Idle
<1>5. ASSUME NEW id \in ProfileIds, OpenRead(h, id)
      PROVE  Typing'
  BY <1>1, <1>5 DEF OpenRead, Filled, Preparing, Idle
<1>6. CASE OpenSome(h)
  <2>1. ASSUME NEW x \in RunIds, NEW e \in Employees \cup {Nil}, NEW p \in Periods,
               OpenPreview(h, "gross", x, e, p, Nil, Nil, Nil)
        PROVE  Typing'
    BY <1>2, <2>1
  <2>2. ASSUME NEW x \in RunIds, NEW e \in Employees \cup {Nil}, NEW p \in Periods,
               NEW d \in ManualInputs, OpenPreview(h, "manual", x, e, p, d, Nil, Nil)
        PROVE  Typing'
    BY <1>2, <2>2
  <2>3. ASSUME NEW x \in RunIds, NEW e \in Employees \cup {Nil}, NEW p \in Periods,
               NEW id \in ProfileIds, NEW v, OpenPreview(h, "profile", x, e, p, Nil, id, v)
        PROVE  Typing'
    BY <1>2, <2>3
  <2> QED
    BY <1>3, <1>4, <1>5, <1>6, <2>1, <2>2, <2>3 DEF OpenSome
<1>7. ASSUME Finish(h), UNCHANGED <<runs, profiles>>, failures' \in 0 .. MaxFailures
      PROVE  Typing'
  BY <1>7, IdleFilled, FilledStep DEF Finish
<1>8. CASE Refuse(h) \/ Crash(h) \/ Publish(h)
  <2>1. failures' \in 0 .. MaxFailures
    BY <1>8, PayrollAssumption DEF Refuse, Crash, Publish, Typing
  <2> QED
    BY <1>7, <1>8, <2>1 DEF Refuse, Crash, Publish
<1>9. CASE FindRun(h) \/ ReadProfile(h) \/ Audit(h)
  <2>1. UNCHANGED <<runs, profiles>> /\ failures' \in 0 .. MaxFailures
    BY <1>9 DEF FindRun, ReadProfile, Audit, Typing
  <2>2. ASSUME NEW at \in {"audit", "publish", "confirm"}, Resume(h, [desk[h] EXCEPT !.at = at])
        PROVE  Typing'
    BY <2>1, <2>2, PassedOn, FilledStep
  <2> QED
    BY <1>7, <1>9, <2>1, <2>2 DEF FindRun, ReadProfile, Audit
<1> QED
  BY <1>6, <1>8, <1>9

LEMMA CurrentFilled ==
  ASSUME Inv, Typing, NEW h \in Operators, NEW f, f = desk[h]
  PROVE  Filled(f) /\ Placed(f) /\ Shaped(f)
  BY Current DEF Typing

LEMMA ListTyping ==
  ASSUME Inv, Typing, AttendanceTable, NEW h \in Operators, List(h)
  PROVE  Typing'
<1> PICK f : f = desk[h]
  OBVIOUS
<1>1. f.at = "list" /\ Filled(f) /\ Shaped(f) /\ Preparing(f)
  BY CurrentFilled DEF List, Preparing
<1> PICK members \in SUBSET Employees :
         Listed(h, listApprovedInPeriod(f.employee, f.period, members))
  BY SomeListed
<1> PICK found : found = listApprovedInPeriod(f.employee, f.period, members)
  OBVIOUS
<1>2. /\ Cardinality(found) \in Nat /\ Gross(found) \in Nat
      /\ Cardinality(found) = 0 => Gross(found) = 0
  <2>1. found \in SUBSET DOMAIN records
    BY DEF listApprovedInPeriod
  <2> QED
    BY <2>1, GrossType
<1> PICK g : g = [f EXCEPT !.count = Cardinality(found), !.gross = Gross(found)]
  OBVIOUS
<1>3. /\ Shaped(g) /\ g.op = f.op /\ g.run = f.run /\ g.version = f.version
      /\ g.employee = f.employee /\ g.period = f.period /\ g.deductions = f.deductions
      /\ g.id = f.id /\ Costed(g)
  BY <1>1, <1>2 DEF Shaped, Costed
<1>4. /\ \/ f.op = "gross" /\ Resume(h, [g EXCEPT !.at = "insert"])
         \/ /\ f.op = "manual" /\ Affordable(g.gross, f.deductions)
            /\ Resume(h, [g EXCEPT !.at = "insert"])
         \/ Finish(h)
         \/ f.op = "profile" /\ Resume(h, [g EXCEPT !.at = "findProfile"])
      /\ UNCHANGED <<runs, profiles, failures>>
  BY DEF Listed
<1>5. failures' \in 0 .. MaxFailures
  BY <1>4 DEF Typing
<1>6. ASSUME NEW at \in {"insert", "findProfile"}, Resume(h, [g EXCEPT !.at = at]),
             at = "insert" => \/ f.op = "gross"
                              \/ f.op = "manual" /\ Affordable(g.gross, f.deductions),
             at = "findProfile" => f.op = "profile"
      PROVE  Typing'
  <2> PICK k : k = [g EXCEPT !.at = at]
    OBVIOUS
  <2>1. /\ k.at = at /\ k.op = f.op /\ k.run = f.run /\ k.version = f.version
        /\ k.employee = f.employee /\ k.period = f.period /\ k.deductions = f.deductions
        /\ k.id = f.id /\ k.gross = g.gross /\ k.count = g.count
    BY <1>3 DEF Shaped
  <2>2. f.op # "profile" => f.id = Nil
    BY <1>1, CurrentFilled DEF Placed
  <2>3. /\ Costed(k)
        /\ at = "findProfile" => k.id \in ProfileIds
        /\ at = "insert" => /\ k.deductions \in Deductions \cup {Nil}
                            /\ k.deductions # Nil => Affordable(k.gross, k.deductions)
                            /\ k.id = Nil /\ k.version = Nil
    BY <1>1, <1>3, <1>6, <2>1, <2>2, PayrollAssumption DEF Filled, Costed
  <2>4. Filled(k)
    BY <1>1, <2>1, <2>3 DEF Filled, Preparing
  <2> QED
    BY <1>4, <1>5, <1>6, <2>4, FilledStep
<1> QED
  BY <1>4, <1>5, <1>6, IdleFilled, FilledStep DEF Finish

LEMMA FindProfileTyping ==
  ASSUME Inv, Typing, NEW h \in Operators, FindProfile(h)
  PROVE  Typing'
<1> PICK f : f = desk[h]
  OBVIOUS
<1>1. f.at = "findProfile" /\ Filled(f) /\ Shaped(f) /\ Preparing(f)
  BY CurrentFilled DEF FindProfile, Preparing
<1>2. UNCHANGED <<runs, profiles>> /\ failures' \in 0 .. MaxFailures
  BY DEF FindProfile, Typing
<1> PICK d : d = ByProfile(f.gross, profiles[f.id].content)
  OBVIOUS
<1>3. CASE /\ Usable(f) /\ Affordable(f.gross, d)
           /\ Resume(h, [f EXCEPT !.at = "insert", !.deductions = d,
                                  !.version = profiles[f.id].version])
  <2> PICK v : v = profiles[f.id].version
    OBVIOUS
  <2> PICK k : k = [f EXCEPT !.at = "insert", !.deductions = d, !.version = v]
    OBVIOUS
  <2>1. /\ k.at = "insert" /\ k.run = f.run /\ k.version = v /\ k.employee = f.employee
        /\ k.period = f.period /\ k.deductions = d /\ k.id = f.id /\ k.gross = f.gross
        /\ k.count = f.count
    BY <1>1 DEF Shaped
  <2>2. v \in 1 .. MaxVersion /\ profiles[f.id].content \in Contents
    BY <1>3 DEF Usable, Typing
  <2>3. d \in Deductions
    BY <1>1, <2>2, DeductionsType DEF Filled, Costed
  <2>4. k.version # Nil /\ k.id # Nil /\ k.id \in ProfileIds
    BY <1>1, <2>1, <2>2, PayrollAssumption DEF Filled
  <2>5. Costed(k)
    BY <1>1, <2>1 DEF Filled, Costed
  <2>6. Filled(k)
    BY <1>1, <1>3, <2>1, <2>2, <2>3, <2>4, <2>5 DEF Filled, Preparing
  <2> QED
    BY <1>2, <1>3, <2>6, FilledStep
<1> QED
  BY <1>2, <1>3, IdleFilled, FilledStep DEF FindProfile, Finish

LEMMA NewRunTyped ==
  ASSUME NEW f, Filled(f), Preparing(f), f.at = "insert", f.run \in RunIds
  PROVE  RowTyped(NewRun(f))
<1> PICK d : d = f.deductions
  OBVIOUS
<1> PICK row : row = NewRun(f)
  OBVIOUS
<1>1. /\ f.count \in Nat /\ f.gross \in Nat /\ (f.count = 0 => f.gross = 0)
      /\ d \in Deductions \cup {Nil}
      /\ d # Nil => Affordable(f.gross, d)
      /\ f.id \in ProfileIds \cup {Nil} /\ f.version \in (1 .. MaxVersion) \cup {Nil}
      /\ f.version = Nil <=> f.id = Nil
      /\ f.employee \in Employees \cup {Nil} /\ f.period \in Periods
  BY DEF Filled, Costed
<1>2. /\ row.employee = f.employee /\ row.period = f.period /\ row.count = f.count
      /\ row.gross = f.gross /\ row.deductions = d /\ row.profile = f.id
      /\ row.version = f.version /\ row.state = "PREVIEWED"
      /\ row.net = IF d = Nil THEN Nil ELSE f.gross - Total(d)
  BY DEF NewRun
<1>3. ASSUME d # Nil
      PROVE  /\ f.gross - Total(d) \in Int /\ f.gross - Total(d) >= 0
             /\ f.gross - Total(d) # Nil
  <2>1. d.withholding \in Nat /\ d.insurance \in Nat /\ d.other \in Nat
    BY <1>1, <1>3 DEF Deductions
  <2> PICK t : t = Total(d)
    OBVIOUS
  <2>2. t \in Nat /\ t <= f.gross
    BY <1>1, <1>3, <2>1 DEF Total, Affordable
  <2>3. f.gross - t \in Int /\ f.gross - t >= 0
    BY <1>1, <2>2
  <2>4. f.gross - t # Nil
    BY <2>3, PayrollAssumption
  <2> QED
    BY <2>3, <2>4
<1>4. row \in Run
  <2>1. row.net \in Int \cup {Nil}
    BY <1>2, <1>3
  <2> QED
    BY <1>1, <1>2, <2>1 DEF NewRun, Run
<1>5. /\ row.net = Nil <=> row.deductions = Nil
      /\ row.deductions # Nil =>
           row.net = row.gross - Total(row.deductions) /\ row.net >= 0
  BY <1>2, <1>3
<1> QED
  BY <1>1, <1>2, <1>4, <1>5 DEF RowTyped

LEMMA InsertTyping ==
  ASSUME Inv, Typing, NEW h \in Operators, Insert(h)
  PROVE  Typing'
<1> PICK f : f = desk[h]
  OBVIOUS
<1>1. f.at = "insert" /\ Filled(f) /\ Preparing(f) /\ f.run \in RunIds
  BY CurrentFilled DEF Insert, Preparing, Placed
<1> PICK row : row = NewRun(f)
  OBVIOUS
<1>2. RowTyped(row)
  BY <1>1, NewRunTyped
<1>3. /\ runs' = [x \in DOMAIN runs \cup {f.run} |-> IF x = f.run THEN row ELSE runs[x]]
      /\ Resume(h, [f EXCEPT !.at = "audit"]) /\ UNCHANGED <<profiles, failures>>
  BY DEF Insert
<1>4. (\A g \in Operators : Filled(desk[g]))'
  BY <1>3, PassedOn, FilledDesk
<1>5. ASSUME NEW x \in DOMAIN runs'
      PROVE  RowTyped(runs[x])'
  <2>1. CASE x = f.run
    BY <1>2, <1>3, <2>1 DEF RowTyped
  <2>2. CASE x # f.run
    BY <1>3, <1>5, <2>2 DEF Typing, RowTyped
  <2> QED
    BY <2>1, <2>2
<1> QED
  BY <1>3, <1>4, <1>5 DEF Typing

LEMMA ConfirmedTyped ==
  ASSUME NEW row, RowTyped(row)
  PROVE  RowTyped(ConfirmedRow(row))
<1> PICK c : c = ConfirmedRow(row)
  OBVIOUS
<1>1. row \in Run
  BY DEF RowTyped
<1>2. /\ c \in Run /\ c.net = row.net /\ c.deductions = row.deductions
      /\ c.version = row.version /\ c.profile = row.profile /\ c.count = row.count
      /\ c.gross = row.gross
  BY <1>1 DEF ConfirmedRow, Run
<1> QED
  BY <1>2 DEF RowTyped

LEMMA ConfirmTyping ==
  ASSUME Inv, Typing, NEW h \in Operators, Confirm(h)
  PROVE  Typing'
<1> PICK f : f = desk[h]
  OBVIOUS
<1> PICK row : row = ConfirmedRow(runs[f.run])
  OBVIOUS
<1>1. f.run \in DOMAIN runs
  BY CurrentFilled DEF Confirm, Placed
<1>2. RowTyped(row)
  BY <1>1, ConfirmedTyped DEF Typing
<1>3. /\ runs' = [runs EXCEPT ![f.run] = row]
      /\ Resume(h, [f EXCEPT !.at = "audit"]) /\ UNCHANGED <<profiles, failures>>
  BY DEF Confirm
<1>4. (\A g \in Operators : Filled(desk[g]))'
  BY <1>3, PassedOn, FilledDesk
<1>5. ASSUME NEW x \in DOMAIN runs'
      PROVE  RowTyped(runs[x])'
  BY <1>1, <1>2, <1>3, <1>5 DEF Typing, RowTyped
<1> QED
  BY <1>3, <1>4, <1>5 DEF Typing

LEMMA UpsertTyping ==
  ASSUME Inv, Typing, NEW h \in Operators, Upsert(h)
  PROVE  Typing'
<1> PICK f : f = desk[h]
  OBVIOUS
<1>1. f.at = "upsert" /\ Filled(f) /\ Shaped(f) /\ f.content \in Contents
  BY CurrentFilled DEF Upsert, Filled
<1> PICK v : v = NextVersion(f.id)
  OBVIOUS
<1>2. v \in 1 .. MaxVersion
  <2>1. v \in Nat /\ v >= 1
    BY DEF NextVersion, Typing
  <2> QED
    BY <2>1, PayrollAssumption DEF Upsert
<1> PICK row : row = [version |-> v, content |-> f.content]
  OBVIOUS
<1>3. /\ profiles' = [id \in DOMAIN profiles \cup {f.id} |->
                        IF id = f.id THEN row ELSE profiles[id]]
      /\ Resume(h, [f EXCEPT !.at = "audit", !.version = v])
      /\ UNCHANGED <<runs, failures>>
  BY DEF Upsert
<1> PICK k : k = [f EXCEPT !.at = "audit", !.version = v]
  OBVIOUS
<1>4. k.at = "audit" /\ k.run = f.run /\ k.version = v
  BY <1>1 DEF Shaped
<1>5. Filled(k)
  BY <1>1, <1>2, <1>4 DEF Filled, Preparing
<1>6. (\A g \in Operators : Filled(desk[g]))'
  BY <1>3, <1>5, FilledDesk
<1>7. \A id \in DOMAIN profiles' :
        profiles'[id] \in [version : 1 .. MaxVersion, content : Contents]
  BY <1>1, <1>2, <1>3 DEF Typing
<1> QED
  BY <1>3, <1>6, <1>7 DEF Typing, RowTyped

LEMMA InitTyping == Init => Typing
  BY IdleFilled, PayrollAssumption DEF Init, Typing

LEMMA NextTyping == Inv /\ Typing /\ AttendanceTable /\ [Serve]_payroll => Typing'
<1> SUFFICES ASSUME Inv, Typing, AttendanceTable, [Serve]_payroll PROVE Typing'
  OBVIOUS
<1>1. ASSUME NEW h \in Operators, OpenSome(h) \/ Refuse(h) \/ Crash(h) \/ Work(h)
      PROVE  Typing'
  BY <1>1, QuietTyping, ListTyping, FindProfileTyping, InsertTyping, ConfirmTyping,
     UpsertTyping DEF Work
<1>2. CASE UNCHANGED payroll
  <2>1. UNCHANGED <<runs, profiles, desk, failures>>
    BY <1>2 DEF payroll
  <2> QED
    BY <2>1 DEF Typing, RowTyped, Filled, Preparing, Costed
<1> QED
  BY <1>1, <1>2 DEF Serve

\* As long as there are finitely many records, and minutes of none are
\* negative, every column has its type and the columns that belong together agree.
THEOREM PayrollTyping == Spec /\ []AttendanceTable => []Typing
  BY InitTyping, NextTyping, PayrollInvariance, PTL DEF Spec

\* Rows, profiles, trails and handlers have their types.
THEOREM PayrollTypes == Spec /\ []AttendanceTable => []TypeOK
<1>1. Inv /\ Typing => TypeOK
  <2> SUFFICES ASSUME Inv, Typing PROVE TypeOK
    OBVIOUS
  <2>1. DOMAIN runs \subseteq RunIds /\ DOMAIN profiles \subseteq ProfileIds
    BY DEF Inv, RunsExplained, Tables
  <2>2. \A x \in DOMAIN runs :
          /\ runs[x] \in Run
          /\ runs[x].net = Nil <=> runs[x].deductions = Nil
          /\ runs[x].version = Nil <=> runs[x].profile = Nil
          /\ runs[x].count = 0 => runs[x].gross = 0
    BY DEF Typing, RowTyped
  <2> QED
    BY <2>1, <2>2 DEF Typing, TypeOK, Filled
<1> QED
  BY <1>1, PayrollInvariance, PayrollTyping, PTL

\* Net pay is gross less deductions and never negative, for any rates.
THEOREM NetIsSound == Spec /\ []AttendanceTable => []NetSound
<1>1. Typing => NetSound
  BY DEF Typing, RowTyped, NetSound
<1> QED
  BY <1>1, PayrollTyping, PTL

-----------------------------------------------------------------------------
(* Payroll next to the attendance service. *)

\* Any number of clerks: what the attendance service makes of its table.
Recorded ==
  /\ IsFiniteSet(DOMAIN records)
  /\ \A r \in DOMAIN records : records[r] \in Attendance!Row
  /\ frame \in [Clerks -> Attendance!Frame]
  /\ \A c \in Clerks :
       /\ frame[c].at = "insert" => frame[c].employee \in Employees
       /\ frame[c].at = "decide" => frame[c].op \in Attendance!Finals

Placeable(f) ==
  /\ f \in Attendance!Frame
  /\ f.at = "insert" => f.employee \in Employees
  /\ f.at = "decide" => f.op \in Attendance!Finals

LEMMA IdlePlaceable == Placeable(Attendance!Idle)
  BY PayrollAssumption DEF Attendance!Idle, Attendance!Frame, Attendance!Steps, Attendance!Instants, Placeable

LEMMA ClerkFrame ==
  ASSUME Recorded, NEW c \in Clerks, NEW f, frame' = [frame EXCEPT ![c] = f], Placeable(f)
  PROVE  /\ frame' \in [Clerks -> Attendance!Frame]
         /\ \A d \in Clerks :
              /\ frame'[d].at = "insert" => frame'[d].employee \in Employees
              /\ frame'[d].at = "decide" => frame'[d].op \in Attendance!Finals
  BY DEF Recorded, Placeable

LEMMA ClerkStep ==
  ASSUME Recorded, NEW c \in Clerks, NEW f, frame' = [frame EXCEPT ![c] = f], Placeable(f),
         UNCHANGED records
  PROVE  Recorded'
  BY ClerkFrame DEF Recorded

LEMMA ClerkContinue ==
  ASSUME Recorded, NEW c \in Clerks, NEW at \in Attendance!Steps \ {"insert"},
         at = "decide" => frame[c].op \in Attendance!Finals
  PROVE  \E f : /\ Placeable(f) /\ f.at = at
                /\ Attendance!Continue(c, at) => frame' = [frame EXCEPT ![c] = f]
<1> PICK f : f = [frame[c] EXCEPT !.at = at]
  OBVIOUS
<1>1. f \in Attendance!Frame /\ f.at = at /\ f.op = frame[c].op
  BY DEF Recorded, Attendance!Frame
<1>2. Attendance!Continue(c, at) => frame' = [frame EXCEPT ![c] = f]
  BY DEF Attendance!Continue
<1> QED
  BY <1>1, <1>2 DEF Placeable

LEMMA ClerkOpens ==
  ASSUME Recorded, NEW c \in Clerks, Attendance!OpenSome(c)
  PROVE  Recorded'
<1> USE DEF Attendance!Open, Attendance!Finals, Attendance!Ops, Attendance!Steps
<1>1. ASSUME NEW r \in RecordIds, NEW e \in Employees, NEW t \in Attendance!Instants,
             NEW m \in Minutes \cup {Nil}, Attendance!OpenCreate(c, r, e, t, m)
      PROVE  Recorded'
  <2> PICK f : f = [Attendance!Idle EXCEPT !.at = "insert", !.op = "recorded", !.record = r,
                                           !.employee = e, !.checkIn = t, !.minutes = m]
    OBVIOUS
  <2>1. Placeable(f)
    BY IdlePlaceable DEF Placeable, Attendance!Frame, Attendance!Idle
  <2> QED
    BY <1>1, <2>1, ClerkStep DEF Attendance!OpenCreate
<1>2. ASSUME NEW r \in RecordIds, NEW p \in SUBSET {"checkIn", "minutes"},
             NEW t \in Attendance!Instants, NEW m \in Minutes,
             Attendance!OpenCorrect(c, r, p, t, m)
      PROVE  Recorded'
  <2> PICK f : f = [Attendance!Idle EXCEPT !.at = "find", !.op = "corrected", !.record = r,
                                           !.patch = p, !.checkIn = t, !.minutes = m]
    OBVIOUS
  <2>1. Placeable(f)
    BY IdlePlaceable DEF Placeable, Attendance!Frame, Attendance!Idle
  <2> QED
    BY <1>2, <2>1, ClerkStep DEF Attendance!OpenCorrect
<1>3. ASSUME NEW r \in RecordIds, NEW d \in Attendance!Finals, Attendance!OpenDecide(c, r, d)
      PROVE  Recorded'
  <2> PICK f : f = [Attendance!Idle EXCEPT !.at = "find", !.op = d, !.record = r]
    OBVIOUS
  <2>1. Placeable(f)
    BY IdlePlaceable DEF Placeable, Attendance!Frame, Attendance!Idle
  <2> QED
    BY <1>3, <2>1, ClerkStep DEF Attendance!OpenDecide
<1> QED
  BY <1>1, <1>2, <1>3 DEF Attendance!OpenSome

\* A clerk writes one row and goes on to its audit entry.
LEMMA ClerkWrites ==
  ASSUME Recorded, NEW c \in Clerks, Attendance!Continue(c, "audit"),
         NEW r, NEW row \in Attendance!Row,
         DOMAIN records' \subseteq DOMAIN records \cup {r},
         \A q \in DOMAIN records' : records'[q] = IF q = r THEN row ELSE records[q]
  PROVE  Recorded'
<1>1. IsFiniteSet(DOMAIN records')
  <2>1. IsFiniteSet(DOMAIN records \cup {r})
    BY FS_AddElement DEF Recorded
  <2> QED
    BY <2>1, FS_Subset
<1>2. \A q \in DOMAIN records' : records'[q] \in Attendance!Row
  BY DEF Recorded
<1>3. PICK f : Placeable(f) /\ frame' = [frame EXCEPT ![c] = f]
  BY ClerkContinue DEF Attendance!Steps
<1> QED
  BY <1>1, <1>2, <1>3, ClerkFrame DEF Recorded

LEMMA ClerkInserts ==
  ASSUME Recorded, NEW c \in Clerks, Attendance!Insert(c)
  PROVE  Recorded'
<1> PICK f \in Attendance!Frame : f = frame[c]
  BY DEF Recorded
<1> PICK row : row = [employee |-> f.employee, checkIn |-> f.checkIn, minutes |-> f.minutes,
                      state |-> "PENDING", stamped |-> FALSE]
  OBVIOUS
<1>1. /\ f.at = "insert" /\ Attendance!Continue(c, "audit")
      /\ records' = [r \in DOMAIN records \cup {f.record} |->
                       IF r = f.record THEN row ELSE records[r]]
  BY DEF Attendance!Insert
<1>2. row \in Attendance!Row
  BY <1>1 DEF Recorded, Attendance!Row, Attendance!Frame
<1> QED
  BY <1>1, <1>2, ClerkWrites

LEMMA ClerkEdits ==
  ASSUME Recorded, NEW c \in Clerks, Attendance!Edit(c)
  PROVE  Recorded'
<1> PICK f \in Attendance!Frame : f = frame[c]
  BY DEF Recorded
<1> PICK old : old = records[f.record]
  OBVIOUS
<1> PICK row : row = Attendance!CorrectedRow(old, f)
  OBVIOUS
<1>1. records' = [records EXCEPT ![f.record] = row] /\ Attendance!Continue(c, "audit")
  BY DEF Attendance!Edit
<1>2. CASE f.record \in DOMAIN records
  <2>1. old \in Attendance!Row
    BY <1>2 DEF Recorded
  <2>2. row \in Attendance!Row
    BY <2>1 DEF Attendance!CorrectedRow, Attendance!Row, Attendance!Frame
  <2> QED
    BY <1>1, <2>2, ClerkWrites
<1>3. CASE f.record \notin DOMAIN records
  <2>1. DOMAIN records' = DOMAIN records /\ \A q \in DOMAIN records : records'[q] = records[q]
    BY <1>1, <1>3
  <2>2. PICK k : Placeable(k) /\ frame' = [frame EXCEPT ![c] = k]
    BY <1>1, ClerkContinue DEF Attendance!Steps
  <2> QED
    BY <2>1, <2>2, ClerkFrame DEF Recorded
<1> QED
  BY <1>2, <1>3

LEMMA ClerkDecides ==
  ASSUME Recorded, NEW c \in Clerks, Attendance!Decide(c)
  PROVE  Recorded'
<1> PICK f \in Attendance!Frame : f = frame[c]
  BY DEF Recorded
<1> PICK old : old = records[f.record]
  OBVIOUS
<1> PICK row : row = Attendance!DecidedRow(old, f.op)
  OBVIOUS
<1>1. /\ records' = [records EXCEPT ![f.record] = row] /\ Attendance!Continue(c, "audit")
      /\ f.op \in Attendance!Finals
  BY DEF Attendance!Decide, Recorded
<1>2. CASE f.record \in DOMAIN records
  <2>1. old \in Attendance!Row
    BY <1>2 DEF Recorded
  <2>2. row \in Attendance!Row
    BY <1>1, <2>1 DEF Attendance!DecidedRow, Attendance!Row
  <2> QED
    BY <1>1, <2>2, ClerkWrites
<1>3. CASE f.record \notin DOMAIN records
  <2>1. DOMAIN records' = DOMAIN records /\ \A q \in DOMAIN records : records'[q] = records[q]
    BY <1>1, <1>3
  <2>2. PICK k : Placeable(k) /\ frame' = [frame EXCEPT ![c] = k]
    BY <1>1, ClerkContinue DEF Attendance!Steps
  <2> QED
    BY <2>1, <2>2, ClerkFrame DEF Recorded
<1> QED
  BY <1>2, <1>3

LEMMA ClerkMoves ==
  ASSUME Recorded, NEW c \in Clerks,
         Attendance!Refuse(c) \/ Attendance!Crash(c) \/ Attendance!FindPending(c)
         \/ Attendance!Audit(c) \/ Attendance!Publish(c)
  PROVE  Recorded'
<1>1. UNCHANGED records
  BY DEF Attendance!Refuse, Attendance!Crash, Attendance!FindPending, Attendance!Audit,
         Attendance!Publish
<1>2. CASE Attendance!Finish(c)
  BY <1>1, <1>2, IdlePlaceable, ClerkStep DEF Attendance!Finish
<1>3. ASSUME NEW at \in {"edit", "decide", "publish"}, Attendance!Continue(c, at),
             at = "decide" => frame[c].op \in Attendance!Finals
      PROVE  Recorded'
  <2>1. PICK f : Placeable(f) /\ frame' = [frame EXCEPT ![c] = f]
    BY <1>3, ClerkContinue DEF Attendance!Steps
  <2> QED
    BY <1>1, <2>1, ClerkStep
<1> QED
  BY <1>2, <1>3 DEF Attendance!Refuse, Attendance!Crash, Attendance!FindPending,
                    Attendance!Audit, Attendance!Publish

LEMMA AttendanceRecorded == Recorded /\ [PayPeriodNext]_vars => Recorded'
<1> SUFFICES ASSUME Recorded, [PayPeriodNext]_vars PROVE Recorded'
  OBVIOUS
<1>1. ASSUME NEW c \in Clerks,
             Attendance!OpenSome(c) \/ Attendance!Refuse(c) \/ Attendance!Crash(c)
             \/ Attendance!Work(c)
      PROVE  Recorded'
  BY <1>1, ClerkOpens, ClerkInserts, ClerkEdits, ClerkDecides, ClerkMoves
  DEF Attendance!Work
<1>2. CASE UNCHANGED <<records, frame>>
  BY <1>2 DEF Recorded
<1> QED
  BY <1>1, <1>2 DEF PayPeriodNext, vars, Attendance!Next, Attendance!attendance, Next

LEMMA RecordedTable == PayPeriodSpec => []Recorded
<1>1. PayPeriodInit => Recorded
  <2> SUFFICES ASSUME PayPeriodInit PROVE Recorded
    OBVIOUS
  <2>1. records = << >> /\ frame = [c \in Clerks |-> Attendance!Idle]
    BY DEF PayPeriodInit, Attendance!Init
  <2>2. DOMAIN records = {} /\ IsFiniteSet(DOMAIN records)
    BY <2>1, FS_EmptySet
  <2> QED
    BY <2>1, <2>2, IdlePlaceable DEF Recorded, Placeable
<1> QED
  BY <1>1, AttendanceRecorded, PTL DEF PayPeriodSpec

\* Whatever the attendance service does, payroll finds a table it can count.
THEOREM PaydayTable == PayPeriodSpec => []AttendanceTable
<1>1. Recorded => AttendanceTable
  BY PayPeriodAssumption DEF Recorded, AttendanceTable, Attendance!Row
<1> QED
  BY <1>1, RecordedTable, PTL

\* So a run's columns have their types and its net pay is sound beside any
\* number of attendance requests.
THEOREM PaydayTypes == PayPeriodSpec => [](TypeOK /\ NetSound)
  BY PaydayTable, PaydayIsPayroll, PayrollTypes, NetIsSound, PTL

-----------------------------------------------------------------------------
(* Several clerks: what they write late. *)

\* A clerk who is about to write found the record pending, and so it still is
\* unless somebody else decided it since; no two clerks insert the same record.
Late ==
  \A c \in Clerks :
    /\ frame[c].at = "insert" =>
         /\ frame[c].record \notin DOMAIN records
         /\ \A d \in Clerks \ {c} : frame[d].at = "insert" => frame[d].record # frame[c].record
    /\ Writing(c) =>
         /\ frame[c].record \in DOMAIN records
         /\ records[frame[c].record].state = "PENDING" \/ c \in overtaken

\* What a step does to the decided records: the body of OverwrittenOnlyLate.
LateOnly == \A r \in DOMAIN records : Decided(r) /\ records'[r] # records[r] => WrittenLate(r)

\* Whoever finds a record pending, inserts one or overwrites one, the others
\* stay in their place.
LEMMA OthersLate ==
  ASSUME Recorded, Recorded', Late, Remember, NEW c \in Clerks, NEW k,
         frame' = [frame EXCEPT ![c] = k], DOMAIN records \subseteq DOMAIN records',
         k.at = "insert" =>
           /\ k.record \notin DOMAIN records'
           /\ \A d \in Clerks \ {c} : frame[d].at = "insert" => frame[d].record # k.record,
         k.at \in {"edit", "decide"} =>
           k.record \in DOMAIN records' /\ records'[k.record].state = "PENDING",
         \A d \in Clerks \ {c} :
           frame[d].at = "insert" => frame[d].record \notin DOMAIN records'
  PROVE  Late'
<1>1. frame'[c] = k /\ \A d \in Clerks \ {c} : frame'[d] = frame[d]
  BY DEF Recorded
<1>2. ASSUME NEW d \in Clerks \ {c}, Writing(d)
      PROVE  /\ frame[d].record \in DOMAIN records'
             /\ records'[frame[d].record].state = "PENDING" \/ d \in overtaken'
  <2> PICK r : r = frame[d].record
    OBVIOUS
  <2>1. r \in DOMAIN records /\ r \in DOMAIN records' /\ Writing(d)'
    BY <1>1, <1>2 DEF Late, Writing
  <2>2. \/ records[r].state = "PENDING" /\ ~Decided(r)
        \/ d \in overtaken
    BY <1>2 DEF Late, Decided, Attendance!Finals
  <2>3. records'[r].state = "PENDING" \/ records'[r].state \in Attendance!Finals
    BY <2>1 DEF Recorded, Attendance!Row
  <2>4. frame'[d].record = r
    BY <1>1
  <2>5. ASSUME records'[r].state \in Attendance!Finals, ~Decided(r)
        PROVE  ~Decided(frame[d].record) /\ Decided(frame[d].record)'
    BY <2>1, <2>4, <2>5 DEF Decided
  <2> QED
    BY <1>2, <2>1, <2>2, <2>3, <2>5 DEF Remember
<1>3. ASSUME NEW d \in Clerks
      PROVE  /\ frame'[d].at = "insert" =>
                  /\ frame'[d].record \notin DOMAIN records'
                  /\ \A e \in Clerks \ {d} :
                       frame'[e].at = "insert" => frame'[e].record # frame'[d].record
             /\ Writing(d)' =>
                  /\ frame'[d].record \in DOMAIN records'
                  /\ records'[frame'[d].record].state = "PENDING" \/ d \in overtaken'
  <2>1. CASE d = c
    BY <1>1, <2>1 DEF Writing
  <2>2. CASE d # c
    <3>1. frame'[d] = frame[d] /\ d \in Clerks \ {c}
      BY <1>1, <2>2
    <3>2. frame[d].at = "insert" =>
            \A e \in Clerks \ {d} :
              frame'[e].at = "insert" => frame'[e].record # frame[d].record
      BY <1>1, <3>1 DEF Late
    <3> QED
      BY <1>2, <3>1, <3>2 DEF Writing
  <2> QED
    BY <2>1, <2>2
<1> QED
  BY <1>3 DEF Late

\* The table stays, or one row is inserted or written by who was to do so.
LEMMA ClerkTable ==
  ASSUME Recorded, Late, NEW c \in Clerks,
         Attendance!OpenSome(c) \/ Attendance!Refuse(c) \/ Attendance!Crash(c)
         \/ Attendance!Work(c)
  PROVE  /\ DOMAIN records \subseteq DOMAIN records'
         /\ \A d \in Clerks \ {c} :
              frame[d].at = "insert" => frame[d].record \notin DOMAIN records'
         /\ \A r \in DOMAIN records :
              records'[r] # records[r] =>
                /\ frame[c].record = r /\ Writing(c)
                /\ Attendance!Continue(c, "audit")
<1> PICK f \in Attendance!Frame : f = frame[c]
  BY DEF Recorded
<1>1. CASE UNCHANGED records
  BY <1>1 DEF Late
<1>2. CASE Attendance!Insert(c)
  <2>1. /\ f.at = "insert" /\ f.record \notin DOMAIN records
        /\ DOMAIN records' = DOMAIN records \cup {f.record}
        /\ \A r \in DOMAIN records : records'[r] = records[r]
    BY <1>2 DEF Attendance!Insert, Late
  <2> QED
    BY <2>1 DEF Late
<1>3. CASE Attendance!Edit(c) \/ Attendance!Decide(c)
  <2>1. /\ Writing(c) /\ Attendance!Continue(c, "audit")
        /\ DOMAIN records' = DOMAIN records
        /\ \A r \in DOMAIN records : r # f.record => records'[r] = records[r]
    BY <1>3 DEF Attendance!Edit, Attendance!Decide, Writing
  <2> QED
    BY <2>1 DEF Late
<1> QED
  BY <1>1, <1>2, <1>3
  DEF Attendance!OpenSome, Attendance!OpenCreate, Attendance!OpenCorrect,
      Attendance!OpenDecide, Attendance!Open, Attendance!Refuse, Attendance!Crash,
      Attendance!Work, Attendance!FindPending, Attendance!Audit, Attendance!Publish

\* What a clerk leaves its frame at.
Leaves(c, k) ==
  /\ frame' = [frame EXCEPT ![c] = k]
  /\ k.at = "insert" =>
       /\ k.record \notin DOMAIN records'
       /\ \A d \in Clerks \ {c} : frame[d].at = "insert" => frame[d].record # k.record
  /\ k.at \in {"edit", "decide"} =>
       k.record \in DOMAIN records' /\ records'[k.record].state = "PENDING"

LEMMA ClerkPlaced ==
  ASSUME Recorded, Late, NEW c \in Clerks,
         Attendance!OpenSome(c) \/ Attendance!Refuse(c) \/ Attendance!Crash(c)
         \/ Attendance!Work(c)
  PROVE  \E k : Leaves(c, k)
<1> PICK f \in Attendance!Frame : f = frame[c]
  BY DEF Recorded
<1>1. ASSUME NEW at \in Attendance!Steps, Attendance!Continue(c, at)
      PROVE  \E k : k.at = at /\ k.record = f.record /\ frame' = [frame EXCEPT ![c] = k]
  <2> PICK k : k = [f EXCEPT !.at = at]
    OBVIOUS
  <2>1. k.at = at /\ k.record = f.record
    BY DEF Attendance!Frame
  <2> QED
    BY <1>1, <2>1 DEF Attendance!Continue
<1>2. ASSUME NEW at \in {"audit", "publish"}, Attendance!Continue(c, at)
      PROVE  \E k : Leaves(c, k)
  <2>1. PICK k : k.at = at /\ frame' = [frame EXCEPT ![c] = k]
    BY <1>1, <1>2 DEF Attendance!Steps
  <2>2. Leaves(c, k)
    BY <1>2, <2>1 DEF Leaves
  <2> QED
    BY <2>2
<1>3. CASE Attendance!Finish(c)
  <2> PICK k : k = Attendance!Idle
    OBVIOUS
  <2>1. k.at = "idle" /\ Leaves(c, k)
    BY <1>3 DEF Attendance!Finish, Attendance!Idle, Leaves
  <2> QED
    BY <2>1
<1>4. CASE Attendance!FindPending(c)
  <2>1. \/ Attendance!Finish(c)
        \/ /\ f.record \in DOMAIN records /\ records[f.record].state = "PENDING"
           /\ UNCHANGED records
           /\ Attendance!Continue(c, "decide") \/ Attendance!Continue(c, "edit")
    BY <1>4 DEF Attendance!FindPending, Attendance!Changeable
  <2> QED
    BY <1>1, <1>3, <2>1 DEF Attendance!Steps, Leaves
<1>5. CASE Attendance!OpenSome(c)
  <2>1. ASSUME NEW k, Attendance!Open(c, k), k.at \in {"find", "insert"},
               k.at = "insert" =>
                 k.record \notin DOMAIN records /\ \A d \in Clerks : frame[d].record # k.record
        PROVE  \E g : Leaves(c, g)
    BY <2>1 DEF Attendance!Open, Leaves
  <2>2. ASSUME NEW r, NEW e, NEW t, NEW m, Attendance!OpenCreate(c, r, e, t, m)
        PROVE  \E g : Leaves(c, g)
    BY <2>1, <2>2 DEF Attendance!OpenCreate, Attendance!Idle
  <2>3. ASSUME NEW r, NEW p, NEW t, NEW m, Attendance!OpenCorrect(c, r, p, t, m)
        PROVE  \E g : Leaves(c, g)
    BY <2>1, <2>3 DEF Attendance!OpenCorrect, Attendance!Idle
  <2>4. ASSUME NEW r, NEW d, Attendance!OpenDecide(c, r, d)
        PROVE  \E g : Leaves(c, g)
    BY <2>1, <2>4 DEF Attendance!OpenDecide, Attendance!Idle
  <2> QED
    BY <1>5, <2>2, <2>3, <2>4 DEF Attendance!OpenSome
<1> QED
  BY <1>2, <1>3, <1>4, <1>5
  DEF Attendance!Refuse, Attendance!Crash, Attendance!Work, Attendance!Insert,
      Attendance!Edit, Attendance!Decide, Attendance!Audit, Attendance!Publish

LEMMA ClerkLate ==
  ASSUME Recorded, Recorded', Late, Remember, NEW c \in Clerks,
         Attendance!OpenSome(c) \/ Attendance!Refuse(c) \/ Attendance!Crash(c)
         \/ Attendance!Work(c)
  PROVE  Late' /\ LateOnly /\ DOMAIN records \subseteq DOMAIN records'
<1>1. DOMAIN records \subseteq DOMAIN records'
  BY ClerkTable
<1>2. Late'
  BY ClerkTable, ClerkPlaced, OthersLate DEF Leaves
<1>3. ASSUME NEW r \in DOMAIN records, Decided(r), records'[r] # records[r]
      PROVE  WrittenLate(r)
  <2>1. frame[c].record = r /\ Writing(c) /\ Attendance!Continue(c, "audit")
    BY <1>3, ClerkTable
  <2>2. c \in overtaken
    BY <1>3, <2>1 DEF Late, Decided, Attendance!Finals
  <2>3. ~Writing(c)'
    BY <2>1 DEF Attendance!Continue, Recorded, Writing, Attendance!Frame
  <2> QED
    BY <2>1, <2>2, <2>3 DEF WrittenLate
<1> QED
  BY <1>1, <1>2, <1>3 DEF LateOnly

LEMMA NextLate ==
  Recorded /\ Recorded' /\ Late /\ [PayPeriodNext]_vars =>
    Late' /\ LateOnly /\ Approvals \subseteq Approvals'
<1> SUFFICES ASSUME Recorded, Recorded', Late, [PayPeriodNext]_vars
             PROVE  Late' /\ LateOnly /\ Approvals \subseteq Approvals'
  OBVIOUS
<1>1. CASE UNCHANGED <<records, frame, overtaken, overwritten>>
  BY <1>1 DEF Late, LateOnly, Writing, Approvals
<1>2. CASE Attendance!Next /\ Remember
  <2>1. Late' /\ LateOnly /\ DOMAIN records \subseteq DOMAIN records'
    BY <1>2, ClerkLate DEF Attendance!Next
  <2>2. overwritten \subseteq overwritten'
    BY <1>2 DEF Remember
  <2>3. ASSUME NEW r \in DOMAIN records, records[r].state = "APPROVED"
        PROVE  <<r, records[r]>> \in Approvals'
    <3>1. CASE records'[r] = records[r]
      BY <2>1, <2>3, <3>1 DEF Approvals
    <3>2. CASE records'[r] # records[r]
      <4>1. WrittenLate(r)
        BY <2>1, <2>3, <3>2 DEF LateOnly, Decided, Attendance!Finals
      <4>2. <<r, records[r]>> \in overwritten'
        BY <1>2, <2>3, <3>2, <4>1 DEF Remember
      <4> QED
        BY <4>2 DEF Approvals
    <3> QED
      BY <3>1, <3>2
  <2>4. Approvals \subseteq Approvals'
    BY <2>2, <2>3 DEF Approvals
  <2> QED
    BY <2>1, <2>4
<1> QED
  BY <1>1, <1>2
  DEF PayPeriodNext, vars, Attendance!attendance, Next

LEMMA PaydayLate == PayPeriodSpec => []Late
<1>1. PayPeriodInit => Late
  BY DEF PayPeriodInit, Attendance!Init, Attendance!Idle, Late, Writing
<1> QED
  BY <1>1, NextLate, RecordedTable, PTL DEF PayPeriodSpec

\* Whatever clerks, corrections and decisions race on it, nobody who finds a
\* record decided writes it: only what was past its check when somebody else
\* decided the record overwrites it.
THEOREM OverwritesAreLate == PayPeriodSpec => OverwrittenOnlyLate
<1>1. Recorded /\ Recorded' /\ Late /\ [PayPeriodNext]_vars =>
        [\A r \in DOMAIN records :
           Decided(r) /\ records'[r] # records[r] => WrittenLate(r)]_vars
  BY NextLate DEF LateOnly
<1> QED
  BY <1>1, RecordedTable, PaydayLate, PTL DEF PayPeriodSpec, OverwrittenOnlyLate

-----------------------------------------------------------------------------
(* One attendance request at a time. *)

OneClerk == \A c, d \in Clerks : c = d

Undisturbed == overtaken = {}

\* A step of the only clerk overtakes nobody.
LEMMA NobodyOvertaken ==
  ASSUME OneClerk
  PROVE  Recorded /\ Late /\ Undisturbed /\ [PayPeriodNext]_vars => Undisturbed'
<1> SUFFICES ASSUME Recorded, Late, Undisturbed, Attendance!Next, Remember
             PROVE  Undisturbed'
  BY DEF PayPeriodNext, vars, Undisturbed
<1> SUFFICES ASSUME NEW c \in Clerks, Writing(c), Writing(c)',
                    ~Decided(frame[c].record), Decided(frame[c].record)'
             PROVE  FALSE
  BY DEF Remember, Undisturbed
<1>1. \/ Attendance!OpenSome(c) \/ Attendance!Refuse(c) \/ Attendance!Crash(c)
      \/ Attendance!Work(c)
  BY DEF Attendance!Next, OneClerk
<1>2. frame[c] \in Attendance!Frame /\ DOMAIN frame = Clerks
  BY DEF Recorded
<1>3. Attendance!Edit(c) \/ Attendance!Decide(c) \/ Attendance!Finish(c)
  BY <1>1
  DEF Writing, Attendance!OpenSome, Attendance!OpenCreate, Attendance!OpenCorrect,
      Attendance!OpenDecide, Attendance!Open, Attendance!Refuse, Attendance!Crash,
      Attendance!Work, Attendance!FindPending, Attendance!Insert, Attendance!Audit,
      Attendance!Publish
<1>4. CASE Attendance!Finish(c)
  BY <1>2, <1>4 DEF Attendance!Finish, Attendance!Idle, Writing
<1>5. CASE Attendance!Edit(c) \/ Attendance!Decide(c)
  <2>1. Attendance!Continue(c, "audit")
    BY <1>5 DEF Attendance!Edit, Attendance!Decide
  <2> QED
    BY <1>2, <2>1 DEF Attendance!Continue, Attendance!Frame, Writing
<1> QED
  BY <1>3, <1>4, <1>5

\* With one attendance request at a time, the records payroll reads are final
\* once they are decided.
THEOREM RecordsAreFinal ==
  ASSUME OneClerk
  PROVE  PayPeriodSpec => RecordsFinal
<1>1. PayPeriodInit => Undisturbed
  BY DEF PayPeriodInit, Undisturbed
<1>2. Recorded /\ Recorded' /\ Late /\ Undisturbed /\ [PayPeriodNext]_vars =>
        [\A r \in DOMAIN records :
           records[r].state \in Attendance!Finals => records'[r] = records[r]]_(Attendance!attendance)
  BY NextLate DEF LateOnly, Decided, WrittenLate, Undisturbed
<1>3. Recorded /\ Late /\ Undisturbed /\ [PayPeriodNext]_vars => Undisturbed'
  BY NobodyOvertaken
<1> QED
  BY <1>1, <1>2, <1>3, RecordedTable, PaydayLate, PTL
  DEF PayPeriodSpec, RecordsFinal, Attendance!DecisionFinal

-----------------------------------------------------------------------------
(* What is paid stays backed. *)

\* The approved rows that may count for a run.
Countable(e, p) ==
  {a \in Approvals :
     /\ a[2].checkIn \in p[1] .. p[2]
     /\ e # Nil => a[2].employee = e}

Owed(e, p, n, g) ==
  \E paid \in SUBSET Countable(e, p) :
    /\ \A a, b \in paid : a[1] = b[1] => a = b
    /\ n = Cardinality({a[1] : a \in paid})
    /\ g = MinutePay * Cardinality(MinutesOf(paid))

Carried(f) == f.at \in {"findProfile", "insert"}

\* Inductive next to the others: runs, and handlers on their way to one.
Backing ==
  /\ \A x \in DOMAIN runs :
       Owed(runs[x].employee, runs[x].period, runs[x].count, runs[x].gross)
  /\ \A h \in Operators :
       Carried(desk[h]) =>
         Owed(desk[h].employee, desk[h].period, desk[h].count, desk[h].gross)

\* What was found approved in a period.
LEMMA FoundOwed ==
  ASSUME Recorded, NEW e, NEW p \in Periods, NEW members, NEW rs,
         rs = listApprovedInPeriod(e, p, members)
  PROVE  Owed(e, p, Cardinality(rs), Gross(rs))
<1>1. p[1] \in Int /\ p[2] \in Int
  BY PayrollAssumption DEF Periods
<1>2. \A r \in DOMAIN records : records[r].checkIn \in Int
  BY PayrollAssumption DEF Recorded, Attendance!Row, Attendance!Instants
<1> PICK paid : paid = {<<r, records[r]>> : r \in rs}
  OBVIOUS
<1>3. paid \in SUBSET Countable(e, p)
  BY <1>1, <1>2 DEF listApprovedInPeriod, Countable, Approvals
<1>4. /\ \A a \in paid : \E r \in rs : a = <<r, records[r]>> /\ a[1] = r /\ a[2] = records[r]
      /\ \A r \in rs : \E a \in paid : a[1] = r /\ a[2] = records[r]
  <2>1. ASSUME NEW a \in paid
        PROVE  \E r \in rs : a = <<r, records[r]>> /\ a[1] = r /\ a[2] = records[r]
    <3>1. PICK r \in rs : a = <<r, records[r]>>
      OBVIOUS
    <3>2. a[1] = r /\ a[2] = records[r]
      BY <3>1
    <3> QED
      BY <3>1, <3>2
  <2>2. ASSUME NEW r \in rs
        PROVE  \E a \in paid : a[1] = r /\ a[2] = records[r]
    <3>1. PICK a \in paid : a = <<r, records[r]>>
      OBVIOUS
    <3> QED
      BY <3>1
  <2> QED
    BY <2>1, <2>2
<1>5. /\ \A a, b \in paid : a[1] = b[1] => a = b
      /\ {a[1] : a \in paid} = rs
  BY <1>4
<1>6. MinutesOf(paid) = PayableMinutes(rs)
  <2>1. ASSUME NEW m, m \in MinutesOf(paid)
        PROVE  m \in PayableMinutes(rs)
    <3>1. PICK a \in paid : m \in {a[1]} \X (1 .. IF a[2].minutes = Nil THEN 0 ELSE a[2].minutes)
      BY <2>1 DEF MinutesOf
    <3>2. PICK r \in rs : a[1] = r /\ a[2] = records[r]
      BY <1>4
    <3>3. m \in {r} \X (1 .. Payable(r))
      BY <3>1, <3>2 DEF Payable
    <3> QED
      BY <3>3 DEF PayableMinutes
  <2>2. ASSUME NEW m, m \in PayableMinutes(rs)
        PROVE  m \in MinutesOf(paid)
    <3>1. PICK r \in rs : m \in {r} \X (1 .. Payable(r))
      BY <2>2 DEF PayableMinutes
    <3>2. PICK a \in paid : a[1] = r /\ a[2] = records[r]
      BY <1>4
    <3>3. m \in {a[1]} \X (1 .. IF a[2].minutes = Nil THEN 0 ELSE a[2].minutes)
      BY <3>1, <3>2 DEF Payable
    <3> QED
      BY <3>3 DEF MinutesOf
  <2> QED
    BY <2>1, <2>2
<1>7. Gross(rs) = MinutePay * Cardinality(MinutesOf(paid))
  BY <1>6 DEF Gross
<1> QED
  BY <1>3, <1>5, <1>7 DEF Owed

\* As long as what was approved is remembered, what is owed stays owed.
LEMMA OwedStays ==
  ASSUME Approvals \subseteq Approvals', NEW e, NEW p, NEW n, NEW g, Owed(e, p, n, g)
  PROVE  Owed(e, p, n, g)'
<1>1. Countable(e, p) \subseteq Countable(e, p)'
  BY DEF Countable
<1> QED
  BY <1>1 DEF Owed, MinutesOf

LEMMA BackedByAttendance ==
  ASSUME Inv, Backing, Approvals \subseteq Approvals', UNCHANGED <<runs, desk>>
  PROVE  Backing'
<1>1. ASSUME NEW x \in DOMAIN runs'
      PROVE  Owed(runs[x].employee, runs[x].period, runs[x].count, runs[x].gross)'
  <2> PICK row : row = runs[x]
    OBVIOUS
  <2>1. Owed(row.employee, row.period, row.count, row.gross)'
    BY <1>1, OwedStays DEF Backing
  <2> QED
    BY <2>1 DEF Owed, Countable, MinutesOf
<1>2. ASSUME NEW h \in Operators, Carried(desk[h])'
      PROVE  Owed(desk[h].employee, desk[h].period, desk[h].count, desk[h].gross)'
  <2> PICK f : f = desk[h]
    OBVIOUS
  <2>1. Owed(f.employee, f.period, f.count, f.gross)'
    BY <1>2, OwedStays DEF Backing, Carried
  <2> QED
    BY <2>1 DEF Owed, Countable, MinutesOf
<1> QED
  BY <1>1, <1>2 DEF Backing

OwedFrame(f) == Owed(f.employee, f.period, f.count, f.gross)

\* A payroll step: the table it reads stays as it is.
LEMMA BackingStep ==
  ASSUME Inv, Backing, UNCHANGED <<records, overwritten>>,
         NEW h \in Operators, NEW f, Resume(h, f),
         Carried(f) => OwedFrame(f),
         \A x \in DOMAIN runs' : \E row : row = runs'[x] /\ OwedFrame(row)
  PROVE  Backing'
<1>1. \A e, p, n, g : Owed(e, p, n, g)' <=> Owed(e, p, n, g)
  BY DEF Owed, Countable, Approvals, MinutesOf
<1>2. ASSUME NEW x \in DOMAIN runs'
      PROVE  Owed(runs[x].employee, runs[x].period, runs[x].count, runs[x].gross)'
  <2> PICK row : row = runs'[x] /\ OwedFrame(row)
    OBVIOUS
  <2>1. Owed(row.employee, row.period, row.count, row.gross)'
    BY <1>1 DEF OwedFrame
  <2> QED
    BY <2>1 DEF Owed, Countable, MinutesOf
<1>3. ASSUME NEW g \in Operators, Carried(desk[g])'
      PROVE  Owed(desk[g].employee, desk[g].period, desk[g].count, desk[g].gross)'
  <2> PICK k : k = desk'[g]
    OBVIOUS
  <2>1. k = IF g = h THEN f ELSE desk[g]
    BY DEF Resume, Inv, Tables
  <2>2. Owed(k.employee, k.period, k.count, k.gross)'
    BY <1>1, <1>3, <2>1 DEF Backing, OwedFrame, Carried
  <2> QED
    BY <2>2 DEF Owed, Countable, MinutesOf
<1> QED
  BY <1>2, <1>3 DEF Backing

LEMMA RunsBacked ==
  ASSUME Backing, UNCHANGED runs
  PROVE  \A x \in DOMAIN runs' : \E row : row = runs'[x] /\ OwedFrame(row)
  BY DEF Backing, OwedFrame

LEMMA BackingQuiet ==
  ASSUME Inv, Backing, UNCHANGED <<records, overwritten, runs>>, NEW h \in Operators,
         NEW f, Resume(h, f), ~Carried(f)
  PROVE  Backing'
  BY RunsBacked, BackingStep

LEMMA BackingList ==
  ASSUME Inv, Typing, Recorded, Backing, UNCHANGED <<records, overwritten>>,
         NEW h \in Operators, List(h)
  PROVE  Backing'
<1> PICK f : f = desk[h]
  OBVIOUS
<1>1. f.at = "list" /\ Filled(f) /\ Shaped(f) /\ Preparing(f)
  BY CurrentFilled DEF List, Preparing
<1> PICK members \in SUBSET Employees :
         Listed(h, listApprovedInPeriod(f.employee, f.period, members))
  BY SomeListed
<1> PICK found : found = listApprovedInPeriod(f.employee, f.period, members)
  OBVIOUS
<1> PICK g : g = [f EXCEPT !.count = Cardinality(found), !.gross = Gross(found)]
  OBVIOUS
<1>2. /\ g.employee = f.employee /\ g.period = f.period /\ g.count = Cardinality(found)
      /\ g.gross = Gross(found) /\ Shaped(g)
  BY <1>1 DEF Shaped
<1>3. Owed(f.employee, f.period, Cardinality(found), Gross(found))
  BY <1>1, FoundOwed DEF Filled
<1>4. ASSUME NEW at, NEW k, k = [g EXCEPT !.at = at]
      PROVE  OwedFrame(k)
  <2>1. /\ k.employee = f.employee /\ k.period = f.period
        /\ k.count = Cardinality(found) /\ k.gross = Gross(found)
    BY <1>2, <1>4 DEF Shaped
  <2> QED
    BY <1>3, <2>1 DEF OwedFrame
<1>5. /\ \/ Resume(h, [g EXCEPT !.at = "insert"])
         \/ Resume(h, [g EXCEPT !.at = "findProfile"])
         \/ Resume(h, Idle)
      /\ UNCHANGED runs
  BY DEF Listed, Finish
<1>6. CASE Resume(h, Idle)
  BY <1>5, <1>6, BackingQuiet DEF Carried, Idle
<1> QED
  BY <1>4, <1>5, <1>6, RunsBacked, BackingStep

LEMMA BackingFindProfile ==
  ASSUME Inv, Backing, UNCHANGED <<records, overwritten>>, NEW h \in Operators, FindProfile(h)
  PROVE  Backing'
<1> PICK f : f = desk[h]
  OBVIOUS
<1>1. f.at = "findProfile" /\ Shaped(f) /\ UNCHANGED runs /\ OwedFrame(f)
  BY Current DEF FindProfile, Backing, Carried, OwedFrame
<1>2. ASSUME NEW d, NEW v,
             Resume(h, [f EXCEPT !.at = "insert", !.deductions = d, !.version = v])
      PROVE  Backing'
  <2> PICK k : k = [f EXCEPT !.at = "insert", !.deductions = d, !.version = v]
    OBVIOUS
  <2>1. /\ k.employee = f.employee /\ k.period = f.period
        /\ k.count = f.count /\ k.gross = f.gross
    BY <1>1 DEF Shaped
  <2>2. OwedFrame(k)
    BY <1>1, <2>1 DEF OwedFrame
  <2> QED
    BY <1>1, <1>2, <2>2, RunsBacked, BackingStep
<1>3. CASE Resume(h, Idle)
  BY <1>1, <1>3, BackingQuiet DEF Carried, Idle
<1> QED
  BY <1>2, <1>3 DEF FindProfile, Finish

\* The row that is written owes what its handler, or its former self, did.
LEMMA BackingWrite ==
  ASSUME Inv, Backing, UNCHANGED <<records, overwritten>>,
         NEW h \in Operators, NEW f, Resume(h, f),
         f.at = "audit", NEW x, NEW row, OwedFrame(row),
         \A y \in DOMAIN runs' : runs'[y] = row \/ (y \in DOMAIN runs /\ runs'[y] = runs[y])
  PROVE  Backing'
<1>1. \A y \in DOMAIN runs' : \E r : r = runs'[y] /\ OwedFrame(r)
  BY DEF Backing, OwedFrame
<1>2. ~Carried(f)
  BY DEF Carried
<1> QED
  BY <1>1, <1>2, BackingStep

LEMMA BackingInsert ==
  ASSUME Inv, Backing, UNCHANGED <<records, overwritten>>, NEW h \in Operators, Insert(h)
  PROVE  Backing'
<1> PICK f : f = desk[h]
  OBVIOUS
<1>1. Shaped(f) /\ OwedFrame(f)
  BY Current DEF Insert, Backing, Carried, OwedFrame
<1> PICK row : row = NewRun(f)
  OBVIOUS
<1>2. OwedFrame(row)
  BY <1>1 DEF NewRun, OwedFrame
<1> PICK k : k = [f EXCEPT !.at = "audit"]
  OBVIOUS
<1>3. k.at = "audit" /\ Resume(h, k)
  BY <1>1 DEF Insert, Shaped
<1>4. \A y \in DOMAIN runs' : runs'[y] = row \/ (y \in DOMAIN runs /\ runs'[y] = runs[y])
  BY DEF Insert
<1> QED
  BY <1>2, <1>3, <1>4, BackingWrite

LEMMA BackingConfirm ==
  ASSUME Inv, Backing, UNCHANGED <<records, overwritten>>, NEW h \in Operators, Confirm(h)
  PROVE  Backing'
<1> PICK f : f = desk[h]
  OBVIOUS
<1>1. Shaped(f) /\ f.run \in DOMAIN runs
  BY Current DEF Confirm, Placed
<1> PICK old : old = runs[f.run]
  OBVIOUS
<1> PICK row : row = ConfirmedRow(old)
  OBVIOUS
<1>2. RowShaped(old) /\ OwedFrame(old)
  BY <1>1, CurrentRun DEF Backing, OwedFrame
<1>3. /\ row.employee = old.employee /\ row.period = old.period
      /\ row.count = old.count /\ row.gross = old.gross
  BY <1>2 DEF ConfirmedRow, RowShaped
<1>4. OwedFrame(row)
  BY <1>2, <1>3 DEF OwedFrame
<1> PICK k : k = [f EXCEPT !.at = "audit"]
  OBVIOUS
<1>5. k.at = "audit" /\ Resume(h, k)
  BY <1>1 DEF Confirm, Shaped
<1>6. \A y \in DOMAIN runs' : runs'[y] = row \/ (y \in DOMAIN runs /\ runs'[y] = runs[y])
  BY DEF Confirm
<1> QED
  BY <1>4, <1>5, <1>6, BackingWrite

LEMMA BackingOthers ==
  ASSUME Inv, Backing, UNCHANGED <<records, overwritten>>, NEW h \in Operators,
         OpenSome(h) \/ Refuse(h) \/ Crash(h) \/ FindRun(h) \/ Upsert(h)
         \/ ReadProfile(h) \/ Audit(h) \/ Publish(h)
  PROVE  Backing'
<1>1. UNCHANGED runs
  BY DEF OpenSome, OpenPreview, OpenConfirm, OpenUpsert, OpenRead, Receive, Refuse, Crash,
         FindRun, Upsert, ReadProfile, Audit, Publish
<1>2. ASSUME NEW f, Resume(h, f), f.at \notin {"findProfile", "insert"}
      PROVE  Backing'
  BY <1>1, <1>2, BackingQuiet DEF Carried
<1>3. ASSUME NEW op, NEW x, NEW e, NEW p, NEW d, NEW id, NEW v,
             OpenPreview(h, op, x, e, p, d, id, v)
      PROVE  Backing'
  BY <1>2, <1>3 DEF OpenPreview, Receive, Idle
<1>4. ASSUME NEW x, OpenConfirm(h, x)
      PROVE  Backing'
  BY <1>2, <1>4 DEF OpenConfirm, Receive, Idle
<1>5. ASSUME NEW id, NEW c, OpenUpsert(h, id, c)
      PROVE  Backing'
  BY <1>2, <1>5 DEF OpenUpsert, Receive, Idle
<1>6. ASSUME NEW id, OpenRead(h, id)
      PROVE  Backing'
  BY <1>2, <1>6 DEF OpenRead, Receive, Idle
<1>7. CASE Finish(h)
  BY <1>2, <1>7 DEF Finish, Idle
<1>8. ASSUME NEW at \in {"confirm", "audit", "publish"}, Resume(h, [desk[h] EXCEPT !.at = at])
      PROVE  Backing'
  <2> PICK f : f = [desk[h] EXCEPT !.at = at]
    OBVIOUS
  <2>1. f.at = at
    BY Current DEF Shaped
  <2> QED
    BY <1>2, <1>8, <2>1
<1>9. ASSUME NEW v, Resume(h, [desk[h] EXCEPT !.at = "audit", !.version = v])
      PROVE  Backing'
  <2> PICK f : f = [desk[h] EXCEPT !.at = "audit", !.version = v]
    OBVIOUS
  <2>1. f.at = "audit"
    BY Current DEF Shaped
  <2> QED
    BY <1>2, <1>9, <2>1
<1>10. CASE OpenSome(h)
  BY <1>3, <1>4, <1>5, <1>6, <1>10 DEF OpenSome
<1> QED
  BY <1>7, <1>8, <1>9, <1>10
  DEF Refuse, Crash, FindRun, Upsert, ReadProfile, Audit, Publish

LEMMA NextBacking ==
  Inv /\ Typing /\ Recorded /\ Recorded' /\ Late /\ Backing /\ [PayPeriodNext]_vars =>
    Backing'
<1> SUFFICES ASSUME Inv, Typing, Recorded, Recorded', Late, Backing, [PayPeriodNext]_vars
             PROVE  Backing'
  OBVIOUS
<1>1. CASE UNCHANGED payroll
  BY <1>1, NextLate, BackedByAttendance DEF payroll
<1>2. ASSUME UNCHANGED <<records, overwritten>>, NEW h \in Operators,
             OpenSome(h) \/ Refuse(h) \/ Crash(h) \/ Work(h)
      PROVE  Backing'
  BY <1>2, BackingOthers, BackingList, BackingFindProfile, BackingInsert, BackingConfirm
  DEF Work
<1> QED
  BY <1>1, <1>2 DEF PayPeriodNext, vars, Next, Serve

LEMMA PaydayBacking == PayPeriodSpec => []Backing
<1>1. PayPeriodInit => Backing
  BY DEF PayPeriodInit, Init, Backing, Carried, Idle
<1> QED
  BY <1>1, NextBacking, RecordedTable, PaydayLate, PaydayTable, PaydayIsPayroll,
     PayrollInvariance, PayrollTyping, PTL DEF PayPeriodSpec

\* Every run, whenever it was previewed and however clerks and operators race,
\* pays what approved records of its period and employee amount to: records that
\* are approved now, or were until a write that came after their decision.
THEOREM PaidIsAlwaysBacked == PayPeriodSpec => []PaidIsBacked
<1>1. Backing => PaidIsBacked
  BY DEF Backing, Owed, Countable, PaidIsBacked
<1> QED
  BY <1>1, PaydayBacking, PTL
=============================================================================
