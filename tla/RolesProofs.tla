----------------------------- MODULE RolesProofs -----------------------------
(***************************************************************************)
(* What holds of Roles for any number of requests, roles, permissions and  *)
(* crashes, whatever the defaults and the seed.                            *)
(***************************************************************************)
EXTENDS Roles, TLAPS

\* What a handler relies on at each step.
Placed(f) ==
  /\ f.at # "idle" => f.actor \in ActorRoles
  /\ f.role # Nil => f.need = rbacManage /\ f.list \in Lists
  /\ f.at \in Writing \cup {"find"} => f.role \in RoleIds
  /\ f.at \in Writing => f.list \subseteq Permissions
  /\ f.at \in {"clear", "grant", "read"} => ~deployed.memory
  /\ f.at \in {"clear", "grant"} => f.role \in DOMAIN roles

\* The inductive invariant.  Roles are never deleted, so those of the seed stay.
Inv ==
  /\ TypeOK
  /\ \A h \in Handlers : Placed(frame[h])
  /\ ActorRoles \subseteq DOMAIN roles
  /\ StoredIsExplained

-----------------------------------------------------------------------------
(* What explains a role's permissions is never lost. *)

\* The list of an upsert that is writing stays with its handler until the audit
\* log or the history has it.
Kept(h) ==
  frame[h].at \in Writing =>
    \/ /\ frame'[h].at \in Writing
       /\ frame'[h].role = frame[h].role /\ frame'[h].list = frame[h].list
    \/ [role |-> frame[h].role, list |-> frame[h].list] \in audited'
    \/ frame[h].list \in lost'[frame[h].role]

Remembers ==
  /\ deployed' = deployed
  /\ audited \subseteq audited'
  /\ \A r \in RoleIds : lost[r] \subseteq lost'[r]
  /\ \A h \in Handlers : Kept(h)

LEMMA ExplainedGrows ==
  ASSUME Remembers, NEW r \in RoleIds
  PROVE  Explained(r) \subseteq Explained(r)'
<1> SUFFICES ASSUME NEW l \in Explained(r)
             PROVE  l \in Explained(r)'
  OBVIOUS
<1>1. CASE l \in {Seeded[x] : x \in ActorRoles \cap {r}}
  BY <1>1 DEF Remembers, Explained, Seeded
<1>2. CASE l \in {b.list : b \in {b \in audited : b.role = r}}
  BY <1>2 DEF Remembers, Explained
<1>3. CASE l \in lost[r]
  BY <1>3 DEF Remembers, Explained
<1>4. ASSUME NEW h \in Handlers, frame[h].role = r, frame[h].at \in Writing,
             l = frame[h].list
      PROVE  l \in Explained(r)'
  <2>1. CASE /\ frame'[h].at \in Writing
             /\ frame'[h].role = frame[h].role /\ frame'[h].list = frame[h].list
    BY <1>4, <2>1 DEF Explained, Writing
  <2>2. CASE [role |-> frame[h].role, list |-> frame[h].list] \in audited'
    <3>1. [role |-> r, list |-> l] \in {b \in audited' : b.role = r}
      BY <1>4, <2>2
    <3> QED
      BY <3>1 DEF Explained
  <2>3. CASE frame[h].list \in lost'[frame[h].role]
    BY <1>4, <2>3 DEF Explained
  <2> QED
    BY <1>4, <2>1, <2>2, <2>3 DEF Remembers, Kept
<1> QED
  BY <1>1, <1>2, <1>3, <1>4 DEF Explained

\* What StoredIsExplained says of one role.
Backed(r) ==
  IF deployed.memory THEN roles[r] \in Explained(r)
  ELSE \E ls \in SUBSET Explained(r) :
         roles[r] = UNION ls /\ (ls = {} => InRewrite(r))

\* A role whose permissions a step leaves alone stays explained.
LEMMA BackedStays ==
  ASSUME Remembers, NEW r \in RoleIds, Backed(r), roles'[r] = roles[r],
         InRewrite(r) => InRewrite(r)'
  PROVE  Backed(r)'
<1>1. Explained(r) \subseteq Explained(r)' /\ deployed' = deployed
  BY ExplainedGrows DEF Remembers
<1>2. CASE deployed.memory
  BY <1>1, <1>2 DEF Backed
<1>3. CASE ~deployed.memory
  <2>1. PICK ls \in SUBSET Explained(r) :
          roles[r] = UNION ls /\ (ls = {} => InRewrite(r))
    BY <1>3 DEF Backed
  <2>2. ls \in SUBSET (Explained(r)')
    BY <1>1
  <2>3. roles'[r] = UNION ls /\ (ls = {} => InRewrite(r)')
    BY <2>1
  <2> QED
    BY <1>1, <1>3, <2>2, <2>3 DEF Backed
<1> QED
  BY <1>2, <1>3

-----------------------------------------------------------------------------
(* The parts all steps have in common. *)

LEMMA IdleFrame == Idle \in Frame /\ Placed(Idle) /\ Idle.at = "idle"
  BY RolesAssumption DEF Idle, Frame, Steps, Placed, Writing

LEMMA FrameStep ==
  ASSUME Inv, NEW h \in Handlers, NEW f \in Frame,
         frame' = [frame EXCEPT ![h] = f], Placed(f)',
         DOMAIN roles \subseteq DOMAIN roles', deployed' = deployed
  PROVE  /\ frame' \in [Handlers -> Frame]
         /\ (\A g \in Handlers : Placed(frame[g]))'
         /\ (ActorRoles \subseteq DOMAIN roles)'
<1>1. frame \in [Handlers -> Frame]
  BY DEF Inv, TypeOK
<1>2. frame' \in [Handlers -> Frame]
  BY <1>1
<1>3. ASSUME NEW g \in Handlers
      PROVE  Placed(frame[g])'
  <2>1. CASE g = h
    <3>1. frame'[g] = f
      BY <1>1, <2>1
    <3> QED
      BY <3>1 DEF Placed
  <2>2. CASE g # h
    <3>1. frame'[g] = frame[g] /\ Placed(frame[g])
      BY <1>1, <2>2 DEF Inv
    <3> QED
      BY <3>1 DEF Placed
  <2> QED
    BY <2>1, <2>2
<1> QED
  BY <1>2, <1>3 DEF Inv

\* A step that leaves the tables and the audit log alone.
LEMMA LocalStep ==
  ASSUME Inv, NEW h \in Handlers, NEW f \in Frame,
         frame' = [frame EXCEPT ![h] = f], Placed(f),
         UNCHANGED <<deployed, roles, audited>>, crashes' \in 0 .. MaxCrashes,
         lost' \in [RoleIds -> SUBSET Lists],
         \A r \in RoleIds : lost[r] \subseteq lost'[r],
         Kept(h),
         frame[h].at \in {"clear", "grant"} => crashes' > 0,
         crashes > 0 => crashes' > 0
  PROVE  Inv'
<1>1. frame \in [Handlers -> Frame]
  BY DEF Inv, TypeOK
<1>2. /\ frame' \in [Handlers -> Frame]
      /\ (\A g \in Handlers : Placed(frame[g]))'
      /\ (ActorRoles \subseteq DOMAIN roles)'
  <2>1. Placed(f)'
    BY DEF Placed
  <2> QED
    BY <2>1, FrameStep
<1>3. TypeOK'
  BY <1>2 DEF Inv, TypeOK
<1>4. Remembers
  <2>1. \A g \in Handlers \ {h} : Kept(g)
    BY <1>1 DEF Kept
  <2> QED
    BY <2>1 DEF Remembers
<1>5. ASSUME NEW r \in DOMAIN roles
      PROVE  Backed(r)'
  <2>1. r \in RoleIds /\ Backed(r)
    BY DEF Inv, TypeOK, StoredIsExplained, Backed
  <2>2. InRewrite(r) => InRewrite(r)'
    <3>1. CASE ~deployed.memory /\ crashes > 0
      BY <3>1 DEF InRewrite
    <3>2. ASSUME NEW g \in Handlers, frame[g].role = r, frame[g].at \in {"clear", "grant"}
          PROVE  InRewrite(r)'
      <4>1. CASE g = h
        <5>1. ~deployed.memory /\ crashes' > 0
          BY <3>2, <4>1 DEF Inv, Placed
        <5> QED
          BY <5>1 DEF InRewrite
      <4>2. CASE g # h
        <5>1. frame'[g] = frame[g]
          BY <1>1, <4>2
        <5> QED
          BY <3>2, <5>1 DEF InRewrite
      <4> QED
        BY <4>1, <4>2
    <3> QED
      BY <3>1, <3>2 DEF InRewrite
  <2> QED
    BY <1>4, <2>1, <2>2, BackedStays
<1>6. StoredIsExplained'
  BY <1>5 DEF StoredIsExplained, Backed
<1> QED
  BY <1>2, <1>3, <1>6 DEF Inv

\* A step of the upsert of role r that writes the tables or the audit log.
LEMMA StoreStep ==
  ASSUME Inv, NEW h \in Handlers, NEW f \in Frame, NEW r \in RoleIds,
         frame' = [frame EXCEPT ![h] = f], Placed(f)', Kept(h),
         UNCHANGED <<deployed, crashes, lost>>,
         audited \subseteq audited', audited' \subseteq [role : RoleIds, list : Lists],
         DOMAIN roles \subseteq DOMAIN roles', DOMAIN roles' \subseteq DOMAIN roles \cup {r},
         \A x \in DOMAIN roles \ {r} : roles'[x] = roles[x],
         r \in DOMAIN roles' => roles'[r] \subseteq Permissions /\ Backed(r)',
         frame[h].at \in {"clear", "grant"} => frame[h].role = r
  PROVE  Inv'
<1>1. frame \in [Handlers -> Frame]
  BY DEF Inv, TypeOK
<1>2. /\ frame' \in [Handlers -> Frame]
      /\ (\A g \in Handlers : Placed(frame[g]))'
      /\ (ActorRoles \subseteq DOMAIN roles)'
  BY FrameStep
<1>3. TypeOK'
  BY <1>2 DEF Inv, TypeOK
<1>4. Remembers
  <2>1. \A g \in Handlers \ {h} : Kept(g)
    BY <1>1 DEF Kept
  <2> QED
    BY <2>1 DEF Remembers
<1>5. ASSUME NEW x \in DOMAIN roles'
      PROVE  Backed(x)'
  <2>1. CASE x = r
    BY <2>1
  <2>2. CASE x # r
    <3>1. x \in RoleIds /\ Backed(x) /\ roles'[x] = roles[x]
      BY <2>2 DEF Inv, TypeOK, StoredIsExplained, Backed
    <3>2. InRewrite(x) => InRewrite(x)'
      BY <1>1, <2>2 DEF InRewrite
    <3> QED
      BY <1>4, <3>1, <3>2, BackedStays
  <2> QED
    BY <2>1, <2>2
<1>6. StoredIsExplained'
  BY <1>5 DEF StoredIsExplained, Backed
<1> QED
  BY <1>2, <1>3, <1>6 DEF Inv

\* The list of a handler that is writing explains its role.
LEMMA OwnList ==
  ASSUME NEW h \in Handlers, NEW r \in RoleIds,
         frame'[h].at \in Writing, frame'[h].role = r
  PROVE  frame'[h].list \in Explained(r)'
  BY DEF Explained

LEMMA CurrentFrame ==
  ASSUME Inv, NEW h \in Handlers
  PROVE  /\ frame[h] \in Frame /\ Placed(frame[h])
         /\ \A at \in Steps : [frame[h] EXCEPT !.at = at] \in Frame
         /\ lost \in [RoleIds -> SUBSET Lists] /\ crashes \in 0 .. MaxCrashes
  BY DEF Inv, TypeOK, Frame

-----------------------------------------------------------------------------
(* One lemma for each action. *)

LEMMA OpenStep ==
  ASSUME Inv, NEW h \in Handlers, OpenSome(h)
  PROVE  Inv'
<1> PICK a \in ActorRoles :
      \/ \E p \in Needs : OpenRequest(h, a, p)
      \/ \E r \in RoleIds, l \in Lists : OpenUpsert(h, a, r, l)
  BY DEF OpenSome
<1>1. ASSUME NEW f \in Frame, Open(h, f), Placed(f)
      PROVE  Inv'
  <2>1. Kept(h) /\ frame[h].at = "idle"
    BY <1>1 DEF Open, Kept, Writing
  <2> QED
    BY <1>1, <2>1, CurrentFrame, LocalStep DEF Open
<1>2. ASSUME NEW p \in Needs, OpenRequest(h, a, p)
      PROVE  Inv'
  <2> DEFINE f == [Idle EXCEPT !.at = "check", !.actor = a, !.need = p]
  <2>1. f \in Frame /\ Placed(f)
    BY IdleFrame, RolesAssumption DEF Frame, Steps, Idle, Placed, Writing
  <2> QED
    BY <1>1, <1>2, <2>1 DEF OpenRequest
<1>3. ASSUME NEW r \in RoleIds, NEW l \in Lists, OpenUpsert(h, a, r, l)
      PROVE  Inv'
  <2> DEFINE f == [Idle EXCEPT !.at = "check", !.actor = a, !.role = r, !.list = l]
  <2>1. f \in Frame /\ Placed(f)
    BY IdleFrame, RolesAssumption DEF Frame, Steps, Idle, Placed, Writing
  <2> QED
    BY <1>1, <1>3, <2>1 DEF OpenUpsert
<1> QED
  BY <1>2, <1>3

\* The steps that only move a handler on.
LEMMA ReadStep ==
  ASSUME Inv, NEW h \in Handlers,
         Check(h) \/ Answer(h) \/ FindRole(h) \/ ReadBack(h)
  PROVE  Inv'
<1>1. ASSUME NEW at \in Steps, Continue(h, at), Placed([frame[h] EXCEPT !.at = at]),
             UNCHANGED <<deployed, roles, audited, crashes, lost>>,
             frame[h].at \notin {"clear", "grant"},
             frame[h].at \in Writing => at \in Writing
      PROVE  Inv'
  <2> DEFINE f == [frame[h] EXCEPT !.at = at]
  <2>1. f \in Frame /\ frame' = [frame EXCEPT ![h] = f]
    BY <1>1, CurrentFrame DEF Continue
  <2>2. Kept(h)
    BY <1>1, CurrentFrame DEF Kept, Continue, Inv, TypeOK, Frame
  <2> QED
    BY <1>1, <2>1, <2>2, CurrentFrame, LocalStep
<1>2. ASSUME Finish(h), UNCHANGED <<deployed, roles, audited, crashes, lost>>,
             frame[h].at \notin Writing
      PROVE  Inv'
  <2>1. Kept(h)
    BY <1>2 DEF Kept
  <2> QED
    BY <1>2, <2>1, CurrentFrame, IdleFrame, LocalStep DEF Finish, Writing
<1>3. CASE Check(h)
  <2>1. \A at \in {"refused", "served", "find"} :
          (at = "find" => frame[h].role # Nil) => Placed([frame[h] EXCEPT !.at = at])
    BY <1>3, CurrentFrame DEF Check, Placed, Frame, Writing
  <2>2. \E at \in {"refused", "served", "find"} :
          Continue(h, at) /\ (at = "find" => frame[h].role # Nil)
    BY <1>3 DEF Check
  <2> QED
    BY <1>1, <1>3, <2>1, <2>2 DEF Check, Steps, Writing
<1>4. CASE Answer(h)
  BY <1>2, <1>4 DEF Answer, Writing
<1>5. CASE FindRole(h)
  <2>1. CASE Finish(h)
    BY <1>2, <1>5, <2>1 DEF FindRole, Writing
  <2>2. CASE frame[h].list \subseteq Permissions /\ Continue(h, "upsert")
    <3>1. Placed([frame[h] EXCEPT !.at = "upsert"])
      BY <1>5, <2>2, CurrentFrame DEF FindRole, Placed, Frame, Writing
    <3> QED
      BY <1>1, <1>5, <2>2, <3>1 DEF FindRole, Steps, Writing
  <2> QED
    BY <1>5, <2>1, <2>2 DEF FindRole
<1>6. CASE ReadBack(h)
  <2>1. Placed([frame[h] EXCEPT !.at = "audit"])
    BY <1>6, CurrentFrame DEF ReadBack, Placed, Frame, Writing
  <2> QED
    BY <1>1, <1>6, <2>1 DEF ReadBack, Steps, Writing
<1> QED
  BY <1>3, <1>4, <1>5, <1>6

LEMMA CrashStep ==
  ASSUME Inv, NEW h \in Handlers, Crash(h)
  PROVE  Inv'
<1>1. frame[h].at \in Writing => frame[h].role \in RoleIds /\ frame[h].list \in Lists
  BY CurrentFrame, RolesAssumption DEF Placed, Writing
<1>2. lost' \in [RoleIds -> SUBSET Lists]
  BY <1>1, CurrentFrame DEF Crash
<1>3. \A r \in RoleIds : lost[r] \subseteq lost'[r]
  BY <1>1, CurrentFrame DEF Crash
<1>4. Kept(h)
  BY <1>1, CurrentFrame DEF Crash, Kept
<1>5. crashes' \in 0 .. MaxCrashes /\ crashes' > 0
  BY CurrentFrame, RolesAssumption DEF Crash
<1> QED
  BY <1>2, <1>3, <1>4, <1>5, IdleFrame, LocalStep DEF Crash, Finish

\* The parts of StoreStep that the steps of an upsert share.
LEMMA UpsertFrame ==
  ASSUME Inv, NEW h \in Handlers, NEW at \in Steps, Continue(h, at),
         frame[h].at \in Writing, at \in Writing
  PROVE  LET f == [frame[h] EXCEPT !.at = at]
         IN  /\ f \in Frame /\ frame' = [frame EXCEPT ![h] = f]
             /\ frame'[h] = f
             /\ f.at = at /\ f.role = frame[h].role /\ f.list = frame[h].list
             /\ f.actor = frame[h].actor /\ f.need = frame[h].need
             /\ f.role \in RoleIds /\ f.list \subseteq Permissions
             /\ Kept(h)
<1> DEFINE f == [frame[h] EXCEPT !.at = at]
<1>1. f \in Frame /\ Placed(frame[h])
  BY CurrentFrame
<1>2. /\ f.at = at /\ f.role = frame[h].role /\ f.list = frame[h].list
      /\ f.actor = frame[h].actor /\ f.need = frame[h].need
  BY CurrentFrame DEF Frame
<1>3. frame' = [frame EXCEPT ![h] = f] /\ frame'[h] = f
  BY DEF Continue, Inv, TypeOK
<1>4. f.role \in RoleIds /\ f.list \subseteq Permissions
  BY <1>1, <1>2 DEF Placed
<1>5. Kept(h)
  BY <1>2, <1>3 DEF Kept
<1> QED
  BY <1>1, <1>2, <1>3, <1>4, <1>5

LEMMA UpsertInMemoryStep ==
  ASSUME Inv, NEW h \in Handlers, UpsertInMemory(h)
  PROVE  Inv'
<1> PICK f : f = [frame[h] EXCEPT !.at = "audit"]
  OBVIOUS
<1>1. /\ f \in Frame /\ frame' = [frame EXCEPT ![h] = f] /\ frame'[h] = f
      /\ f.at = "audit" /\ f.role = frame[h].role /\ f.list = frame[h].list
      /\ f.actor = frame[h].actor /\ f.need = frame[h].need
      /\ f.role \in RoleIds /\ f.list \subseteq Permissions /\ Kept(h)
  BY UpsertFrame DEF UpsertInMemory, Steps, Writing
<1>2. roles' = [x \in DOMAIN roles \cup {f.role} |-> IF x = f.role THEN f.list ELSE roles[x]]
  BY <1>1 DEF UpsertInMemory, Replaced
<1>3. Placed(f)'
  BY <1>1, CurrentFrame DEF UpsertInMemory, Placed, Writing
<1>4. Backed(f.role)'
  <2>1. f.list \in Explained(f.role)'
    BY <1>1, OwnList DEF Writing
  <2> QED
    BY <1>1, <1>2, <2>1 DEF UpsertInMemory, Backed
<1>5. /\ DOMAIN roles' = DOMAIN roles \cup {f.role} /\ roles'[f.role] = f.list
      /\ \A x \in DOMAIN roles \ {f.role} : roles'[x] = roles[x]
  BY <1>2
<1>6. /\ UNCHANGED <<deployed, crashes, lost, audited>> /\ frame[h].at = "upsert"
      /\ audited \subseteq [role : RoleIds, list : Lists]
  BY DEF UpsertInMemory, Inv, TypeOK
<1> QED
  BY <1>1, <1>3, <1>4, <1>5, <1>6, StoreStep

LEMMA UpsertRowStep ==
  ASSUME Inv, NEW h \in Handlers, UpsertRow(h)
  PROVE  Inv'
<1> PICK f : f = [frame[h] EXCEPT !.at = "clear"]
  OBVIOUS
<1>1. /\ f \in Frame /\ frame' = [frame EXCEPT ![h] = f] /\ frame'[h] = f
      /\ f.at = "clear" /\ f.role = frame[h].role /\ f.list = frame[h].list
      /\ f.actor = frame[h].actor /\ f.need = frame[h].need
      /\ f.role \in RoleIds /\ f.list \subseteq Permissions /\ Kept(h)
  BY UpsertFrame DEF UpsertRow, Steps, Writing
<1>2. roles' = [x \in DOMAIN roles \cup {f.role} |->
                  IF x = f.role THEN Stored(f.role) ELSE roles[x]]
  BY <1>1 DEF UpsertRow, Replaced
<1>3. Placed(f)'
  BY <1>1, <1>2, CurrentFrame DEF UpsertRow, Placed, Writing
<1>4. Stored(f.role) \subseteq Permissions
  BY DEF Stored, Inv, TypeOK
<1>5. Backed(f.role)'
  <2>1. InRewrite(f.role)'
    BY <1>1 DEF InRewrite
  <2>2. CASE f.role \in DOMAIN roles
    <3>1. Backed(f.role)
      BY <2>2 DEF Inv, StoredIsExplained, Backed
    <3>2. Remembers
      <4>1. \A g \in Handlers \ {h} : Kept(g)
        BY <1>1 DEF Kept, Inv, TypeOK
      <4> QED
        BY <1>1, <4>1 DEF Remembers, UpsertRow
    <3> QED
      BY <1>1, <1>2, <2>1, <2>2, <3>1, <3>2, BackedStays DEF Stored
  <2>3. CASE f.role \notin DOMAIN roles
    <3>1. roles'[f.role] = UNION {} /\ {} \in SUBSET (Explained(f.role)')
      BY <1>2, <2>3 DEF Stored
    <3> QED
      BY <2>1, <3>1 DEF Backed, UpsertRow
  <2> QED
    BY <2>2, <2>3
<1>6. /\ DOMAIN roles' = DOMAIN roles \cup {f.role} /\ roles'[f.role] = Stored(f.role)
      /\ \A x \in DOMAIN roles \ {f.role} : roles'[x] = roles[x]
  BY <1>2
<1>7. /\ UNCHANGED <<deployed, crashes, lost, audited>> /\ frame[h].at = "upsert"
      /\ audited \subseteq [role : RoleIds, list : Lists]
  BY DEF UpsertRow, Inv, TypeOK
<1> QED
  BY <1>1, <1>3, <1>4, <1>5, <1>6, <1>7, StoreStep

LEMMA ClearStep ==
  ASSUME Inv, NEW h \in Handlers, Clear(h)
  PROVE  Inv'
<1> PICK at \in {"read", "grant"} : at = IF frame[h].list = {} THEN "read" ELSE "grant"
  OBVIOUS
<1> PICK f : f = [frame[h] EXCEPT !.at = at]
  OBVIOUS
<1>1. /\ f \in Frame /\ frame' = [frame EXCEPT ![h] = f] /\ frame'[h] = f
      /\ f.at = at /\ f.role = frame[h].role /\ f.list = frame[h].list
      /\ f.actor = frame[h].actor /\ f.need = frame[h].need
      /\ f.role \in RoleIds /\ f.list \subseteq Permissions /\ Kept(h)
  <2>1. Continue(h, at) /\ frame[h].at \in Writing /\ at \in Writing /\ at \in Steps
    BY DEF Clear, Steps, Writing
  <2> QED
    BY <2>1, UpsertFrame
<1>2. /\ f.role \in DOMAIN roles /\ ~deployed.memory
      /\ roles' = [roles EXCEPT ![f.role] = {}]
  BY <1>1, CurrentFrame DEF Clear, Cleared, Placed
<1>3. Placed(f)'
  BY <1>1, <1>2, CurrentFrame DEF Clear, Placed, Writing
<1>4. Backed(f.role)'
  <2>1. CASE f.list = {}
    <3>1. {} \in Explained(f.role)'
      <4>1. frame'[h].at \in Writing /\ frame'[h].role = f.role /\ frame'[h].list = {}
        BY <1>1, <2>1 DEF Writing
      <4> QED
        BY <1>1, <4>1, OwnList
    <3>2. roles'[f.role] = UNION {{}} /\ {{}} \in SUBSET (Explained(f.role)')
      BY <1>2, <3>1
    <3> QED
      BY <1>2, <3>2 DEF Backed, Clear
  <2>2. CASE f.list # {}
    <3>1. InRewrite(f.role)'
      BY <1>1, <2>2 DEF InRewrite
    <3>2. roles'[f.role] = UNION {} /\ {} \in SUBSET (Explained(f.role)')
      BY <1>2
    <3> QED
      BY <1>2, <3>1, <3>2 DEF Backed, Clear
  <2> QED
    BY <2>1, <2>2
<1> QED
  BY <1>1, <1>2, <1>3, <1>4, StoreStep DEF Clear, Inv, TypeOK

LEMMA GrantStep ==
  ASSUME Inv, NEW h \in Handlers, Grant(h)
  PROVE  Inv'
<1> PICK f : f = [frame[h] EXCEPT !.at = "read"]
  OBVIOUS
<1>1. /\ f \in Frame /\ frame' = [frame EXCEPT ![h] = f] /\ frame'[h] = f
      /\ f.at = "read" /\ f.role = frame[h].role /\ f.list = frame[h].list
      /\ f.actor = frame[h].actor /\ f.need = frame[h].need
      /\ f.role \in RoleIds /\ f.list \subseteq Permissions /\ Kept(h)
  BY UpsertFrame DEF Grant, Steps, Writing
<1>2. /\ f.role \in DOMAIN roles /\ ~deployed.memory
      /\ roles' = [roles EXCEPT ![f.role] = @ \cup f.list]
  BY <1>1, CurrentFrame DEF Grant, Placed
<1>3. Placed(f)'
  BY <1>1, <1>2, CurrentFrame DEF Grant, Placed, Writing
<1>4. Remembers
  <2>1. \A g \in Handlers \ {h} : Kept(g)
    BY <1>1 DEF Kept, Inv, TypeOK
  <2> QED
    BY <1>1, <2>1 DEF Remembers, Grant
<1>5. Backed(f.role)'
  <2>1. PICK ls \in SUBSET Explained(f.role) : roles[f.role] = UNION ls
    BY <1>2 DEF Inv, StoredIsExplained
  <2>2. f.list \in Explained(f.role)'
    BY <1>1, OwnList DEF Writing
  <2>3. ls \cup {f.list} \in SUBSET (Explained(f.role)')
    BY <1>1, <1>4, <2>2, ExplainedGrows
  <2>4. roles'[f.role] = UNION (ls \cup {f.list})
    <3>1. UNION (ls \cup {f.list}) = (UNION ls) \cup f.list
      OBVIOUS
    <3> QED
      BY <1>2, <2>1, <3>1
  <2> QED
    BY <1>2, <2>3, <2>4 DEF Backed, Grant
<1>6. roles'[f.role] \subseteq Permissions
  BY <1>1, <1>2 DEF Inv, TypeOK
<1> QED
  BY <1>1, <1>2, <1>3, <1>5, <1>6, StoreStep DEF Grant, Inv, TypeOK

LEMMA AuditStep ==
  ASSUME Inv, NEW h \in Handlers, Audit(h)
  PROVE  Inv'
<1>1. /\ frame[h].role \in RoleIds /\ frame[h].list \in Lists
      /\ frame[h].at = "audit"
  BY CurrentFrame, RolesAssumption DEF Audit, Placed, Writing
<1> PICK r \in RoleIds : r = frame[h].role
  BY <1>1
<1>2. Kept(h)
  BY DEF Audit, Kept
<1>3. /\ audited \subseteq audited' /\ audited' \subseteq [role : RoleIds, list : Lists]
      /\ frame' = [frame EXCEPT ![h] = Idle]
      /\ UNCHANGED <<deployed, roles, crashes, lost>>
  BY <1>1 DEF Audit, Finish, Inv, TypeOK
<1>4. Remembers
  <2>1. \A g \in Handlers \ {h} : Kept(g)
    BY DEF Kept, Audit, Finish, Inv, TypeOK
  <2> QED
    BY <1>2, <2>1 DEF Remembers, Audit
<1>5. ASSUME r \in DOMAIN roles
      PROVE  roles'[r] \subseteq Permissions /\ Backed(r)'
  <2>1. Backed(r) /\ roles[r] \subseteq Permissions
    BY <1>5 DEF Inv, TypeOK, StoredIsExplained, Backed
  <2>2. InRewrite(r) => InRewrite(r)'
    <3>1. \A g \in Handlers : frame[g].at \in {"clear", "grant"} => frame'[g] = frame[g]
      BY <1>1 DEF Audit, Finish, Inv, TypeOK
    <3> QED
      BY <3>1 DEF InRewrite, Audit
  <2> QED
    BY <1>3, <1>4, <2>1, <2>2, BackedStays
<1>6. Placed(Idle)'
  BY IdleFrame DEF Placed, Audit, Idle, Writing
<1> QED
  BY <1>1, <1>2, <1>3, <1>5, <1>6, IdleFrame, StoreStep

-----------------------------------------------------------------------------
LEMMA InitInv == Init => Inv
<1> SUFFICES ASSUME Init PROVE Inv
  OBVIOUS
<1>1. Seeded \in [ActorRoles -> SUBSET Permissions]
  BY RolesAssumption DEF Seeded
<1>2. TypeOK
  BY <1>1, IdleFrame, RolesAssumption DEF Init, TypeOK
<1>3. \A h \in Handlers : Placed(frame[h])
  BY IdleFrame DEF Init
<1>4. ASSUME NEW r \in DOMAIN roles
      PROVE  Backed(r)
  <2>1. roles[r] \in Explained(r)
    BY <1>1 DEF Init, Explained
  <2>2. roles[r] = UNION {roles[r]} /\ {roles[r]} \in SUBSET Explained(r)
    BY <2>1
  <2> QED
    BY <2>1, <2>2 DEF Backed
<1> QED
  BY <1>1, <1>2, <1>3, <1>4 DEF Inv, Init, StoredIsExplained, Backed

LEMMA NextInv == Inv /\ [Next]_vars => Inv'
<1> SUFFICES ASSUME Inv, [Next]_vars PROVE Inv'
  OBVIOUS
<1>1. ASSUME NEW h \in Handlers, OpenSome(h) \/ Work(h) \/ Crash(h)
      PROVE  Inv'
  BY <1>1, OpenStep, ReadStep, CrashStep, UpsertInMemoryStep, UpsertRowStep,
     ClearStep, GrantStep, AuditStep DEF Work
<1>2. CASE UNCHANGED vars
  <2>1. TypeOK'
    BY <1>2 DEF vars, Inv, TypeOK
  <2>2. (\A h \in Handlers : Placed(frame[h]))'
    BY <1>2 DEF vars, Inv, Placed
  <2>3. StoredIsExplained'
    BY <1>2 DEF vars, Inv, StoredIsExplained, Explained, Seeded, InRewrite
  <2> QED
    BY <1>2, <2>1, <2>2, <2>3 DEF vars, Inv
<1> QED
  BY <1>1, <1>2 DEF Next

\* The inductive invariant holds whatever the requests and their interleaving.
THEOREM RoleInvariance == Spec => []Inv
  BY InitInv, NextInv, PTL DEF Spec

\* Roles, audit log and handlers keep their types.
THEOREM RoleTypes == Spec => []TypeOK
<1>1. Inv => TypeOK
  BY DEF Inv
<1> QED
  BY <1>1, RoleInvariance, PTL

\* Whatever upserts overlap or die half way, what a role holds is made of whole
\* lists that somebody with rbac.manage asked for, or of the seed.
THEOREM PermissionsAreExplained == Spec => []StoredIsExplained
<1>1. Inv => StoredIsExplained
  BY DEF Inv
<1> QED
  BY <1>1, RoleInvariance, PTL

\* Once no actor's role can manage roles, no request ever changes one.
THEOREM LockoutsAreFinal == Spec => LockoutIsFinal
<1>1. ASSUME Inv, LockedOut, [Next]_vars
      PROVE  LockedOut' /\ roles' = roles
  <2>1. ASSUME NEW h \in Handlers, NEW at \in Steps, Continue(h, at),
               at \notin Writing \cup {"find"}, UNCHANGED <<deployed, roles>>
        PROVE  LockedOut' /\ roles' = roles
    BY <1>1, <2>1 DEF LockedOut, Stored, Continue, Inv, TypeOK, Frame
  <2>2. ASSUME NEW h \in Handlers, NEW f \in Frame, frame' = [frame EXCEPT ![h] = f],
               f.at \notin Writing \cup {"find"}, UNCHANGED <<deployed, roles>>
        PROVE  LockedOut' /\ roles' = roles
    BY <1>1, <2>2 DEF LockedOut, Stored, Inv, TypeOK
  <2>3. ASSUME NEW h \in Handlers, OpenSome(h) \/ Work(h) \/ Crash(h)
        PROVE  LockedOut' /\ roles' = roles
    <3>1. frame[h].at \notin Writing \cup {"find"}
      BY <1>1 DEF LockedOut
    <3>2. CASE OpenSome(h)
      <4>1. \E f \in Frame : f.at = "check" /\ Open(h, f)
        BY <3>2, IdleFrame, RolesAssumption
        DEF OpenSome, OpenRequest, OpenUpsert, Frame, Steps, Idle
      <4> QED
        BY <2>2, <4>1 DEF Open, Writing
    <3>3. CASE Check(h)
      <4>1. CASE Continue(h, "find")
        <5>1. frame[h].need \in resolveActorPermissions(frame[h].actor)
              /\ frame[h].role # Nil
          BY <1>1, <3>3, <4>1 DEF Check, Continue, Inv, TypeOK, Frame, Steps
        <5> QED
          BY <1>1, <3>3, <5>1, CurrentFrame
          DEF Check, Placed, LockedOut, resolveActorPermissions
      <4>2. CASE Continue(h, "refused") \/ Continue(h, "served")
        BY <2>1, <3>3, <4>2 DEF Check, Steps, Writing
      <4> QED
        BY <3>3, <4>1, <4>2 DEF Check
    <3>4. CASE Answer(h)
      BY <2>2, <3>4, IdleFrame DEF Answer, Finish, Writing
    <3>5. CASE Crash(h)
      BY <2>2, <3>5, IdleFrame DEF Crash, Finish, Writing
    <3> QED
      BY <2>3, <3>1, <3>2, <3>3, <3>4, <3>5
      DEF Work, FindRole, UpsertInMemory, UpsertRow, Clear, Grant, ReadBack, Audit, Writing
  <2>4. CASE UNCHANGED vars
    BY <1>1, <2>4 DEF vars, LockedOut, Stored
  <2> QED
    BY <1>1, <2>3, <2>4 DEF Next
<1>2. Inv /\ [Next]_vars => [LockedOut => LockedOut' /\ roles' = roles]_vars
  BY <1>1
<1> QED
  BY <1>2, RoleInvariance, PTL DEF Spec, LockoutIsFinal

\* A check refuses and grants only what the lists behind the actor's role do.
THEOREM VerdictsAreExplained == Spec => VerdictExplained
<1> DEFINE Verdict(h) ==
      LET f == frame[h]
          lists == IF deployed.rbac THEN Explained(f.actor) ELSE {Defaults[f.actor]}
      IN  f.at = "check" =>
            /\ frame'[h].at = "refused" =>
                 \/ \E l \in lists : f.need \notin l
                 \/ deployed.rbac /\ InRewrite(f.actor)
            /\ frame'[h].at \in {"served", "find"} => \E l \in lists : f.need \in l
<1>1. ASSUME Inv, [Next]_vars, NEW h \in Handlers
      PROVE  Verdict(h)
  <2>1. SUFFICES ASSUME frame[h].at = "check", frame'[h].at \in {"refused", "served", "find"}
                 PROVE  Verdict(h)
    OBVIOUS
  <2>2. Check(h)
    <3>1. frame \in [Handlers -> Frame] /\ frame'[h] # frame[h]
      BY <1>1, <2>1 DEF Inv, TypeOK
    <3>2. PICK g \in Handlers : OpenSome(g) \/ Work(g) \/ Crash(g)
      BY <1>1, <3>1 DEF Next, vars
    <3>3. g = h
      <4>1. \E f : frame' = [frame EXCEPT ![g] = f]
        BY <3>2
        DEF OpenSome, OpenRequest, OpenUpsert, Open, Work, Check, Answer, FindRole,
            UpsertInMemory, UpsertRow, Clear, Grant, ReadBack, Audit, Crash, Finish,
            Continue
      <4> QED
        BY <3>1, <4>1
    <3>4. ~Crash(h)
      BY <2>1, <3>1 DEF Crash, Finish, Idle
    <3> QED
      BY <2>1, <3>2, <3>3, <3>4
      DEF OpenSome, OpenRequest, OpenUpsert, Open, Work, Answer, FindRole,
          UpsertInMemory, UpsertRow, Clear, Grant, ReadBack, Audit
  <2>3. frame[h].actor \in ActorRoles
    BY <1>1, <2>1, CurrentFrame DEF Placed
  <2> PICK a \in ActorRoles : a = frame[h].actor
    BY <2>3
  <2> PICK p : p = frame[h].need
    OBVIOUS
  <2>4. frame'[h].at = "refused" <=> p \notin resolveActorPermissions(a)
    <3>1. frame \in [Handlers -> Frame]
      BY <1>1 DEF Inv, TypeOK
    <3> QED
      BY <2>2, <3>1 DEF Check, Continue, Frame
  <2>5. CASE ~deployed.rbac
    BY <2>1, <2>4, <2>5 DEF resolveActorPermissions
  <2>6. CASE deployed.rbac
    <3>1. a \in DOMAIN roles /\ resolveActorPermissions(a) = roles[a] /\ Backed(a)
      BY <1>1, <2>6 DEF Inv, StoredIsExplained, Backed, resolveActorPermissions, Stored
    <3>2. CASE deployed.memory
      BY <2>1, <2>4, <2>6, <3>1, <3>2 DEF Backed
    <3>3. CASE ~deployed.memory
      <4>1. PICK ls \in SUBSET Explained(a) :
              roles[a] = UNION ls /\ (ls = {} => InRewrite(a))
        BY <3>1, <3>3 DEF Backed
      <4>2. p \in roles[a] => \E l \in Explained(a) : p \in l
        BY <4>1
      <4>3. p \notin roles[a] => InRewrite(a) \/ \E l \in Explained(a) : p \notin l
        BY <4>1
      <4> QED
        BY <2>1, <2>4, <2>6, <3>1, <4>2, <4>3
    <3> QED
      BY <3>2, <3>3
  <2> QED
    BY <2>5, <2>6
<1>2. Inv /\ [Next]_vars => [\A h \in Handlers : Verdict(h)]_vars
  BY <1>1
<1> QED
  BY <1>2, RoleInvariance, PTL DEF Spec, VerdictExplained
=============================================================================
