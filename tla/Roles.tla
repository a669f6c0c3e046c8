-------------------------------- MODULE Roles --------------------------------
(***************************************************************************)
(* Roles and permissions: the permission check with which every service    *)
(* function starts (src/src/lib/permissions.ts), and the RBAC service      *)
(* (src/src/features/rbac/service.ts) that rewrites what the check reads.  *)
(* An upsert of a role is one step of the in-memory store and four awaited *)
(* statements of the Prisma store; other requests run between them.        *)
(***************************************************************************)
EXTENDS Naturals

CONSTANTS
  Handlers,     \* requests the API can have open at the same time
  ActorRoles,   \* actorRoles, the roles a token can carry
  RoleIds,      \* ids of roles, those of ActorRoles and others
  Permissions,  \* allowedPermissions
  rbacManage,   \* Permissions.rbacManage
  Needs,        \* permissions that requests of other services require
  Defaults,     \* defaultRolePermissions, which the in-memory store is seeded with
  Seed,         \* what the migration seeds the database with
  Lists,        \* lists an upsert can name, as sets of trimmed strings
  MaxCrashes,   \* bound on handlers that die between two awaits
  Nil           \* no role

ASSUME RolesAssumption ==
  /\ ActorRoles \subseteq RoleIds
  /\ rbacManage \in Permissions
  /\ Needs \subseteq Permissions
  /\ {Defaults, Seed} \subseteq [ActorRoles -> SUBSET Permissions]
  /\ MaxCrashes \in Nat
  /\ Nil \notin RoleIds

VARIABLES
  deployed,  \* the environment of the process: rbac_v1, and the store it uses
  roles,     \* the permissions of the Role rows, by id
  audited,   \* the audit log entries of the RBAC service
  frame,     \* each handler's local state
  crashes,   \* handlers that died so far, at most MaxCrashes
  lost       \* history: per role, the lists of the upserts that died writing

vars == <<deployed, roles, audited, frame, crashes, lost>>

Steps == {"idle", "check", "served", "refused", "find", "upsert", "clear",
          "grant", "read", "audit"}

\* need: the permission the request requires.  role, list: those of an upsert;
\* a request of any other kind has no role.
Frame ==
  [at : Steps, actor : ActorRoles \cup {Nil}, need : Permissions,
   role : RoleIds \cup {Nil}, list : Lists \cup {{}}]

Idle ==
  [at |-> "idle", actor |-> Nil, need |-> rbacManage, role |-> Nil, list |-> {}]

Continue(h, at) == frame' = [frame EXCEPT ![h].at = at]

Finish(h) == frame' = [frame EXCEPT ![h] = Idle]

-----------------------------------------------------------------------------
(* The permission check. *)

\* findRoleById; no permissions for a role without a row.
Stored(r) == IF r \in DOMAIN roles THEN roles[r] ELSE {}

FallbackMutant(r) ==
  IF deployed.rbac /\ Stored(r) # {} THEN Stored(r) ELSE Defaults[r]

resolveActorPermissions(r) == IF deployed.rbac THEN Stored(r) ELSE Defaults[r]

\* A client opens a request on a free handler.
Open(h, f) ==
  /\ frame[h].at = "idle"
  /\ frame' = [frame EXCEPT ![h] = f]
  /\ UNCHANGED <<deployed, roles, audited, crashes, lost>>

OpenRequest(h, a, p) == Open(h, [Idle EXCEPT !.at = "check", !.actor = a, !.need = p])

OpenUpsert(h, a, r, l) ==
  Open(h, [Idle EXCEPT !.at = "check", !.actor = a, !.role = r, !.list = l])

\* requirePermission, called once, before anything else.
Check(h) ==
  LET f == frame[h]
      granted == f.need \in resolveActorPermissions(f.actor)
  IN  /\ f.at = "check"
      /\ \/ ~granted /\ Continue(h, "refused")
         \/ granted /\ Continue(h, IF f.role = Nil THEN "served" ELSE "find")
      /\ UNCHANGED <<deployed, roles, audited, crashes, lost>>

\* 403, or whatever the request was for, in a module of its own.
Answer(h) ==
  /\ frame[h].at \in {"served", "refused"}
  /\ Finish(h)
  /\ UNCHANGED <<deployed, roles, audited, crashes, lost>>

-----------------------------------------------------------------------------
(* upsertRole of the service and of the stores. *)

\* The service looks whether the role exists, which only the answer and the
\* payload of the audit entry tell, then validatePermissions throws on a
\* permission that is unknown.
FindRole(h) ==
  LET f == frame[h]
  IN  /\ f.at = "find"
      /\ \/ ~(f.list \subseteq Permissions) /\ Finish(h)
         \/ f.list \subseteq Permissions /\ Continue(h, "upsert")
      /\ UNCHANGED <<deployed, roles, audited, crashes, lost>>

MergedMutant(r, l) == [x \in DOMAIN roles \cup {r} |-> IF x = r THEN Stored(r) \cup l ELSE roles[x]]

\* The in-memory store sets both maps without an await.
Replaced(r, l) == [x \in DOMAIN roles \cup {r} |-> IF x = r THEN l ELSE roles[x]]

UpsertInMemory(h) ==
  LET f == frame[h]
  IN  /\ deployed.memory
      /\ f.at = "upsert"
      /\ roles' = Replaced(f.role, f.list)
      /\ Continue(h, "audit")
      /\ UNCHANGED <<deployed, audited, crashes, lost>>

\* prisma.role.upsert: the row, without its permissions.
UpsertRow(h) ==
  LET f == frame[h]
  IN  /\ ~deployed.memory
      /\ f.at = "upsert"
      /\ roles' = Replaced(f.role, Stored(f.role))
      /\ Continue(h, "clear")
      /\ UNCHANGED <<deployed, audited, crashes, lost>>

EveryRoleMutant(r) == [x \in DOMAIN roles |-> {}]

\* rolePermission.deleteMany
Cleared(r) == [roles EXCEPT ![r] = {}]

Clear(h) ==
  LET f == frame[h]
  IN  /\ f.at = "clear"
      /\ roles' = Cleared(f.role)
      /\ Continue(h, IF f.list = {} THEN "read" ELSE "grant")
      /\ UNCHANGED <<deployed, audited, crashes, lost>>

\* rolePermission.createMany, which skips what is already there.
Grant(h) ==
  LET f == frame[h]
  IN  /\ f.at = "grant"
      /\ roles' = [roles EXCEPT ![f.role] = @ \cup f.list]
      /\ Continue(h, "read")
      /\ UNCHANGED <<deployed, audited, crashes, lost>>

\* The role the caller gets back is read after the writes.
ReadBack(h) ==
  /\ frame[h].at = "read"
  /\ Continue(h, "audit")
  /\ UNCHANGED <<deployed, roles, audited, crashes, lost>>

\* The entry holds the list that was asked for, not the one read back.
Audit(h) ==
  LET f == frame[h]
  IN  /\ f.at = "audit"
      /\ audited' = audited \cup {[role |-> f.role, list |-> f.list]}
      /\ Finish(h)
      /\ UNCHANGED <<deployed, roles, crashes, lost>>

\* The steps of an upsert whose list the store has begun or is about to write.
Writing == {"upsert", "clear", "grant", "read", "audit"}

\* The process dies, or a store call throws.
Crash(h) ==
  LET f == frame[h]
  IN  /\ f.at # "idle"
      /\ crashes < MaxCrashes
      /\ crashes' = crashes + 1
      /\ lost' = IF f.at \in Writing THEN [lost EXCEPT ![f.role] = @ \cup {f.list}] ELSE lost
      /\ Finish(h)
      /\ UNCHANGED <<deployed, roles, audited>>

-----------------------------------------------------------------------------
OpenSome(h) ==
  \E a \in ActorRoles :
    \/ \E p \in Needs : OpenRequest(h, a, p)
    \/ \E r \in RoleIds, l \in Lists : OpenUpsert(h, a, r, l)

Work(h) ==
  \/ Check(h) \/ Answer(h) \/ FindRole(h) \/ UpsertInMemory(h) \/ UpsertRow(h)
  \/ Clear(h) \/ Grant(h) \/ ReadBack(h) \/ Audit(h)

\* seedRbacDefaults of the in-memory store, or the migration 202602150001.
Seeded == IF deployed.memory THEN Defaults ELSE Seed

Init ==
  /\ deployed \in [rbac : BOOLEAN, memory : BOOLEAN]
  /\ roles = Seeded
  /\ audited = {}
  /\ frame = [h \in Handlers |-> Idle]
  /\ crashes = 0
  /\ lost = [r \in RoleIds |-> {}]

Next == \E h \in Handlers : OpenSome(h) \/ Work(h) \/ Crash(h)

Spec == Init /\ [][Next]_vars

-----------------------------------------------------------------------------
TypeOK ==
  /\ deployed \in [rbac : BOOLEAN, memory : BOOLEAN]
  /\ DOMAIN roles \subseteq RoleIds
  /\ \A r \in DOMAIN roles : roles[r] \subseteq Permissions
  /\ audited \subseteq [role : RoleIds, list : Lists]
  /\ frame \in [Handlers -> Frame]
  /\ crashes \in 0 .. MaxCrashes
  /\ lost \in [RoleIds -> SUBSET Lists]

\* The lists a role can have got its permissions from: the seed, those of the
\* audit log, and those of upserts that are still writing or died at it.
Explained(r) ==
  {Seeded[x] : x \in ActorRoles \cap {r}}
    \cup {b.list : b \in {b \in audited : b.role = r}}
    \cup {frame[h].list : h \in {h \in Handlers : frame[h].role = r /\ frame[h].at \in Writing}}
    \cup lost[r]

\* Between the statement that deletes a role's permissions and the one that
\* creates the new ones.
InRewrite(r) ==
  \/ ~deployed.memory /\ crashes > 0
  \/ \E h \in Handlers : frame[h].role = r /\ frame[h].at \in {"clear", "grant"}

\* "RBAC mutations are admin-only and must be audited" and "replace its
\* permission set" (src/specs/rbac/contract.yaml): with the in-memory store a
\* role has the permissions of exactly one list somebody asked for; with Prisma
\* those of several whole lists, if their upserts overlapped, of none only
\* while one is rewriting or after one died; and the lists are all in the audit
\* log, but for those of upserts that have not ended or died.
StoredIsExplained ==
  \A r \in DOMAIN roles :
    IF deployed.memory THEN roles[r] \in Explained(r)
    ELSE \E ls \in SUBSET Explained(r) :
           roles[r] = UNION ls /\ (ls = {} => InRewrite(r))

\* A permission check refuses what some list asked for the actor's role leaves
\* out, or while that role is being rewritten; it grants nothing that no list
\* asked for.  With rbac_v1 off the defaults alone decide.
VerdictExplained ==
  [][\A h \in Handlers :
       LET f == frame[h]
           lists == IF deployed.rbac THEN Explained(f.actor) ELSE {Defaults[f.actor]}
       IN  f.at = "check" =>
             /\ frame'[h].at = "refused" =>
                  \/ \E l \in lists : f.need \notin l
                  \/ deployed.rbac /\ InRewrite(f.actor)
             /\ frame'[h].at \in {"served", "find"} => \E l \in lists : f.need \in l]_vars

\* No actor's role can manage roles and no upsert is under way.
LockedOut ==
  /\ deployed.rbac
  /\ \A r \in ActorRoles : rbacManage \notin Stored(r)
  /\ \A h \in Handlers : frame[h].at \notin Writing \cup {"find"}

\* "RBAC mutations are admin-only" (src/specs/rbac/contract.yaml), also for the
\* admins: an upsert may take rbac.manage from the last role that has it, or
\* die before it has given it back, and no request changes any role after that.
LockoutIsFinal == [][LockedOut => LockedOut' /\ roles' = roles]_vars
=============================================================================
