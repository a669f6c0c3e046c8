------------------------------- MODULE MCRoles -------------------------------
(* Small instances of Roles for TLC. *)
EXTENDS Roles, TLC

CONSTANTS admin, guest, hire, bogus

Symmetry == Permutations(Handlers)

SomeDefaults == admin :> {rbacManage, hire}

\* The migration leaves two permissions out that the defaults give to admins.
SomeSeed == admin :> {rbacManage}

\* Two lists whose union neither is, an empty one, and one that is refused.
SomeLists == {{rbacManage}, {hire}, {}, {hire, bogus}}

\* With rbac_v1 off no check reads the tables: one store is enough for that.
MCInit == Init /\ (deployed.rbac \/ deployed.memory)

MCSpec == MCInit /\ [][Next]_vars
=============================================================================
