------------------------------ MODULE MCPeople ------------------------------
(* Small instances of People for TLC. *)
EXTENDS People, TLC

Symmetry == Permutations(Handlers) \cup Permutations(OrgIds)

\* Without tenancy_v1 no request is confined: one store is enough for that.
MCInit == Init /\ (deployed.tenancy \/ ~deployed.memory)

MCSpec == MCInit /\ [][Next]_vars
=============================================================================
