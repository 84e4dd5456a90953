-------------------------- MODULE MCGroupMappings --------------------------
(* GroupMappings for TLC.  Once a stale request has written the table, the *)
(* invariants promise nothing more, so runs are not followed any further.  *)
EXTENDS GroupMappings, TLC

Symmetric == Permutations(Admin) \cup Permutations(Group)
             \cup Permutations(MappedRole) \cup Permutations(Secret)
NotRaced == ~raced
=============================================================================
