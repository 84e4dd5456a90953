--------------------------- MODULE MCGroupsCache ---------------------------
(* Two accounts for TLC: a with two groups, b with the group whose id      *)
(* comes last, so that a listing that begins with a may end with b.        *)
EXTENDS GroupsCache, TLC

CONSTANTS a, b

MCGroup == 1..3
MCOwner == <<a, a, b>>
=============================================================================
