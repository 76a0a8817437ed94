------------------------------- MODULE AccessMC -------------------------------
(* A small instance of Access for TLC: the seeded account and another one, the *)
(* super-admin role and another one.                                           *)
EXTENDS Access, TLC

CONSTANTS root, u1, admin, clerk, q1, q2

TwoUsers == {root, u1}
TwoRoles == {admin, clerk}
Old == {"user.create", "user.update", "role.create", "role.update", "role.delete"}
SomePermissions == Old \cup {"user.delete", "audit-log.delete"}
OldOrNone == {{}, Old}
SomePayloads == {{"user.update"}, {"user.delete"}}

AnyRequest == Permutations(Requests)
=============================================================================
