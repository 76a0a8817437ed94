--------------------------- MODULE DatabaseCallsMC ---------------------------
(* A small instance of DatabaseCalls for TLC: one connection, one query. *)
EXTENDS DatabaseCalls

CONSTANTS k1, s1

OneConnection == {k1}
OneQuery      == {s1}
=============================================================================
