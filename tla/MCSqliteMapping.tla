--------------------------- MODULE MCSqliteMapping ---------------------------
(***************************************************************************)
(* Three nodes and four facts, two of them in the store at once: a fact,   *)
(* the one with its subject and object exchanged, and two that use a node  *)
(* in two places.                                                          *)
(***************************************************************************)
EXTENDS SqliteMapping

CONSTANTS a, b, c

Fact(x, y, z) == [s |-> x, p |-> y, o |-> z]
MCFacts == {Fact(a, b, c), Fact(c, b, a), Fact(a, b, a), Fact(b, b, c)}
=============================================================================
