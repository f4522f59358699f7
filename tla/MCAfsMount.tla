----------------------------- MODULE MCAfsMount -----------------------------
(***************************************************************************)
(* One mount with two channels, so that a call given up on one may still   *)
(* be carried out beside, or after, the next call on the other; one file   *)
(* to create, write and read.                                              *)
(***************************************************************************)
EXTENDS AfsMount, TLC

CONSTANTS m1, t1, c1, c2, d1, a, x

MCMountOf == t1 :> m1
MCConnOf == c1 :> m1 @@ c2 :> m1

On(o) == [op |-> o, name |-> a, to |-> None, tag |-> None]
MCAsked == {On(o) : o \in {"getattr", "getdir", "mkdir", "mknod", "read"}}
             \cup {[op |-> "write", name |-> a, to |-> None, tag |-> x]}

Symmetric == Permutations({c1, c2})
=============================================================================
