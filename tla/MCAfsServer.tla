---------------------------- MODULE MCAfsServer ----------------------------
(***************************************************************************)
(* Two calls in progress over two names, two inodes and two descriptors,   *)
(* one of them the socket's: one call waits for its data while the other   *)
(* waits for the worker; one open uses up the descriptors, and a release   *)
(* may close the socket.                                                   *)
(***************************************************************************)
EXTENDS AfsServer, TLC

CONSTANTS k1, k2, d1, d2, a, b, x

On(o, n) == [op |-> o, name |-> n, to |-> None, tag |-> None]
Both(o, n, m) == [op |-> o, name |-> n, to |-> m, tag |-> None]
MCAsked ==
  {On("mknod", b)} \cup {On(o, a) : o \in OnePath \ {"mknod"}}
    \cup {Both(o, b, a) : o \in TwoPaths}
    \cup {[op |-> "write", name |-> a, to |-> None, tag |-> x]}
=============================================================================
