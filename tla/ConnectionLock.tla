--------------------------- MODULE ConnectionLock ---------------------------
(***************************************************************************)
(* What the mount's connection lock promises: the threads of one mount     *)
(* hold its Rx connection one at a time, a thread holds it only after it   *)
(* asked for it, and a thread gives it up only by its own action or when   *)
(* its process dies.  The client (module AfsClient) implements this with a *)
(* POSIX semaphore.                                                        *)
(***************************************************************************)
CONSTANTS Mounts, Threads, MountOf

VARIABLES waiting, holders

lockVars == <<waiting, holders>>

Init == waiting = {} /\ holders = {}

Ask(t) ==
  /\ t \notin waiting \cup holders
  /\ waiting' = waiting \cup {t}
  /\ UNCHANGED holders

Take(t) ==
  /\ t \in waiting
  /\ \A u \in holders : MountOf[u] # MountOf[t]
  /\ waiting' = waiting \ {t}
  /\ holders' = holders \cup {t}

Drop(t) ==
  /\ t \in holders
  /\ holders' = holders \ {t}
  /\ UNCHANGED waiting

(* The process of mount m dies with all its threads. *)
Die(m) ==
  /\ waiting' = {t \in waiting : MountOf[t] # m}
  /\ holders' = {t \in holders : MountOf[t] # m}

Next ==
  \/ \E t \in Threads : Ask(t) \/ Take(t) \/ Drop(t)
  \/ \E m \in Mounts : Die(m)

Spec == Init /\ [][Next]_lockVars
=============================================================================
