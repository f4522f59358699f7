----------------------------- MODULE RemoteCalls -----------------------------
(***************************************************************************)
(* What a mount promises the programs that use it: a file system request   *)
(* is carried out at most once; one that reports success was carried out,  *)
(* while the request waited; one that reports failure may have been        *)
(* carried out all the same, or may be later, by a call nobody waits for.  *)
(* The files change in no other way.  Module AfsMount implements this.     *)
(***************************************************************************)
CONSTANTS
  Threads,  \* the callers
  Tickets   \* names for the calls that were given up

VARIABLES
  files,   \* the server's files
  want,    \* how far each caller's request is
  late,    \* the calls that were given up and may still be carried out
  answer   \* what each caller was told last

remoteVars == <<files, want, late, answer>>

Init ==
  /\ want = [t \in Threads |-> "idle"]
  /\ late = {}
  /\ answer = [t \in Threads |-> "none"]

Ask(t) ==
  /\ want[t] = "idle"
  /\ want' = [want EXCEPT ![t] = "asked"]
  /\ answer' = [answer EXCEPT ![t] = "none"]
  /\ UNCHANGED <<files, late>>

(* The server carries the request out, or refuses it; a refused write may   *)
(* have changed its file in part.                                           *)
Serve(t, w) ==
  /\ want[t] = "asked"
  /\ want' = [want EXCEPT ![t] = w]
  /\ UNCHANGED <<late, answer>>

GiveUp(t, k) ==
  /\ want[t] = "asked"
  /\ want' = [want EXCEPT ![t] = "failed"]
  /\ late' \in {late, late \cup {k}}
  /\ UNCHANGED <<files, answer>>

(* A call nobody waits for is carried out, refused or lost. *)
ServeLate(k) ==
  /\ k \in late
  /\ late' = late \ {k}
  /\ UNCHANGED <<want, answer>>

Return(t, a) ==
  /\ want[t] \in {"done", "refused", "failed"}
  /\ a = "ok" => want[t] = "done"
  /\ want' = [want EXCEPT ![t] = "idle"]
  /\ answer' = [answer EXCEPT ![t] = a]
  /\ UNCHANGED <<files, late>>

Next ==
  \/ \E t \in Threads :
       \/ Ask(t)
       \/ \E w \in {"done", "refused"} : Serve(t, w)
       \/ \E k \in Tickets : GiveUp(t, k)
       \/ \E a \in {"ok", "zero", "error"} : Return(t, a)
  \/ \E k \in Tickets : ServeLate(k)

Spec == Init /\ [][Next]_remoteVars
=============================================================================
