----------------------------- MODULE PathRules -----------------------------
(***************************************************************************)
(* IsAllowedPath of the server, which decides whether getattr answers for  *)
(* a translated path: the scan, one character per step, beside what it     *)
(* computes.  A character is a slash, a letter of the list in the switch,  *)
(* or another one.                                                         *)
(***************************************************************************)
EXTENDS Naturals, Sequences, FiniteSets

CONSTANT MaxPath  \* bound: longest path

ASSUME PathAssumption == MaxPath \in Nat

Chars == {"slash", "listed", "other"}
Paths == UNION {[1..n -> Chars] : n \in 0..MaxPath}

VARIABLES
  path,
  i,          \* characters counted by the loop
  p,          \* the character looked at
  backCount,  \* slashes seen
  answer      \* 1, 0, or "none" while scanning

vars == <<path, i, p, backCount, answer>>

Init ==
  /\ path \in Paths
  /\ i = 0
  /\ p = 1
  /\ backCount = 0
  /\ answer = "none"

Scanning == answer = "none" /\ i < Len(path)

(* A fault: the slash falls through without the test of backCount. *)
PassEarly ==
  /\ Scanning
  /\ path[p] # "other"
  /\ backCount' = backCount + IF path[p] = "slash" THEN 1 ELSE 0
  /\ p' = p + 1
  /\ i' = i + 1
  /\ UNCHANGED <<path, answer>>

(* A slash counts, then falls through to the listed characters. *)
Pass ==
  /\ Scanning
  /\ path[p] # "other"
  /\ backCount' = backCount + IF path[p] = "slash" THEN 1 ELSE 0
  /\ IF backCount' = 3
     THEN answer' = "1" /\ UNCHANGED <<i, p>>
     ELSE p' = p + 1 /\ i' = i + 1 /\ UNCHANGED answer
  /\ UNCHANGED path

(* A fault: the limit one slash too low. *)
MeetOtherLenient ==
  /\ Scanning
  /\ path[p] = "other"
  /\ IF backCount < 2
     THEN answer' = "0" /\ UNCHANGED <<i, p>>
     ELSE i' = i + 1 /\ p' = p + 1 /\ UNCHANGED answer
  /\ UNCHANGED <<path, backCount>>

(* default: refuses before the third slash, and the scan never gets beyond  *)
(* it; p would stay where it is.                                            *)
MeetOther ==
  /\ Scanning
  /\ path[p] = "other"
  /\ IF backCount < 3
     THEN answer' = "0" /\ UNCHANGED i
     ELSE i' = i + 1 /\ UNCHANGED answer
  /\ UNCHANGED <<path, p, backCount>>

Done ==
  /\ answer = "none" /\ i >= Len(path)
  /\ answer' = "1"
  /\ UNCHANGED <<path, i, p, backCount>>

Next == Pass \/ MeetOther \/ Done

Spec == Init /\ [][Next]_vars
-----------------------------------------------------------------------------
TypeOK ==
  /\ path \in Paths
  /\ i \in 0..Len(path) /\ p \in 1..Len(path) + 1
  /\ backCount \in 0..3
  /\ answer \in {"none", "0", "1"}

SlashSet(n) == {j \in 1..n : path[j] = "slash"}
Slashes(n) == Cardinality(SlashSet(n))

(* A path is allowed when its first two names, the translated root and the  *)
(* first name below it, have listed characters only: the scan never looks   *)
(* at what follows the third slash.                                         *)
Allowed == \A j \in 1..Len(path) : path[j] = "other" => Slashes(j) >= 3

(* IsAllowedPath answers 1 for the allowed paths and 0 for the others. *)
AnswersAllowed == answer # "none" => (answer = "1" <=> Allowed)
=============================================================================
