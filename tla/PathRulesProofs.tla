--------------------------- MODULE PathRulesProofs ---------------------------
(***************************************************************************)
(* IsAllowedPath answers 1 for exactly the allowed paths, for paths of any *)
(* length.  The invariant follows the scan: every character before p was a *)
(* slash or a listed one, and backCount is the number of slashes so far.   *)
(***************************************************************************)
EXTENDS PathRules, FiniteSetTheorems, TLAPS

LEMMA PathIsSeq ==
  ASSUME TypeOK
  PROVE  Len(path) \in Nat /\ \A j \in 1..Len(path) : path[j] \in Chars
BY PathAssumption DEF TypeOK, Paths

LEMMA SlashesFinite ==
  ASSUME NEW n \in Nat
  PROVE  IsFiniteSet(SlashSet(n)) /\ Slashes(n) \in Nat
<1>1. IsFiniteSet(1..n)
  BY FS_Interval
<1>2. IsFiniteSet(SlashSet(n))
  BY <1>1, FS_Subset DEF SlashSet
<1> QED BY <1>2, FS_CardinalityType DEF Slashes

(* One more character adds one slash or none. *)
LEMMA SlashesStep ==
  ASSUME NEW n \in Nat
  PROVE  Slashes(n + 1) = Slashes(n) + IF path[n + 1] = "slash" THEN 1 ELSE 0
<1>1. CASE path[n + 1] = "slash"
  <2>1. SlashSet(n + 1) = SlashSet(n) \cup {n + 1} /\ n + 1 \notin SlashSet(n)
    BY <1>1 DEF SlashSet
  <2>2. Cardinality(SlashSet(n + 1)) = Cardinality(SlashSet(n)) + 1
    BY <2>1, SlashesFinite, FS_AddElement
  <2> QED BY <1>1, <2>2 DEF Slashes
<1>2. CASE path[n + 1] # "slash"
  <2>1. SlashSet(n + 1) = SlashSet(n)
    BY <1>2 DEF SlashSet
  <2> QED BY <1>2, <2>1, SlashesFinite DEF Slashes
<1> QED BY <1>1, <1>2

LEMMA SlashesGrow ==
  ASSUME NEW m \in Nat, NEW n \in Nat, m <= n
  PROVE  Slashes(m) <= Slashes(n)
<1>1. SlashSet(m) \subseteq SlashSet(n)
  BY DEF SlashSet
<1>2. Cardinality(SlashSet(m)) <= Cardinality(SlashSet(n))
  BY <1>1, SlashesFinite, FS_Subset
<1> QED BY <1>2 DEF Slashes

Inv ==
  /\ TypeOK
  /\ answer = "none" => /\ p = i + 1
                        /\ backCount = Slashes(i) /\ backCount < 3
                        /\ \A j \in 1..i : path[j] # "other"
  /\ AnswersAllowed

LEMMA InvInit == Init => Inv
<1> SUFFICES ASSUME Init PROVE Inv
  OBVIOUS
<1>1. TypeOK
  BY PathAssumption DEF Init, TypeOK, Paths
<1>2. SlashSet(0) = {}
  BY DEF SlashSet
<1>3. Slashes(0) = 0
  BY <1>2, FS_EmptySet DEF Slashes
<1> QED BY <1>1, <1>3 DEF Init, Inv, AnswersAllowed

LEMMA PassStep == Inv /\ Pass => Inv'
<1> SUFFICES ASSUME Inv, Pass PROVE Inv'
  OBVIOUS
<1> USE DEF Inv
<1>1. /\ answer = "none" /\ i < Len(path) /\ p = i + 1 /\ p \in 1..Len(path)
      /\ i \in Nat /\ Len(path) \in Nat /\ path[p] # "other" /\ path' = path
  BY PathIsSeq DEF Pass, Scanning, TypeOK
<1>2. backCount' = Slashes(p) /\ backCount' \in 0..3 /\ Slashes(p) \in Nat
  <2>1. Slashes(p) = Slashes(i) + IF path[p] = "slash" THEN 1 ELSE 0
    BY <1>1, SlashesStep
  <2>2. backCount' = backCount + IF path[p] = "slash" THEN 1 ELSE 0
    BY DEF Pass
  <2>3. backCount = Slashes(i) /\ backCount < 3 /\ backCount \in 0..3
    BY <1>1 DEF TypeOK
  <2> QED BY <2>1, <2>2, <2>3
<1>3. \A j \in 1..p : path[j] # "other"
  BY <1>1
<1>4. CASE backCount' = 3
  <2>1. answer' = "1" /\ i' = i /\ p' = p
    BY <1>4 DEF Pass
  <2>2. \A j \in 1..Len(path) : path[j] = "other" => Slashes(j) >= 3
    <3> SUFFICES ASSUME NEW j \in 1..Len(path), path[j] = "other" PROVE Slashes(j) >= 3
      OBVIOUS
    <3>1. p <= j
      BY <1>1, <1>3
    <3>2. Slashes(p) <= Slashes(j) /\ Slashes(j) \in Nat
      BY <1>1, <3>1, SlashesGrow, SlashesFinite
    <3> QED BY <1>2, <1>4, <3>2
  <2>3. Allowed'
    BY <1>1, <2>2 DEF Allowed, Slashes, SlashSet
  <2> QED BY <1>1, <1>2, <2>1, <2>3 DEF TypeOK, AnswersAllowed
<1>5. CASE backCount' # 3
  <2>1. answer' = "none" /\ i' = i + 1 /\ p' = p + 1
    BY <1>1, <1>5 DEF Pass
  <2>2. backCount' = Slashes(i)'
    BY <1>1, <1>2, <2>1 DEF Slashes, SlashSet
  <2> QED BY <1>1, <1>2, <1>3, <1>5, <2>1, <2>2 DEF TypeOK, AnswersAllowed
<1> QED BY <1>4, <1>5

LEMMA RefuseStep == Inv /\ MeetOther => Inv'
<1> SUFFICES ASSUME Inv, MeetOther PROVE Inv'
  OBVIOUS
<1> USE DEF Inv
<1>1. /\ answer = "none" /\ p = i + 1 /\ p \in 1..Len(path) /\ i \in Nat
      /\ path[p] = "other" /\ path' = path /\ answer' = "0" /\ i' = i /\ p' = p
      /\ backCount' = backCount /\ backCount = Slashes(i) /\ backCount < 3
  BY PathIsSeq DEF MeetOther, Scanning, TypeOK
<1>2. Slashes(p) = Slashes(i)
  <2>1. Slashes(p) = Slashes(i) + IF path[p] = "slash" THEN 1 ELSE 0
    BY <1>1, SlashesStep
  <2>2. Slashes(i) \in Nat
    BY <1>1, SlashesFinite
  <2> QED BY <1>1, <2>1, <2>2
<1>3. ~Allowed
  <2>1. Slashes(p) \in Nat /\ Slashes(p) < 3
    BY <1>1, <1>2, SlashesFinite
  <2> QED BY <1>1, <2>1 DEF Allowed
<1>4. ~Allowed'
  BY <1>1, <1>3 DEF Allowed, Slashes, SlashSet
<1> QED BY <1>1, <1>4 DEF TypeOK, AnswersAllowed

LEMMA DoneStep == Inv /\ Done => Inv'
<1> SUFFICES ASSUME Inv, Done PROVE Inv'
  OBVIOUS
<1> USE DEF Inv
<1>1. i = Len(path) /\ answer = "none" /\ answer' = "1" /\ UNCHANGED <<path, i, p, backCount>>
  BY PathIsSeq DEF Done, TypeOK
<1>2. Allowed'
  BY <1>1 DEF Allowed
<1> QED BY <1>1, <1>2 DEF TypeOK, AnswersAllowed

LEMMA InvStep == Inv /\ [Next]_vars => Inv'
<1> SUFFICES ASSUME Inv, [Next]_vars PROVE Inv'
  OBVIOUS
<1>1. CASE UNCHANGED vars
  BY <1>1 DEF vars, Inv, TypeOK, AnswersAllowed, Allowed, Slashes, SlashSet
<1> QED BY <1>1, PassStep, RefuseStep, DoneStep DEF Next

(* IsAllowedPath gives the right answer for every path. *)
THEOREM AnswersRight == Spec => []AnswersAllowed
<1>1. Inv => AnswersAllowed
  BY DEF Inv
<1> QED BY <1>1, InvInit, InvStep, PTL DEF Spec

(* The counters of the scan keep their bounds for paths of every length.    *)
THEOREM TypeCorrect == Spec => []TypeOK
<1>1. Inv => TypeOK
  BY DEF Inv
<1> QED BY <1>1, InvInit, InvStep, PTL DEF Spec
=============================================================================
