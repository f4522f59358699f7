------------------------- MODULE SqliteMappingProofs -------------------------
(***************************************************************************)
(* Theorems about sibfs, for any store, any facts and any bound.  The      *)
(* store keeps one row per node and the nodes of every triple; a run whose *)
(* queries were complete has them too.  While it joins, each vector holds  *)
(* the triples done and, of the next one, the node if the inner loop has   *)
(* passed it.                                                              *)
(***************************************************************************)
EXTENDS SqliteMapping, TLAPS

Fields == {"s", "p", "o"}
Distinct(ns) == \A i, j \in 1..Len(ns) : ns[i] = ns[j] => i = j
Covers(ns, ts) == \A i \in 1..Len(ts) : \A f \in Fields : In(ts[i][f], ns)
AllPlain == \A i \in 1..Len(got) : Plain(got[i])

Passed(f) == \E j \in 1..row : names[j] = got[done + 1][f]

(* The vector of field f, so far. *)
Column(V, f) ==
  /\ Len(V) = done + (IF Passed(f) THEN 1 ELSE 0)
  /\ \A i \in 1..Len(V) : V[i] = got[i][f]

Stored == Distinct(nodes) /\ Covers(nodes, triples)

Loading ==
  /\ pc \in {"triples", "nodes"} =>
       done = 0 /\ row = 0 /\ S = <<>> /\ P = <<>> /\ O = <<>>
  /\ pc = "triples" => got = <<>>
  /\ pc \in {"triples", "nodes"} => names = <<>>
  /\ pc = "nodes" /\ ~lossy => Covers(nodes, got)
  /\ pc = "join" => Distinct(names) /\ (~lossy => Covers(names, got))
  /\ pc = "join" /\ done = Len(got) => row = 0

Joining ==
  pc = "join" /\ ~lossy /\ AllPlain => Column(S, "s") /\ Column(P, "p") /\ Column(O, "o")

Inv == TypeOK /\ Stored /\ Loading /\ Joining /\ CleanLoadMaps

-----------------------------------------------------------------------------
(* Adding a node keeps the rows distinct and loses none. *)
LEMMA WithNodeKeeps ==
  ASSUME NEW ns \in Seq(Ids), Distinct(ns), NEW x \in Ids
  PROVE  /\ WithNode(ns, x) \in Seq(Ids) /\ Distinct(WithNode(ns, x))
         /\ In(x, WithNode(ns, x)) /\ \A y : In(y, ns) => In(y, WithNode(ns, x))
<1>1. CASE In(x, ns)
  BY <1>1 DEF WithNode
<1>2. CASE ~In(x, ns)
  <2>1. /\ WithNode(ns, x) = Append(ns, x) /\ WithNode(ns, x) \in Seq(Ids)
        /\ Len(WithNode(ns, x)) = Len(ns) + 1 /\ WithNode(ns, x)[Len(ns) + 1] = x
        /\ \A i \in 1..Len(ns) : WithNode(ns, x)[i] = ns[i]
    BY <1>2 DEF WithNode
  <2>2. Distinct(WithNode(ns, x))
    BY <1>2, <2>1 DEF Distinct, In
  <2> QED BY <2>1, <2>2 DEF In
<1> QED BY <1>1, <1>2

LEMMA PublishStep ==
  ASSUME Inv, NEW t \in Facts, Publish(t)
  PROVE  Inv'
<1> USE StoreAssumption DEF Inv, Publish, run, store
<1> DEFINE n1 == WithNode(nodes, t.s)
           n2 == WithNode(n1, t.p)
<1>0. t.s \in Ids /\ t.p \in Ids /\ t.o \in Ids /\ nodes \in Seq(Ids)
  BY DEF Triples, TypeOK
<1>1. /\ nodes' \in Seq(Ids) /\ Distinct(nodes')
      /\ \A y : In(y, nodes) => In(y, nodes')
      /\ In(t.s, nodes') /\ In(t.p, nodes') /\ In(t.o, nodes')
  <2>1. /\ n1 \in Seq(Ids) /\ Distinct(n1) /\ In(t.s, n1) /\ \A y : In(y, nodes) => In(y, n1)
    BY <1>0, WithNodeKeeps DEF Stored
  <2>2. /\ n2 \in Seq(Ids) /\ Distinct(n2) /\ In(t.p, n2) /\ \A y : In(y, n1) => In(y, n2)
    BY <1>0, <2>1, WithNodeKeeps
  <2>3. nodes' = WithNode(n2, t.o)
    OBVIOUS
  <2> HIDE DEF n1, n2
  <2> QED BY <1>0, <2>1, <2>2, <2>3, WithNodeKeeps
<1>2. /\ triples' \in Seq(Facts) /\ Len(triples') = Len(triples) + 1
      /\ triples'[Len(triples) + 1] = t
      /\ \A i \in 1..Len(triples) : triples'[i] = triples[i]
  BY DEF TypeOK
<1>3. Stored'
  BY <1>1, <1>2 DEF Stored, Covers, Fields, TypeOK
<1>4. TypeOK' /\ Loading' /\ Joining' /\ CleanLoadMaps'
  <2>1. TypeOK'
    BY <1>1, <1>2 DEF TypeOK
  <2>2. Loading'
    BY <1>1 DEF Loading, Covers
  <2>3. Joining' /\ CleanLoadMaps'
    BY DEF Joining, Column, AllPlain, Passed, CleanLoadMaps, Joined
  <2> QED BY <2>1, <2>2, <2>3
<1> QED BY <1>3, <1>4

LEMMA DeleteStep == ASSUME Inv, Delete PROVE Inv'
<1> USE DEF Inv, Delete, run, store
<1>1. TypeOK' /\ Stored'
  <2>1. lossy' \in BOOLEAN
    BY DEF TypeOK
  <2>2. TypeOK'
    <3>1. triples' \in Seq(Facts)
      OBVIOUS
    <3>2. nodes' \in Seq(Ids)
      <4>1. nodes \in Seq(Ids) /\ <<>> \in Seq(Ids)
        BY DEF TypeOK
      <4> QED BY <4>1
    <3> QED BY <2>1, <3>1, <3>2 DEF TypeOK
  <2>3. Stored'
    BY DEF Stored, Distinct, Covers
  <2> QED BY <2>2, <2>3
<1>2. Loading'
  BY DEF Loading, Covers
<1>3. Joining' /\ CleanLoadMaps'
  BY DEF Joining, Column, AllPlain, Passed, CleanLoadMaps, Joined
<1> QED BY <1>1, <1>2, <1>3

-----------------------------------------------------------------------------
LEMMA SelectTriplesStep ==
  ASSUME Inv, NEW k \in Nat, SelectTriples(k)
  PROVE  Inv'
<1> USE DEF Inv, SelectTriples, store
<1>1. got' \in Seq(Facts) /\ Len(got') = k /\ \A i \in 1..k : got'[i] = triples[i]
  BY DEF TypeOK
<1>2. TypeOK' /\ Stored'
  BY <1>1 DEF TypeOK, Stored, Loading
<1>3. Loading'
  <2>1. ~lossy' => k = Len(triples)
    <3>1. ~lossy' => ~(k < Len(triples))
      OBVIOUS
    <3> QED BY <3>1 DEF TypeOK
  <2> QED BY <1>1, <2>1 DEF Loading, Stored, Covers
<1>4. Joining' /\ CleanLoadMaps'
  BY DEF Joining, CleanLoadMaps, Joined
<1> QED BY <1>2, <1>3, <1>4

LEMMA SelectNodesStep ==
  ASSUME Inv, NEW k \in Nat, SelectNodes(k)
  PROVE  Inv'
<1> USE DEF Inv, SelectNodes, store
<1>1. names' \in Seq(Ids) /\ Len(names') = k /\ \A i \in 1..k : names'[i] = nodes[i]
  BY DEF TypeOK
<1>2. TypeOK' /\ Stored'
  BY <1>1 DEF TypeOK, Stored, Loading
<1>3. Loading'
  <2>1. ~lossy' => ~lossy /\ k = Len(nodes)
    <3>1. ~lossy' => ~lossy /\ ~(k < Len(nodes))
      OBVIOUS
    <3> QED BY <3>1 DEF TypeOK
  <2>2. Distinct(names')
    BY <1>1 DEF Stored, Distinct, TypeOK
  <2> QED BY <1>1, <2>1, <2>2 DEF Loading, Covers, In, TypeOK
<1>4. Joining'
  BY DEF Joining, Column, Passed, Loading
<1>5. CleanLoadMaps'
  BY DEF CleanLoadMaps, Joined
<1> QED BY <1>2, <1>3, <1>4, <1>5

-----------------------------------------------------------------------------
(* The inner loop: a node extends the column it belongs to. *)
LEMMA ColumnStep ==
  ASSUME TypeOK, Distinct(names), done < Len(got), row < Len(names), row' = row + 1,
         UNCHANGED <<got, names, done>>,
         NEW f \in Fields, NEW V \in Seq(Ids), NEW W, Column(V, f),
         W = IF names[row + 1] = got[done + 1][f] THEN Append(V, names[row + 1]) ELSE V
  PROVE  /\ Len(W) = done + (IF \E j \in 1..row + 1 : names[j] = got[done + 1][f] THEN 1 ELSE 0)
         /\ \A i \in 1..Len(W) : W[i] = got[i][f]
<1>1. names \in Seq(Ids) /\ row \in Nat /\ done \in Nat
  BY DEF TypeOK
<1>2. CASE names[row + 1] = got[done + 1][f]
  <2>1. ~Passed(f)
    BY <1>1, <1>2 DEF Passed, Distinct
  <2>2. Len(V) = done /\ \A i \in 1..Len(V) : V[i] = got[i][f]
    BY <1>1, <2>1 DEF Column
  <2>3. Len(W) = done + 1 /\ W[done + 1] = got[done + 1][f] /\ \A i \in 1..done : W[i] = V[i]
    BY <1>1, <1>2, <2>2
  <2>4. \E j \in 1..row + 1 : names[j] = got[done + 1][f]
    BY <1>1, <1>2
  <2>5. \A i \in 1..Len(W) : W[i] = got[i][f]
    BY <1>1, <2>2, <2>3
  <2> QED BY <2>3, <2>4, <2>5
<1>3. CASE names[row + 1] # got[done + 1][f]
  <2>1. Passed(f) <=> \E j \in 1..row + 1 : names[j] = got[done + 1][f]
    BY <1>1, <1>3 DEF Passed
  <2> QED BY <1>3, <2>1 DEF Column
<1> QED BY <1>2, <1>3

LEMMA JoinNodeStep == ASSUME Inv, JoinNode PROVE Inv'
<1> USE DEF Inv, JoinNode, store
<1> DEFINE t == got[done + 1]
           n == names[row + 1]
<1>1. t \in Triples /\ n \in Ids
  <2>1. done + 1 \in 1..Len(got) /\ row + 1 \in 1..Len(names)
    BY DEF TypeOK
  <2> QED BY <2>1, StoreAssumption DEF TypeOK
<1>2. TypeOK'
  BY <1>1 DEF TypeOK
<1>3. Stored' /\ Loading' /\ CleanLoadMaps'
  BY DEF Stored, Loading, CleanLoadMaps, Joined
<1>4. Joining'
  <2> SUFFICES ASSUME ~lossy, AllPlain
               PROVE  Column(S, "s")' /\ Column(P, "p")' /\ Column(O, "o")'
    BY DEF Joining, AllPlain
  <2>1. Plain(t)
    BY DEF AllPlain, TypeOK
  <2>2. /\ S' = IF n = t["s"] THEN Append(S, n) ELSE S
        /\ P' = IF n = t["p"] THEN Append(P, n) ELSE P
        /\ O' = IF n = t["o"] THEN Append(O, n) ELSE O
    BY <2>1 DEF Plain
  <2>3. Column(S, "s") /\ Column(P, "p") /\ Column(O, "o") /\ Distinct(names)
    BY DEF Joining, Loading
  <2>4. S \in Seq(Ids) /\ P \in Seq(Ids) /\ O \in Seq(Ids)
    BY DEF TypeOK
  <2> DEFINE Extended(V, f) ==
               /\ Len(V) = done + (IF \E j \in 1..row + 1 : names[j] = got[done + 1][f]
                                   THEN 1 ELSE 0)
               /\ \A i \in 1..Len(V) : V[i] = got[i][f]
  <2>5. ASSUME NEW f \in Fields, NEW V \in Seq(Ids), NEW W, Column(V, f),
               W = IF n = t[f] THEN Append(V, n) ELSE V
        PROVE  Extended(W, f)
    BY <2>3, <2>5, ColumnStep
  <2>6. Extended(S', "s") /\ Extended(P', "p") /\ Extended(O', "o")
    <3> HIDE DEF Extended
    <3> QED BY <2>2, <2>3, <2>4, <2>5 DEF Fields
  <2> QED BY <2>6 DEF Column, Passed
<1> QED BY <1>2, <1>3, <1>4

(* The inner loop is through: it has passed every node of the triple. *)
LEMMA NextTripleStep == ASSUME Inv, NextTriple PROVE Inv'
<1> USE DEF Inv, NextTriple, store
<1>1. TypeOK'
  BY DEF TypeOK
<1>2. Stored' /\ Loading' /\ CleanLoadMaps'
  BY DEF Stored, Loading, CleanLoadMaps, Joined
<1>3. Joining'
  <2> SUFFICES ASSUME ~lossy, AllPlain
               PROVE  Column(S, "s")' /\ Column(P, "p")' /\ Column(O, "o")'
    BY DEF Joining, AllPlain
  <2>1. \A f \in Fields : Passed(f)
    <3>1. done + 1 \in 1..Len(got) /\ Covers(names, got)
      BY DEF TypeOK, Loading
    <3> QED BY <3>1 DEF Covers, In, Passed
  <2>2. Column(S, "s") /\ Column(P, "p") /\ Column(O, "o")
    BY DEF Joining
  <2>3. ~Passed("s")' /\ ~Passed("p")' /\ ~Passed("o")'
    BY DEF Passed
  <2>4. ASSUME NEW f \in Fields, NEW V, Column(V, f)
        PROVE  Len(V) = done + 1 /\ \A i \in 1..Len(V) : V[i] = got[i][f]
    BY <2>1, <2>4 DEF Column
  <2>5. Len(S) = done + 1 /\ Len(P) = done + 1 /\ Len(O) = done + 1
    BY <2>2, <2>4 DEF Fields
  <2>6. /\ \A i \in 1..Len(S) : S[i] = got[i]["s"]
        /\ \A i \in 1..Len(P) : P[i] = got[i]["p"]
        /\ \A i \in 1..Len(O) : O[i] = got[i]["o"]
    BY <2>2 DEF Column
  <2>7. done' = done + 1 /\ done + 1 \in Nat /\ UNCHANGED <<S, P, O, got>>
    BY DEF TypeOK
  <2> HIDE DEF Inv, NextTriple
  <2>8. Column(S, "s")'
    BY <2>3, <2>5, <2>6, <2>7 DEF Column
  <2>9. Column(P, "p")'
    BY <2>3, <2>5, <2>6, <2>7 DEF Column
  <2> QED BY <2>3, <2>5, <2>6, <2>7, <2>8, <2>9 DEF Column
<1> QED BY <1>1, <1>2, <1>3

LEMMA BuildTreeStep == ASSUME Inv, BuildTree PROVE Inv'
<1> USE DEF Inv, BuildTree, store
<1>1. TypeOK' /\ Stored' /\ Loading' /\ Joining'
  BY DEF TypeOK, Stored, Loading, Joining
<1>2. CleanLoadMaps'
  <2> SUFFICES ASSUME ~lossy, AllPlain
               PROVE  /\ pc' = "mounted"
                      /\ Len(S) = Len(got) /\ Len(P) = Len(got) /\ Len(O) = Len(got)
                      /\ \A i \in 1..Len(got) : [s |-> S[i], p |-> P[i], o |-> O[i]] = got[i]
    BY DEF CleanLoadMaps, AllPlain
  <2>1. Column(S, "s") /\ Column(P, "p") /\ Column(O, "o")
    BY DEF Joining
  <2>2. row = 0 /\ done = Len(got)
    BY DEF Loading
  <2>3. ~Passed("s") /\ ~Passed("p") /\ ~Passed("o")
    BY <2>2 DEF Passed
  <2>4. Len(S) = Len(got) /\ Len(P) = Len(got) /\ Len(O) = Len(got)
    BY <2>1, <2>2, <2>3 DEF Column, TypeOK
  <2>5. ASSUME NEW i \in 1..Len(got)
        PROVE  [s |-> S[i], p |-> P[i], o |-> O[i]] = got[i]
    <3>1. S[i] = got[i].s /\ P[i] = got[i].p /\ O[i] = got[i].o
      BY <2>1, <2>4 DEF Column
    <3>2. got[i] \in Triples
      BY StoreAssumption DEF TypeOK
    <3> QED BY <3>1, <3>2 DEF Triples
  <2>6. pc' = "mounted"
    BY <2>4 DEF TypeOK
  <2> QED BY <2>4, <2>5, <2>6
<1> QED BY <1>1, <1>2

LEMMA RestartStep == ASSUME Inv, Restart PROVE Inv'
<1> USE DEF Inv, Restart, store
<1>1. TypeOK'
  <2>1. Len(<<>>) = 0 /\ <<>> \in Seq(Facts) /\ <<>> \in Seq(Ids)
    OBVIOUS
  <2>2. done' \in 0..Len(got') /\ row' \in 0..Len(names')
    BY <2>1
  <2> QED BY <2>1, <2>2 DEF TypeOK
<1>2. Stored' /\ Loading' /\ Joining' /\ CleanLoadMaps'
  BY DEF Stored, Loading, Joining, CleanLoadMaps, Joined
<1> QED BY <1>1, <1>2

LEMMA InvInit == Init => Inv
<1> SUFFICES ASSUME Init PROVE Inv
  OBVIOUS
<1>1. TypeOK
  <2>1. Len(<<>>) = 0 /\ <<>> \in Seq(Facts) /\ <<>> \in Seq(Ids)
    OBVIOUS
  <2>2. done \in 0..Len(got) /\ row \in 0..Len(names)
    BY <2>1 DEF Init
  <2> QED BY <2>1, <2>2 DEF Init, TypeOK
<1>2. Stored
  BY DEF Init, Stored, Distinct, Covers
<1>3. Loading /\ Joining /\ CleanLoadMaps
  BY DEF Init, Loading, Joining, CleanLoadMaps, Joined
<1> QED BY <1>1, <1>2, <1>3 DEF Inv

LEMMA InvStep == Inv /\ [Next]_vars => Inv'
<1> SUFFICES ASSUME Inv, [Next]_vars PROVE Inv'
  OBVIOUS
<1>1. CASE UNCHANGED vars
  <2> USE <1>1 DEF vars, run, store, Inv
  <2>1. TypeOK' /\ Stored' /\ Loading'
    BY DEF TypeOK, Stored, Loading
  <2>2. Joining' /\ CleanLoadMaps'
    BY DEF Joining, Column, AllPlain, Passed, CleanLoadMaps, Joined
  <2> QED BY <2>1, <2>2
<1>2. CASE Next
  <2>1. ASSUME NEW k \in 0..MaxTriples, SelectTriples(k) PROVE Inv'
    BY <2>1, SelectTriplesStep, StoreAssumption
  <2>2. ASSUME NEW k \in 0..3 * MaxTriples, SelectNodes(k) PROVE Inv'
    BY <2>2, SelectNodesStep, StoreAssumption
  <2> QED BY <1>2, <2>1, <2>2, PublishStep, DeleteStep, JoinNodeStep, NextTripleStep,
             BuildTreeStep, RestartStep DEF Next
<1> QED BY <1>1, <1>2

LEMMA Invariance == Spec => []Inv
BY InvInit, InvStep, PTL DEF Spec

(* The vectors, the two loops' counters and the rows read keep their types, *)
(* in particular no loop of getAllTriplesText runs past its end.            *)
THEOREM TypeCorrect == Spec => []TypeOK
BY Invariance, PTL DEF Inv

(* For any store and whatever is published and deleted meanwhile, a load    *)
(* that was not cut short maps every triple of three different nodes to its *)
(* own row (getAllTriplesText).                                             *)
THEOREM LoadsMap == Spec => []CleanLoadMaps
BY Invariance, PTL DEF Inv
=============================================================================
