------------------------- MODULE TripleTablesProofs -------------------------
(***************************************************************************)
(* Theorems about the three tables and the three vectors, for any number   *)
(* of rows and any bounds.  That even tables agree needs more than itself: *)
(* while db_s is open the tables keep the order of the code's puts, s      *)
(* never shorter than p, p never shorter than o, and a table whose handle  *)
(* is not open is empty.  The last part adds testfs beside bdb_vfs, from   *)
(* module TripleReader.                                                    *)
(***************************************************************************)
EXTENDS TripleReader, SequenceTheorems, TLAPS

Ordered ==
  handle["s"] = "open" =>
    /\ Len(table["o"]) <= Len(table["p"])
    /\ Len(table["p"]) <= Len(table["s"])
    /\ Len(table["o"]) = Len(table["s"]) =>
         table["s"] = table["p"] /\ table["p"] = table["o"]

Shut == \A t \in Tables : handle[t] # "open" => table[t] = <<>>

Inv == TypeOK /\ VectorsParallel /\ Ordered /\ Shut

(* The puts fill s before p and p before o, and no table gets more than R.  *)
LEMMA Puts ==
  ASSUME NEW n \in 0..3 * R
  PROVE  /\ \A t \in Tables : PutsInto(t, n) \in 0..R
         /\ PutsInto("p", n) > 0 => PutsInto("s", n) = R
         /\ PutsInto("o", n) > 0 => PutsInto("p", n) = R
BY TablesAssumption DEF PutsInto, Least, Rank, Tables

LEMMA RowsType ==
  ASSUME NEW k \in 0..R
  PROVE  Rows(k) \in Contents /\ Len(Rows(k)) = k
BY TablesAssumption DEF Rows, Contents

LEMMA ConcatType ==
  ASSUME NEW f \in Contents, NEW g \in Contents
  PROVE  f \o g \in Contents /\ Len(f \o g) = Len(f) + Len(g)
BY DEF Contents

LEMMA PrefixType ==
  ASSUME NEW f \in Contents, NEW k \in 0..Len(f)
  PROVE  SubSeq(f, 1, k) \in Contents /\ Len(SubSeq(f, 1, k)) = k
<1>1. Len(f) \in Nat
  BY DEF Contents
<1>2. \A i \in 1..Len(f) : f[i] \in 1..R
  BY ElementOfSeq DEF Contents
<1>3. k \in Nat /\ \A i \in 1..k : f[i] \in 1..R
  BY <1>1, <1>2
<1> QED BY <1>3, SubSeqProperties DEF Contents

(* A load keeps the order of the tables and their agreement when even.      *)
LEMMA LoadKeepsOrder ==
  ASSUME TypeOK, Ordered, Shut, NEW n \in 0..3 * R, InsertDbData(n)
  PROVE  /\ Ordered' /\ Shut'
         /\ table' \in [Tables -> Contents]
<1> DEFINE put(t) == PutsInto(t, n)
<1>1. /\ put("s") \in 0..R /\ put("p") \in 0..R /\ put("o") \in 0..R
      /\ put("p") > 0 => put("s") = R
      /\ put("o") > 0 => put("p") = R
  BY Puts DEF Tables
<1>2. \A t \in Tables : table'[t] = table[t] \o Rows(put(t))
  BY DEF InsertDbData
<1>3. \A t \in Tables : table[t] \in Contents /\ Rows(put(t)) \in Contents
                        /\ Len(Rows(put(t))) = put(t)
  BY Puts, RowsType DEF TypeOK
<1>4. \A t \in Tables : table'[t] \in Contents /\ Len(table'[t]) = Len(table[t]) + put(t)
  BY <1>2, <1>3, ConcatType
<1>5. table' \in [Tables -> Contents]
  BY <1>2, <1>4 DEF InsertDbData
<1>6. Shut'
  <2>1. \A t \in Tables : handle[t] # "open" => put(t) = 0
    BY <1>1 DEF InsertDbData, Tables
  <2>2. handle' = handle
    BY DEF InsertDbData
  <2> QED BY <1>2, <1>3, <2>1, <2>2 DEF Shut, Contents
<1>7. Ordered'
  <2> SUFFICES ASSUME handle["s"] = "open" PROVE Ordered'
    BY DEF Ordered, InsertDbData
  <2>1. /\ Len(table["s"]) \in Nat /\ Len(table["p"]) \in Nat /\ Len(table["o"]) \in Nat
        /\ Len(table'["s"]) = Len(table["s"]) + put("s")
        /\ Len(table'["p"]) = Len(table["p"]) + put("p")
        /\ Len(table'["o"]) = Len(table["o"]) + put("o")
    <3>1. \A t \in Tables : Len(table[t]) \in Nat
      BY <1>3 DEF Contents
    <3> HIDE DEF put
    <3> QED BY <1>4, <3>1 DEF Tables
  <2>2. /\ Len(table["o"]) <= Len(table["p"])
        /\ Len(table["p"]) <= Len(table["s"])
        /\ Len(table["o"]) = Len(table["s"]) =>
             table["s"] = table["p"] /\ table["p"] = table["o"]
    BY DEF Ordered
  <2> HIDE DEF put
  <2>3. put("o") <= put("p") /\ put("p") <= put("s")
    BY <1>1, TablesAssumption
  <2>4. Len(table'["o"]) <= Len(table'["p"]) /\ Len(table'["p"]) <= Len(table'["s"])
    BY <1>1, <2>1, <2>2, <2>3, TablesAssumption
  <2>5. ASSUME Len(table'["o"]) = Len(table'["s"])
        PROVE  table'["s"] = table'["p"] /\ table'["p"] = table'["o"]
    <3>0. put("s") \in Nat /\ put("p") \in Nat /\ put("o") \in Nat
      BY <1>1, TablesAssumption
    <3>1. /\ put("s") = put("p") /\ put("p") = put("o")
          /\ Len(table["o"]) = Len(table["s"])
      <4> DEFINE a == Len(table["s"])
                 b == Len(table["o"])
      <4>1. a + put("s") = b + put("o") /\ a \in Nat /\ b \in Nat /\ b <= a
        BY <2>1, <2>2, <2>5
      <4> HIDE DEF a, b
      <4>2. put("s") = put("o") /\ a = b
        BY <2>3, <3>0, <4>1
      <4> QED BY <2>3, <3>0, <4>2 DEF a, b
    <3>2. table["s"] = table["p"] /\ table["p"] = table["o"]
      BY <2>2, <3>1
    <3> QED BY <1>2, <3>1, <3>2 DEF Tables
  <2> QED BY <2>4, <2>5 DEF Ordered
<1> QED BY <1>5, <1>6, <1>7

(* Closing shuts db_s first, so that what is left open no longer counts.    *)
LEMMA CloseKeepsOrder ==
  ASSUME TypeOK, Shut, NEW n \in 0..3, Closes(n)
  PROVE  /\ Ordered' /\ Shut'
         /\ handle' \in [Tables -> {"new", "open", "failed", "closed"}]
         /\ table' \in [Tables -> Contents]
         /\ disk' \in [Tables -> {Missing} \cup Contents]
<1>1. handle'["s"] = "closed"
  BY DEF Closes, Tables, Rank
<1>2. <<>> \in Contents
  BY DEF Contents
<1> QED BY <1>1, <1>2 DEF TypeOK, Closes, Ordered, Shut

LEMMA LockstepType ==
  ASSUME NEW f \in [Tables -> Contents]
  PROVE  /\ Lockstep(f) \in Nat
         /\ \A t \in Tables : Len(f[t]) \in Nat /\ Lockstep(f) <= Len(f[t])
<1>1. \A t \in Tables : Len(f[t]) \in Nat
  BY DEF Contents
<1>2. Len(f["s"]) \in Nat /\ Len(f["p"]) \in Nat /\ Len(f["o"]) \in Nat
  BY <1>1 DEF Tables
<1> QED BY <1>1, <1>2 DEF Lockstep, Least, Tables

(* A walk takes no more of a later table than of an earlier one, and from   *)
(* none more than it has.                                                   *)
LEMMA Takes ==
  ASSUME TypeOK, NEW k \in Nat, NEW j \in 0..2, PrintDbData(k, j), NEW t \in Tables
  PROVE  /\ Taken(t, k, j) \in 0..Len(table[t])
         /\ Taken(t, k, j) <= Lockstep(table)
         /\ \A u \in Tables : Rank[t] <= Rank[u] => Taken(u, k, j) <= Taken(t, k, j)
<1>1. /\ Lockstep(table) \in Nat
      /\ Len(table[t]) \in Nat /\ Lockstep(table) <= Len(table[t])
  BY LockstepType DEF TypeOK
<1>2. Taken("s", k, j) <= Lockstep(table)
  BY DEF PrintDbData
<1>3. \A u \in Tables : /\ Taken(u, k, j) \in Nat
                        /\ Taken(u, k, j) <= Taken("s", k, j)
  BY DEF Taken, Rank, Tables
<1>4. \A u \in Tables : Rank[t] <= Rank[u] => Taken(u, k, j) <= Taken(t, k, j)
  BY DEF Taken, Rank, Tables
<1> QED BY <1>1, <1>2, <1>3, <1>4, LockstepType DEF Tables

(* printDbData appends so much to each vector.                              *)
LEMMA PrintKeepsParallel ==
  ASSUME TypeOK, VectorsParallel, NEW k \in Nat, NEW j \in 0..2, PrintDbData(k, j)
  PROVE  /\ VectorsParallel'
         /\ \A t \in Tables : /\ vec'[t] \in Contents
                              /\ Len(vec'[t]) = Len(vec[t]) + Taken(t, k, j)
         /\ vec' \in [Tables -> Contents]
<1>1. \A t \in Tables : table[t] \in Contents /\ vec[t] \in Contents /\ Len(vec[t]) \in Nat
  BY DEF TypeOK, Contents
<1>2. \A t \in Tables : Taken(t, k, j) \in 0..Len(table[t])
  BY Takes
<1>3. \A t \in Tables : /\ SubSeq(table[t], 1, Taken(t, k, j)) \in Contents
                        /\ Len(SubSeq(table[t], 1, Taken(t, k, j))) = Taken(t, k, j)
  BY <1>1, <1>2, PrefixType
<1>4. \A t \in Tables : vec'[t] = vec[t] \o SubSeq(table[t], 1, Taken(t, k, j))
  BY DEF PrintDbData
<1>5. \A t \in Tables : vec'[t] \in Contents /\ Len(vec'[t]) = Len(vec[t]) + Taken(t, k, j)
  BY <1>1, <1>3, <1>4, ConcatType
<1>6. ASSUME NEW t \in Tables, NEW u \in Tables, Rank[t] <= Rank[u]
      PROVE  Len(vec'[u]) <= Len(vec'[t])
  <2>1. Taken(u, k, j) <= Taken(t, k, j) /\ Taken(u, k, j) \in Nat /\ Taken(t, k, j) \in Nat
    BY <1>6, Takes DEF Taken
  <2>2. Len(vec[u]) <= Len(vec[t])
    BY <1>6 DEF VectorsParallel
  <2> QED BY <1>1, <1>5, <2>1, <2>2
<1>7. mode' = "menu"
  BY DEF PrintDbData
<1>8. vec' \in [Tables -> Contents]
  BY <1>5 DEF PrintDbData
<1>9. VectorsParallel'
  BY <1>6, <1>7 DEF VectorsParallel
<1> QED BY <1>5, <1>8, <1>9

-----------------------------------------------------------------------------
LEMMA InvInit == Init => Inv
<1>1. <<>> \in Contents
  BY DEF Contents
<1>2. Init => VectorsParallel
  BY DEF Init, VectorsParallel, Empty, Tables
<1> QED
  BY <1>1, <1>2 DEF Init, Inv, TypeOK, Ordered, Shut, Empty, Tables

LEMMA InvStep == Inv /\ [Next]_vars => Inv'
<1> SUFFICES ASSUME Inv, [Next]_vars PROVE Inv'
  OBVIOUS
<1> USE DEF Inv
<1>1. CASE UNCHANGED vars
  BY <1>1 DEF vars, TypeOK, VectorsParallel, Ordered, Shut
<1>2. ASSUME NEW n \in 0..3, CreateDb(n) PROVE Inv'
  <2>1. \A t \in Tables : table[t] = <<>>
    BY <1>2 DEF CreateDb, Shut
  <2>2. <<>> \in Contents
    BY DEF Contents
  <2>3. TypeOK'
    BY <1>2, <2>2 DEF CreateDb, TypeOK
  <2> QED BY <1>2, <2>1, <2>3 DEF CreateDb, VectorsParallel, Ordered, Shut, Tables
<1>3. ASSUME NEW n \in 0..3, CloseDb(n) PROVE Inv'
  BY <1>3, CloseKeepsOrder DEF CloseDb, TypeOK, VectorsParallel
<1>4. ASSUME NEW n \in 0..3, CreateDbVfs(n) PROVE Inv'
  <2>1. SetOf(vec["p"]) \subseteq 1..R
    <3>1. vec["p"] \in Seq(1..R)
      BY DEF TypeOK, Contents, Tables
    <3>2. \A i \in 1..Len(vec["p"]) : vec["p"][i] \in 1..R
      BY <3>1, ElementOfSeq
    <3> QED BY <3>2 DEF SetOf
  <2>2. tree' \subseteq {"subjects", "objects", "predicates"} \X (1..R)
    BY <1>4, <2>1 DEF CreateDbVfs, TypeOK
  <2>3. Ordered' /\ Shut'
        /\ handle' \in [Tables -> {"new", "open", "failed", "closed"}]
        /\ table' \in [Tables -> Contents]
        /\ disk' \in [Tables -> {Missing} \cup Contents]
    BY <1>4, CloseKeepsOrder DEF CreateDbVfs
  <2>4. Len(vec["p"]) = Len(vec["o"])
    <3>1. Len(vec["o"]) <= Len(vec["p"]) /\ Len(vec["p"]) <= Len(vec["o"])
      BY <1>4 DEF CreateDbVfs, VectorsParallel, Rank, Tables
    <3>2. Len(vec["p"]) \in Nat /\ Len(vec["o"]) \in Nat
      BY DEF TypeOK, Contents, Tables
    <3> QED BY <3>1, <3>2
  <2>5. VectorsParallel'
    BY <1>4, <2>4 DEF CreateDbVfs, VectorsParallel
  <2> QED BY <1>4, <2>2, <2>3, <2>5 DEF CreateDbVfs, TypeOK
<1>5. ASSUME NEW n \in 0..3 * R, InsertDbData(n) PROVE Inv'
  <2>1. retried' \in BOOLEAN
    BY <1>5 DEF InsertDbData, TypeOK
  <2> QED
    BY <1>5, <2>1, LoadKeepsOrder DEF InsertDbData, TypeOK, VectorsParallel
<1>6. ASSUME NEW k \in 0..MaxVec, NEW j \in 0..2, PrintDbData(k, j) PROVE Inv'
  <2>1. VectorsParallel' /\ vec' \in [Tables -> Contents]
    BY <1>6, PrintKeepsParallel, TablesAssumption
  <2> QED BY <1>6, <2>1 DEF PrintDbData, TypeOK, Ordered, Shut
<1>7. CASE Unmount
  BY <1>7 DEF Unmount, TypeOK, VectorsParallel, Ordered, Shut
<1>8. CASE Crash
  <2>1. <<>> \in Contents
    BY DEF Contents
  <2> QED
    BY <1>8, <2>1 DEF Crash, TypeOK, VectorsParallel, Ordered, Shut, Empty, Tables
<1>9. ASSUME NEW t \in Tables, Evict(t) PROVE Inv'
  BY <1>9 DEF Evict, TypeOK, VectorsParallel, Ordered, Shut
<1> QED BY <1>1, <1>2, <1>3, <1>4, <1>5, <1>6, <1>7, <1>8, <1>9 DEF Next

LEMMA Invariance == Spec => []Inv
BY InvInit, InvStep, PTL DEF Spec

(* Every variable keeps its type. *)
THEOREM TypeCorrect == Spec => []TypeOK
BY Invariance, PTL DEF Inv

(* For any number of rows: no vector grows longer than one filled before    *)
(* it, and while the tree is mounted each predicate has an object, also     *)
(* when a walk of printDbData ended between two push_backs.                 *)
THEOREM VectorsStayParallel == Spec => []VectorsParallel
BY Invariance, PTL DEF Inv

LEMMA EvenAgree == Inv => EvenTablesAgree
<1> SUFFICES ASSUME Inv, Even(table) PROVE \A t, u \in Tables : table[t] = table[u]
  BY DEF EvenTablesAgree
<1>1. Len(table["s"]) = Len(table["p"]) /\ Len(table["p"]) = Len(table["o"])
  BY DEF Even, Tables
<1>2. CASE handle["s"] = "open"
  BY <1>1, <1>2 DEF Inv, Ordered, Tables
<1>3. CASE handle["s"] # "open"
  <2>1. table["s"] = <<>>
    BY <1>3 DEF Inv, Shut, Tables
  <2>2. \A t \in Tables : table[t] \in Contents /\ Len(table[t]) = 0
    BY <1>1, <2>1 DEF Inv, TypeOK, Tables
  <2> QED BY <2>2 DEF Contents
<1> QED BY <1>2, <1>3

(* Tables of one length hold the same rows at the same places, however many *)
(* loads threw halfway.                                                     *)
THEOREM EvenTablesStayInStep == Spec => []EvenTablesAgree
BY Invariance, EvenAgree, PTL

-----------------------------------------------------------------------------
(* Rows at one place of the three tables belong together until a load that  *)
(* threw is tried again, and vectors are filled only while all are open.    *)
Genuine == ~retried => SameRows(table) /\ Agree(vec)
Unprinted == (\E t \in Tables : handle[t] = "new") => vec = Empty

LEMMA NothingSame == SameRows(Empty) /\ Agree(Empty)
BY DEF SameRows, Agree, Lockstep, Least, Empty, Tables

(* Sequences of one length that agree still agree when each is followed by  *)
(* one of three that agree.                                                 *)
LEMMA ConcatSame ==
  ASSUME NEW f \in [Tables -> Contents], NEW g \in [Tables -> Contents],
         NEW h \in [Tables -> Contents],
         Even(f), SameRows(f), SameRows(g), \A t \in Tables : h[t] = f[t] \o g[t]
  PROVE  SameRows(h)
<1> SUFFICES ASSUME NEW i \in 1..Lockstep(h), NEW t \in Tables, NEW u \in Tables
             PROVE  h[t][i] = h[u][i]
  BY DEF SameRows
<1>1. \A v \in Tables : /\ f[v] \in Contents /\ g[v] \in Contents
                        /\ Len(h[v]) = Len(f[v]) + Len(g[v])
  BY ConcatType
<1> DEFINE n == Len(f["s"])
<1>2. n \in Nat /\ \A v \in Tables : Len(f[v]) = n
  BY LockstepType DEF Even, Tables
<1>3. \A v \in Tables : Len(g[v]) \in Nat /\ i <= n + Len(g[v]) /\ i \in Nat /\ i >= 1
  BY <1>1, <1>2, LockstepType
<1>4. Lockstep(f) = n
  BY <1>2 DEF Lockstep, Least, Tables
<1>5. \A v \in Tables : h[v][i] = IF i <= n THEN f[v][i] ELSE g[v][i - n]
  <2> TAKE v \in Tables
  <2>1. f[v] \in Seq(1..R) /\ g[v] \in Seq(1..R) /\ i \in 1..Len(f[v]) + Len(g[v])
    BY <1>1, <1>2, <1>3 DEF Contents
  <2>2. (f[v] \o g[v])[i] = IF i <= Len(f[v]) THEN f[v][i] ELSE g[v][i - Len(f[v])]
    BY <2>1, ConcatProperties
  <2>3. h[v] = f[v] \o g[v] /\ Len(f[v]) = n
    BY <1>2
  <2> QED BY <2>2, <2>3
<1>6. CASE i <= n
  BY <1>2, <1>3, <1>4, <1>5, <1>6 DEF SameRows
<1>7. CASE i > n
  <2>1. Lockstep(g) \in Nat /\ i - n \in 1..Lockstep(g)
    BY <1>2, <1>3, <1>7, LockstepType DEF Lockstep, Least, Tables
  <2>2. g[t][i - n] = g[u][i - n]
    BY <2>1 DEF SameRows
  <2> QED BY <1>2, <1>3, <1>5, <1>7, <2>2
<1> QED BY <1>2, <1>3, <1>6, <1>7

LEMMA LoadSame ==
  ASSUME Inv, Genuine, NEW n \in 0..3 * R, InsertDbData(n), ~retried'
  PROVE  SameRows(table')
<1> DEFINE put == [t \in Tables |-> Rows(PutsInto(t, n))]
<1>1. SameRows(table) /\ (n = 0 \/ Even(table)) /\ n \in Nat
  <2>1. ~retried /\ ~(n > 0 /\ ~Even(table))
    BY Zenon DEF InsertDbData
  <2> QED BY <2>1, TablesAssumption DEF Genuine
<1>2. table \in [Tables -> Contents] /\ table' \in [Tables -> Contents]
  BY LoadKeepsOrder DEF Inv, TypeOK
<1>3. \A t \in Tables : table'[t] = table[t] \o Rows(PutsInto(t, n))
  BY DEF InsertDbData
<1>4. \A t \in Tables : /\ PutsInto(t, n) \in 0..R
                        /\ Rows(PutsInto(t, n)) \in Contents
                        /\ Len(Rows(PutsInto(t, n))) = PutsInto(t, n)
  BY Puts, RowsType
<1>5. CASE n = 0
  <2>1. \A t \in Tables : PutsInto(t, n) = 0
    BY <1>5, TablesAssumption DEF PutsInto, Least, Rank, Tables
  <2>2. \A t \in Tables : table'[t] = table[t]
    <3> TAKE t \in Tables
    <3>1. Rows(PutsInto(t, n)) = <<>>
      BY <1>4, <2>1, EmptySeq DEF Contents
    <3> QED BY <1>2, <1>3, <3>1, ConcatEmptySeq DEF Contents
  <2>3. table' = table
    BY <1>2, <2>2
  <2> QED BY <1>1, <2>3
<1>6. CASE Even(table)
  <2>1. put \in [Tables -> Contents]
    BY <1>4
  <2>2. SameRows(put)
    <3> SUFFICES ASSUME NEW i \in 1..Lockstep(put) PROVE \A t \in Tables : put[t][i] = i
      BY DEF SameRows
    <3>1. \A t \in Tables : i \in 1..PutsInto(t, n)
      BY <1>4, <2>1, LockstepType, TablesAssumption
    <3> QED BY <3>1 DEF Rows
  <2> HIDE DEF put
  <2>3. \A t \in Tables : table'[t] = table[t] \o put[t]
    BY <1>3 DEF put
  <2> QED BY <1>1, <1>2, <1>6, <2>1, <2>2, <2>3, ConcatSame
<1> QED BY <1>1, <1>5, <1>6

(* Vectors that become equally long were so before, and get rows alike.     *)
LEMMA PrintSame ==
  ASSUME Inv, Genuine, NEW k \in 0..MaxVec, NEW j \in 0..2, PrintDbData(k, j), ~retried
  PROVE  Agree(vec')
<1>0. k \in Nat
  BY TablesAssumption
<1>1. ASSUME NEW t \in Tables, NEW u \in Tables, Rank[t] <= Rank[u],
             Len(vec'[t]) = Len(vec'[u])
      PROVE  vec'[t] = vec'[u]
  <2> DEFINE m == Taken(t, k, j)
  <2>1. \A v \in {t, u} : /\ Len(vec[v]) \in Nat /\ Taken(v, k, j) \in Nat
                         /\ Len(vec'[v]) = Len(vec[v]) + Taken(v, k, j)
    BY <1>0, PrintKeepsParallel, Takes DEF Inv, TypeOK, Contents
  <2>2. Len(vec[u]) <= Len(vec[t]) /\ Taken(u, k, j) <= m
    BY <1>0, <1>1, Takes DEF Inv, VectorsParallel
  <2>3. Len(vec[u]) = Len(vec[t]) /\ Taken(u, k, j) = m
    BY <1>1, <2>1, <2>2
  <2>4. vec[t] = vec[u]
    BY <2>3 DEF Genuine, Agree
  <2>5. m \in 0..Len(table[t]) /\ m \in 0..Len(table[u]) /\ m <= Lockstep(table)
    BY <1>0, <2>3, Takes DEF Inv
  <2>6. table[t] \in Contents /\ table[u] \in Contents
        /\ Len(table[t]) \in Nat /\ Len(table[u]) \in Nat /\ Lockstep(table) \in Nat
    BY LockstepType DEF Inv, TypeOK
  <2> HIDE DEF m
  <2>7. SubSeq(table[t], 1, m) = SubSeq(table[u], 1, m)
    <3>1. \A v \in {t, u} : /\ SubSeq(table[v], 1, m) \in Seq(1..R)
                           /\ Len(SubSeq(table[v], 1, m)) = m
      BY <2>5, <2>6, PrefixType DEF Contents
    <3>2. /\ \A i \in 1..m : SubSeq(table[t], 1, m)[i] = table[t][i]
          /\ \A i \in 1..m : SubSeq(table[u], 1, m)[i] = table[u][i]
      <4>1. /\ m \in 0..Len(table[t]) /\ table[t] \in Seq(1..R)
            /\ m \in 0..Len(table[u]) /\ table[u] \in Seq(1..R)
        BY <2>5, <2>6 DEF Contents
      <4>2. \A i \in 1..m : SubSeq(table[t], 1, m)[i] = table[t][i]
        BY <4>1, SubSeqProperties
      <4>3. \A i \in 1..m : SubSeq(table[u], 1, m)[i] = table[u][i]
        BY <4>1, SubSeqProperties
      <4> QED BY <4>2, <4>3
    <3>3. ASSUME NEW i \in 1..m
          PROVE  SubSeq(table[t], 1, m)[i] = SubSeq(table[u], 1, m)[i]
      <4>1. SubSeq(table[t], 1, m)[i] = table[t][i] /\ SubSeq(table[u], 1, m)[i] = table[u][i]
        BY <3>2
      <4>2. table[t][i] = table[u][i]
        BY <2>5, <2>6 DEF Genuine, SameRows
      <4> QED BY <4>1, <4>2
    <3> QED BY <3>1, <3>3, SeqEqual
  <2> QED BY <2>3, <2>4, <2>7 DEF PrintDbData, m
<1>2. \A t, u \in Tables : Rank[t] <= Rank[u] \/ Rank[u] <= Rank[t]
  BY DEF Rank, Tables
<1> QED BY <1>1, <1>2 DEF Agree

LEMMA GenuineNext ==
  ASSUME Inv, Genuine, Unprinted, [Next]_vars
  PROVE  Genuine' /\ Unprinted'
<1> USE DEF Genuine, Unprinted
<1>1. CASE UNCHANGED vars
  BY <1>1 DEF vars, SameRows, Agree, Lockstep
<1>2. ASSUME NEW n \in 0..3, CreateDb(n) PROVE Genuine' /\ Unprinted'
  <2>1. \A t \in Tables : table[t] = <<>>
    BY <1>2 DEF CreateDb, Inv, Shut
  <2>2. SameRows(table)
    BY <2>1 DEF SameRows, Agree, Lockstep, Least, Tables
  <2>3. vec = Empty
    BY <1>2 DEF CreateDb, Tables
  <2> QED BY <1>2, <2>2, <2>3, NothingSame DEF CreateDb, SameRows, Agree, Lockstep
<1>3. ASSUME NEW n \in 0..3, Closes(n), UNCHANGED <<vec, retried>>
      PROVE  Genuine' /\ Unprinted'
  <2>1. table'["s"] = <<>>
    BY <1>3 DEF Closes, Tables, Rank
  <2>2. Lockstep(table)' <= 0 /\ Lockstep(table)' \in Nat
    BY <1>3, <2>1, CloseKeepsOrder, LockstepType DEF Inv, Tables
  <2>3. SameRows(table)'
    BY <2>2 DEF SameRows
  <2>4. \A t \in Tables : handle'[t] = "new" => handle[t] = "new"
    BY <1>3 DEF Closes
  <2> QED BY <1>3, <2>3, <2>4 DEF SameRows, Agree, Lockstep
<1>4. ASSUME NEW n \in 0..3 * R, InsertDbData(n) PROVE Genuine' /\ Unprinted'
  <2>1. UNCHANGED <<handle, vec>> /\ (~retried' => ~retried)
    BY <1>4, Zenon DEF InsertDbData
  <2>2. ~retried' => SameRows(table')
    BY <1>4, LoadSame
  <2> QED BY <2>1, <2>2
<1>5. ASSUME NEW k \in 0..MaxVec, NEW j \in 0..2, PrintDbData(k, j) PROVE Genuine' /\ Unprinted'
  <2>1. UNCHANGED <<handle, table, retried>> /\ \A t \in Tables : handle[t] = "open"
    BY <1>5 DEF PrintDbData, AllOpen
  <2>2. ~retried => Agree(vec')
    BY <1>5, PrintSame
  <2> QED BY <2>1, <2>2
<1>6. CASE Unmount
  BY <1>6 DEF Unmount, SameRows, Agree, Lockstep
<1>7. CASE Crash
  BY <1>7, NothingSame DEF Crash
<1>8. ASSUME NEW t \in Tables, Evict(t) PROVE Genuine' /\ Unprinted'
  BY <1>8 DEF Evict, SameRows, Agree, Lockstep
<1> QED
  BY <1>1, <1>2, <1>3, <1>4, <1>5, <1>6, <1>7, <1>8 DEF Next, CloseDb, CreateDbVfs

(* For any number of rows, vectors of one length, and so whatever           *)
(* printDbData took whole for a triple, hold rows that insertDbData loaded  *)
(* together, unless a load that threw was tried again.                      *)
THEOREM PrintedTriplesGenuine == Spec => []TriplesGenuine
<1>1. Init => Genuine /\ Unprinted
  BY NothingSame DEF Init, Genuine, Unprinted
<1>2. Inv /\ Genuine /\ Unprinted /\ [Next]_vars => (Genuine /\ Unprinted)'
  BY GenuineNext
<1>3. Genuine => TriplesGenuine
  BY DEF Genuine, TriplesGenuine
<1> QED BY <1>1, <1>2, <1>3, Invariance, PTL DEF Spec

-----------------------------------------------------------------------------
(* testfs beside bdb_vfs.  Its three reads fall in any three states of the  *)
(* files, so rows of different tables must agree at a distance: every       *)
(* sequence is a piece of the loaded rows over and over, and a load starts  *)
(* from whole repetitions, until a load that threw is tried again.          *)
Cyclic(seq) == \A i \in 1..Len(seq) : seq[i] = ((i - 1) % R) + 1

Straight ==
  ~retried =>
    /\ \A t \in Tables : Cyclic(table[t]) /\ (disk[t] # Missing => Cyclic(disk[t]))
    /\ Even(table) => Len(table["s"]) % R = 0

ReadStraight ==
  /\ flags = "off" => snap = Unread
  /\ flags = "create" \/ ~taint => \A t \in Tables : snap[t] # Missing => Cyclic(snap[t])

LEMMA ModRow ==
  ASSUME NEW q \in Nat, NEW r \in 0..R - 1
  PROVE  (R * q + r) % R = r
BY TablesAssumption

LEMMA WholeNext ==
  ASSUME NEW m \in Nat, m % R = 0
  PROVE  /\ \A r \in 0..R - 1 : (m + r) % R = r
         /\ (m + R) % R = 0
<1> DEFINE q == m \div R
<1>0. R \in Nat \ {0}
  BY TablesAssumption
<1>1. m = R * q /\ q \in Nat
  BY <1>0
<1>2. R * q + R = R * (q + 1) + 0
  BY <1>0, <1>1
<1>3. q + 1 \in Nat /\ 0 \in 0..R - 1
  BY <1>0, <1>1
<1> HIDE DEF q
<1> QED BY <1>1, <1>2, <1>3, ModRow

LEMMA CyclicEmpty == Cyclic(<<>>)
BY DEF Cyclic

LEMMA RowsCyclic ==
  ASSUME NEW k \in 0..R
  PROVE  Cyclic(Rows(k))
<1>1. Len(Rows(k)) = k
  BY RowsType
<1>2. ASSUME NEW i \in 1..k PROVE Rows(k)[i] = i /\ (i - 1) % R = i - 1
  <2>1. 0 \in Nat /\ 0 % R = 0 /\ i - 1 \in 0..R - 1 /\ 0 + (i - 1) = i - 1
    BY TablesAssumption
  <2> QED BY <2>1, WholeNext DEF Rows
<1> QED BY <1>1, <1>2 DEF Cyclic

(* Rows put after whole repetitions go on with the cycle. *)
LEMMA AppendCyclic ==
  ASSUME NEW f \in Contents, NEW k \in 0..R, Cyclic(f), Len(f) % R = 0
  PROVE  Cyclic(f \o Rows(k))
<1> DEFINE m == Len(f)
<1>1. m \in Nat /\ Rows(k) \in Contents /\ Len(Rows(k)) = k
  BY RowsType DEF Contents
<1>2. Len(f \o Rows(k)) = m + k
  BY <1>1, ConcatType
<1>3. ASSUME NEW i \in 1..m + k PROVE (f \o Rows(k))[i] = ((i - 1) % R) + 1
  <2>1. (f \o Rows(k))[i] = IF i <= m THEN f[i] ELSE Rows(k)[i - m]
    BY <1>1, ConcatProperties DEF Contents
  <2>2. CASE i <= m
    BY <1>1, <2>1, <2>2 DEF Cyclic
  <2>3. CASE i > m
    <3>1. i - m \in 1..k /\ i - m - 1 \in 0..R - 1 /\ m + (i - m - 1) = i - 1
      BY <1>1, <2>3, TablesAssumption
    <3>2. Rows(k)[i - m] = i - m
      BY <3>1 DEF Rows
    <3>3. (m + (i - m - 1)) % R = i - m - 1
      BY <1>1, <3>1, WholeNext
    <3>4. (i - 1) % R = i - m - 1
      BY <3>1, <3>3
    <3> QED BY <1>1, <2>1, <2>3, <3>2, <3>4
  <2> QED BY <1>1, <2>2, <2>3
<1> QED BY <1>1, <1>2, <1>3 DEF Cyclic

(* A load that is made whole, or of even tables, keeps the cycle.           *)
LEMMA LoadStraight ==
  ASSUME Inv, Straight, NEW n \in 0..3 * R, InsertDbData(n)
  PROVE  Straight'
<1> SUFFICES ASSUME ~retried' PROVE Straight'
  BY DEF Straight
<1> DEFINE put(t) == PutsInto(t, n)
<1>1. ~retried /\ ~(n > 0 /\ ~Even(table)) /\ UNCHANGED disk
  BY Zenon DEF InsertDbData
<1>2. \A t \in Tables : /\ table[t] \in Contents /\ put(t) \in 0..R
                        /\ table'[t] = table[t] \o Rows(put(t))
                        /\ Len(Rows(put(t))) = put(t)
  BY Puts, RowsType DEF InsertDbData, Inv, TypeOK
<1>3. CASE n = 0
  <2>1. \A t \in Tables : put(t) = 0
    BY <1>3, TablesAssumption DEF PutsInto, Least, Rank, Tables
  <2>2. \A t \in Tables : table'[t] = table[t]
    <3> TAKE t \in Tables
    <3>1. Rows(put(t)) = <<>>
      BY <2>1, RowsType, EmptySeq, TablesAssumption DEF Contents
    <3> QED BY <1>2, <3>1, ConcatEmptySeq DEF Contents
  <2> QED BY <1>1, <2>2 DEF Straight, Even, Tables
<1>4. CASE n > 0
  <2>1. Even(table) /\ Len(table["s"]) % R = 0
    BY <1>1, <1>4 DEF Straight
  <2>2. \A t \in Tables : Len(table[t]) = Len(table["s"])
    BY <2>1 DEF Even, Tables
  <2>3. \A t \in Tables : Cyclic(table'[t])
    BY <1>1, <1>2, <2>1, <2>2, AppendCyclic DEF Straight
  <2>4. ASSUME Even(table)' PROVE Len(table'["s"]) % R = 0
    <3>1. /\ Len(table["s"]) \in Nat
          /\ \A t \in Tables : Len(table'[t]) = Len(table["s"]) + put(t)
      <4>1. \A t \in Tables : Rows(put(t)) \in Contents /\ Len(table[t]) \in Nat
        BY <1>2, RowsType DEF Contents
      <4>2. \A t \in Tables : Len(table'[t]) = Len(table[t]) + put(t)
        BY <1>2, <4>1, ConcatType
      <4> QED BY <2>2, <4>1, <4>2 DEF Tables
    <3>2. Len(table["s"]) + put("s") = Len(table["s"]) + put("o")
      BY <2>4, <3>1 DEF Even, Tables
    <3>3. put("s") = put("o")
      BY <1>2, <3>1, <3>2, TablesAssumption DEF Tables
    <3>4. put("s") = R
      BY <1>4, <3>3, TablesAssumption DEF PutsInto, Least, Rank
    <3> HIDE DEF put
    <3> QED BY <2>1, <3>1, <3>4, WholeNext DEF Tables
  <2> QED BY <1>1, <2>3, <2>4 DEF Straight
<1> QED BY <1>3, <1>4, TablesAssumption

LEMMA StraightNext ==
  ASSUME Inv, Straight, [Next]_vars
  PROVE  Straight'
<1>0. Cyclic(<<>>) /\ Len(<<>>) % R = 0 /\ <<>> # Missing
  <2>1. Len(<<>>) = 0 /\ 0 % R = 0
    BY TablesAssumption
  <2>2. <<>> \in Seq(1..R)
    BY EmptySeq
  <2> QED BY <2>1, <2>2, CyclicEmpty, TablesAssumption
<1>1. CASE UNCHANGED <<table, disk, retried>>
  BY <1>1 DEF Straight, Even
<1>2. ASSUME NEW n \in 0..3, CreateDb(n) PROVE Straight'
  <2>1. table' = table /\ \A t \in Tables : table[t] = <<>>
    BY <1>2 DEF CreateDb, Inv, Shut
  <2>2. \A t \in Tables : disk'[t] \in {<<>>, disk[t]}
    BY <1>2 DEF CreateDb
  <2>3. ~retried' => ~retried \/ n = 3
    <3>1. ~retried' => ~retried \/ ~(n < 3)
      BY <1>2, Zenon DEF CreateDb
    <3> QED BY <3>1
  <2>4. n = 3 => \A t \in Tables : disk'[t] = <<>>
    BY <1>2 DEF CreateDb, Rank, Tables
  <2> QED BY <1>0, <2>1, <2>2, <2>3, <2>4 DEF Straight, Tables
<1>3. ASSUME NEW n \in 0..3, Closes(n), UNCHANGED retried PROVE Straight'
  <2>1. table'["s"] = <<>> /\ \A t \in Tables : table'[t] \in {<<>>, table[t]}
    BY <1>3 DEF Closes, Tables, Rank, Inv, TypeOK
  <2>2. \A t \in Tables : disk'[t] \in {table[t], disk[t]}
    BY <1>3 DEF Closes, Inv, TypeOK
  <2> QED BY <1>0, <1>3, <2>1, <2>2 DEF Straight
<1>4. ASSUME NEW n \in 0..3 * R, InsertDbData(n) PROVE Straight'
  BY <1>4, LoadStraight
<1>5. CASE Crash
  BY <1>0, <1>5 DEF Crash, Straight, Empty, Tables
<1>6. ASSUME NEW t \in Tables, Evict(t) PROVE Straight'
  BY <1>6 DEF Evict, Straight, Even, Inv, TypeOK
<1> QED BY <1>1, <1>2, <1>3, <1>4, <1>5, <1>6
        DEF Next, vars, CloseDb, CreateDbVfs, PrintDbData, Unmount

ReaderInv ==
  /\ Inv /\ Genuine /\ Unprinted
  /\ ReaderTypeOK
  /\ Straight /\ ReadStraight

(* What testfs changes of bdb_vfs's state is only the files.                *)
LEMMA FilesOnly ==
  ASSUME ReaderInv, UNCHANGED <<handle, table, vec, tree, mode, retried>>,
         disk' \in [Tables -> {Missing} \cup Contents],
         \A t \in Tables : disk'[t] = disk[t] \/ Cyclic(disk'[t])
  PROVE  Inv' /\ Genuine' /\ Unprinted' /\ TypeOK' /\ Straight'
<1>1. TypeOK'
  BY DEF ReaderInv, Inv, TypeOK
<1>2. VectorsParallel' /\ Ordered' /\ Shut' /\ Genuine' /\ Unprinted'
  BY DEF ReaderInv, Inv, VectorsParallel, Ordered, Shut, Genuine, SameRows, Agree, Lockstep,
         Unprinted
<1>3. Straight'
  BY DEF ReaderInv, Straight, Even
<1> QED BY <1>1, <1>2, <1>3 DEF Inv

LEMMA ReaderNextKeeps ==
  ASSUME ReaderInv, ReaderNext
  PROVE  ReaderInv'
<1>0. <<>> \in Contents /\ Cyclic(<<>>) /\ Missing \notin Contents
  BY CyclicEmpty, TablesAssumption DEF Contents
<1> USE DEF ReaderInv, ReaderTypeOK, ReadStraight, readerVars
<1>1. CASE Next /\ UNCHANGED readerVars
  <2>1. Inv' /\ Genuine' /\ Unprinted' /\ Straight'
    BY <1>1, InvStep, GenuineNext, StraightNext
  <2> QED BY <1>1, <2>1 DEF Inv
<1>2. ASSUME UNCHANGED vars PROVE Inv' /\ Genuine' /\ Unprinted' /\ TypeOK' /\ Straight'
  BY <1>2, FilesOnly DEF vars, TypeOK
<1>3. ASSUME NEW f \in {"read", "create"}, StartTestfs(f) PROVE ReaderInv'
  BY <1>2, <1>3 DEF StartTestfs, Unread
<1>4. CASE TestfsEnds
  BY <1>2, <1>4 DEF TestfsEnds, Unread
<1>5. ASSUME NEW t \in Tables, ReadTable(t) PROVE ReaderInv'
  <2>1. /\ snap' = [snap EXCEPT ![t] = disk[t]] /\ flags' = flags /\ flags = "read"
        /\ taint' \in BOOLEAN /\ (~taint' => ~taint /\ ~retried)
    BY <1>5, Zenon DEF ReadTable
  <2>2. ~taint' => \A u \in Tables : snap'[u] # Missing => Cyclic(snap'[u])
    BY <2>1 DEF Straight
  <2>3. snap' \in [Tables -> {Missing} \cup Contents]
    BY <2>1 DEF TypeOK
  <2> QED BY <1>2, <1>5, <2>1, <2>2, <2>3 DEF ReadTable
<1>6. ASSUME NEW t \in Tables, TruncateTable(t) PROVE ReaderInv'
  <2>1. /\ disk' = [disk EXCEPT ![t] = <<>>] /\ snap' = [snap EXCEPT ![t] = <<>>]
        /\ UNCHANGED <<handle, table, vec, tree, mode, retried, flags, taint>>
    BY <1>6 DEF TruncateTable
  <2>2. Inv' /\ Genuine' /\ Unprinted' /\ TypeOK' /\ Straight'
    BY <1>0, <2>1, FilesOnly DEF TypeOK
  <2> QED BY <1>0, <1>6, <2>1, <2>2 DEF TruncateTable
<1>7. ASSUME NEW n \in 1..3 * R, PutRows(n) PROVE ReaderInv'
  <2>1. \A t \in Tables : Rows(PutsInto(t, n)) \in Contents /\ Cyclic(Rows(PutsInto(t, n)))
    BY Puts, RowsType, RowsCyclic, TablesAssumption
  <2> QED BY <1>2, <1>7, <2>1 DEF PutRows
<1>8. ASSUME NEW t \in Tables, WriteOut(t) PROVE ReaderInv'
  <2>1. /\ disk' = [disk EXCEPT ![t] = snap[t]] /\ Cyclic(snap[t]) /\ snap[t] # Missing
        /\ UNCHANGED <<handle, table, vec, tree, mode, retried, flags, snap, taint>>
    BY <1>8 DEF WriteOut
  <2>2. Inv' /\ Genuine' /\ Unprinted' /\ TypeOK' /\ Straight'
    BY <2>1, FilesOnly DEF TypeOK
  <2> QED BY <2>1, <2>2
<1> QED BY <1>1, <1>3, <1>4, <1>5, <1>6, <1>7, <1>8 DEF ReaderNext

LEMMA ReaderInvariance == ReaderSpec => []ReaderInv
<1>1. ReaderInit => ReaderInv
  <2> SUFFICES ASSUME ReaderInit PROVE ReaderInv
    OBVIOUS
  <2>1. Inv /\ Genuine /\ Unprinted
    BY InvInit, NothingSame DEF ReaderInit, Init, Genuine, Unprinted
  <2>2. Straight
    BY CyclicEmpty, TablesAssumption, EmptySeq DEF ReaderInit, Init, Straight, Empty, Tables
  <2> QED BY <2>1, <2>2
          DEF ReaderInit, ReaderInv, ReaderTypeOK, ReadStraight, Unread, Inv
<1>2. ReaderInv /\ [ReaderNext]_allVars => ReaderInv'
  <2>1. ASSUME ReaderInv, UNCHANGED allVars PROVE ReaderInv'
    <3>1. UNCHANGED <<handle, table, disk, vec, tree, mode, retried, flags, snap, taint>>
      BY <2>1 DEF allVars, vars, readerVars
    <3>2. Inv' /\ Genuine' /\ Unprinted' /\ TypeOK' /\ Straight'
      BY <2>1, <3>1, FilesOnly DEF ReaderInv, ReaderTypeOK, TypeOK
    <3> QED BY <2>1, <3>1, <3>2 DEF ReaderInv, ReaderTypeOK, ReadStraight
  <2> QED BY <2>1, ReaderNextKeeps
<1> QED BY <1>1, <1>2, PTL DEF ReaderSpec

(* Both programs keep their types beside each other.                        *)
THEOREM ReaderTypeCorrect == ReaderSpec => []ReaderTypeOK
BY ReaderInvariance, PTL DEF ReaderInv

(* For any number of rows, what testfs walks in lockstep is made of triples *)
(* that were loaded, although it reads the tables at three moments of       *)
(* bdb_vfs's life, unless a load that threw was tried again (test.cpp).     *)
THEOREM ReadGenuine == ReaderSpec => []ReadTriplesGenuine
<1>1. ASSUME ReaderInv, AllRead, ~taint PROVE SameRows(snap)
  <2>1. snap \in [Tables -> Contents]
    BY <1>1 DEF ReaderInv, ReaderTypeOK, AllRead
  <2>2. \A t \in Tables : Cyclic(snap[t])
    BY <1>1 DEF ReaderInv, ReadStraight, AllRead
  <2> SUFFICES ASSUME NEW i \in 1..Lockstep(snap), NEW t \in Tables
               PROVE  snap[t][i] = ((i - 1) % R) + 1
    BY DEF SameRows
  <2>3. i \in 1..Len(snap[t])
    BY <2>1, LockstepType
  <2> QED BY <2>2, <2>3 DEF Cyclic
<1> QED BY <1>1, ReaderInvariance, PTL DEF ReadTriplesGenuine

(* What is proved of bdb_vfs alone holds with testfs truncating and loading *)
(* the same files beside it.                                                *)
THEOREM BesideTestfs ==
  ReaderSpec => [](TypeOK /\ VectorsParallel /\ EvenTablesAgree /\ TriplesGenuine)
<1>1. ReaderInv => TypeOK /\ VectorsParallel /\ EvenTablesAgree /\ TriplesGenuine
  BY EvenAgree DEF ReaderInv, Inv, Genuine, TriplesGenuine
<1> QED BY <1>1, ReaderInvariance, PTL
=============================================================================
