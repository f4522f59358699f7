---------------------------- MODULE SqliteMapping ----------------------------
(***************************************************************************)
(* sibfs maps the SQLite database of a running SIB to a file system.  It   *)
(* reads the triples, then the nodes, in two statements without a          *)
(* transaction, and joins them by a nested loop into the vectors S, P and  *)
(* O.  The SIB (external) goes on storing what knowledge processors        *)
(* publish and delete.  A node's text is identified with its id.           *)
(***************************************************************************)
EXTENDS Naturals, Sequences

CONSTANTS
  Ids,        \* nodes
  Facts,      \* the triples knowledge processors publish
  MaxTriples  \* bound: triples in the store

Triples == [s : Ids, p : Ids, o : Ids]

ASSUME StoreAssumption == Facts \subseteq Triples /\ MaxTriples \in Nat

VARIABLES
  triples,  \* table triple of the SIB's database, in row order
  nodes,    \* table node
  pc,       \* where sibfs is
  got,      \* the triples it read
  names,    \* the nodes it read
  done,     \* triples joined
  row,      \* nodes the inner loop has passed for the next one
  S, P, O,  \* the vectors
  lossy     \* history: a query of this run was cut short, or the nodes were
            \* removed between the two

store == <<triples, nodes>>
run == <<pc, got, names, done, row, S, P, O>>
vars == <<store, run, lossy>>

In(x, seq) == \E i \in 1..Len(seq) : seq[i] = x
WithNode(ns, x) == IF In(x, ns) THEN ns ELSE Append(ns, x)

Init ==
  /\ triples = <<>> /\ nodes = <<>>
  /\ pc = "triples"
  /\ got = <<>> /\ names = <<>> /\ done = 0 /\ row = 0
  /\ S = <<>> /\ P = <<>> /\ O = <<>>
  /\ lossy = FALSE

-----------------------------------------------------------------------------
(* A knowledge processor inserts a triple (publish_content.py). *)
Publish(t) ==
  /\ Len(triples) < MaxTriples
  /\ ~In(t, triples)
  /\ triples' = Append(triples, t)
  /\ nodes' = WithNode(WithNode(WithNode(nodes, t.s), t.p), t.o)
  /\ UNCHANGED <<run, lossy>>

(* One removes them all (del_content.py); the SIB may keep the nodes. *)
Delete ==
  /\ triples # <<>>
  /\ triples' = <<>>
  /\ nodes' \in {nodes, <<>>}
  /\ lossy' = (lossy \/ (pc = "nodes" /\ nodes' # nodes))
  /\ UNCHANGED run

-----------------------------------------------------------------------------
(* DB::query gives the rows up to the first step that is not SQLITE_ROW:    *)
(* the end, an error, or a database the SIB is writing to.                  *)
SelectTriples(k) ==
  /\ pc = "triples"
  /\ k <= Len(triples)
  /\ got' = SubSeq(triples, 1, k)
  /\ lossy' = (lossy \/ k < Len(triples))
  /\ pc' = "nodes"
  /\ UNCHANGED <<store, names, done, row, S, P, O>>

SelectNodes(k) ==
  /\ pc = "nodes"
  /\ k <= Len(nodes)
  /\ names' = SubSeq(nodes, 1, k)
  /\ lossy' = (lossy \/ k < Len(nodes))
  /\ pc' = "join"
  /\ UNCHANGED <<store, got, done, row, S, P, O>>

(* A fault: the inner loop stops at the first node that matches.            *)
JoinFirstMatch ==
  /\ pc = "join" /\ done < Len(got) /\ row < Len(names)
  /\ LET t == got[done + 1]
         n == names[row + 1]
     IN /\ S' = IF n = t.s THEN Append(S, n) ELSE S
        /\ P' = IF n = t.p /\ n # t.s THEN Append(P, n) ELSE P
        /\ O' = IF n = t.o /\ n \notin {t.s, t.p} THEN Append(O, n) ELSE O
        /\ row' = IF n \in {t.s, t.p, t.o} THEN Len(names) ELSE row + 1
  /\ UNCHANGED <<store, pc, got, names, done, lossy>>

(* A fault: the outer loop's test is it <= end().                           *)
NextPastEnd ==
  /\ pc = "join" /\ done <= Len(got) /\ row = Len(names)
  /\ done' = done + 1 /\ row' = 0
  /\ UNCHANGED <<store, pc, got, names, S, P, O, lossy>>

(* One node of getAllTriplesText's inner loop: it goes to the first of S,   *)
(* P, O whose node it is.                                                   *)
JoinNode ==
  /\ pc = "join" /\ done < Len(got) /\ row < Len(names)
  /\ LET t == got[done + 1]
         n == names[row + 1]
     IN /\ S' = IF n = t.s THEN Append(S, n) ELSE S
        /\ P' = IF n = t.p /\ n # t.s THEN Append(P, n) ELSE P
        /\ O' = IF n = t.o /\ n \notin {t.s, t.p} THEN Append(O, n) ELSE O
  /\ row' = row + 1
  /\ UNCHANGED <<store, pc, got, names, done, lossy>>

(* The outer loop goes on when the inner one is through. *)
NextTriple ==
  /\ pc = "join" /\ done < Len(got) /\ row = Len(names)
  /\ done' = done + 1 /\ row' = 0
  /\ UNCHANGED <<store, pc, got, names, S, P, O, lossy>>

(* main builds the tree; O.at(i) ends the program when there are fewer      *)
(* objects than predicates.                                                 *)
BuildTree ==
  /\ pc = "join" /\ done = Len(got)
  /\ pc' = IF Len(P) <= Len(O) THEN "mounted" ELSE "aborted"
  /\ UNCHANGED <<store, got, names, done, row, S, P, O, lossy>>

(* sibfs is unmounted, or gone, and started again. *)
Restart ==
  /\ pc \in {"mounted", "aborted"}
  /\ pc' = "triples"
  /\ got' = <<>> /\ names' = <<>> /\ done' = 0 /\ row' = 0
  /\ S' = <<>> /\ P' = <<>> /\ O' = <<>>
  /\ lossy' = FALSE
  /\ UNCHANGED store

Next ==
  \/ \E t \in Facts : Publish(t)
  \/ Delete
  \/ \E k \in 0..MaxTriples : SelectTriples(k)
  \/ \E k \in 0..3 * MaxTriples : SelectNodes(k)
  \/ JoinNode \/ NextTriple \/ BuildTree \/ Restart

Spec == Init /\ [][Next]_vars
-----------------------------------------------------------------------------
TypeOK ==
  /\ triples \in Seq(Facts) /\ nodes \in Seq(Ids)
  /\ pc \in {"triples", "nodes", "join", "mounted", "aborted"}
  /\ got \in Seq(Facts) /\ names \in Seq(Ids)
  /\ done \in 0..Len(got) /\ row \in 0..Len(names)
  /\ S \in Seq(Ids) /\ P \in Seq(Ids) /\ O \in Seq(Ids)
  /\ lossy \in BOOLEAN

Plain(t) == t.s # t.p /\ t.s # t.o /\ t.p # t.o
Joined == pc \in {"mounted", "aborted"}

(* If both queries ran to the end, nothing was deleted between them and no  *)
(* triple uses a node twice, then sibfs mounts, and row i of S, P, O is the *)
(* i-th triple read, whatever was published meanwhile.                      *)
CleanLoadMaps ==
  Joined /\ ~lossy /\ (\A i \in 1..Len(got) : Plain(got[i])) =>
    /\ pc = "mounted"
    /\ Len(S) = Len(got) /\ Len(P) = Len(got) /\ Len(O) = Len(got)
    /\ \A i \in 1..Len(got) : [s |-> S[i], p |-> P[i], o |-> O[i]] = got[i]

(* db.cpp:73 selects "all triples and it's text data": a load that saw them *)
(* all has a row for each.                                                  *)
AllTriplesMapped == Joined /\ ~lossy => Len(O) = Len(got)
=============================================================================
