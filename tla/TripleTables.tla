---------------------------- MODULE TripleTables ----------------------------
(***************************************************************************)
(* The Berkeley DB mapping of triples to a file system: the menu program   *)
(* bdb_vfs keeps subjects, predicates and objects in three tables, copies  *)
(* them into three vectors and mounts a tree built from the vectors.       *)
(* A table is an unsorted duplicate list under one key, so a sequence;     *)
(* what matters of its values is the row of the loaded data they belong    *)
(* to.  Berkeley DB (external) keeps an open table in the process's cache  *)
(* and writes it out when it likes and at close; any call may throw.       *)
(* Module TripleReader adds the batch program that reads the same files.   *)
(***************************************************************************)
EXTENDS Naturals, Sequences, FiniteSets

CONSTANTS
  R,       \* rows insertDbData loads (three in the code)
  MaxLen,  \* bound: longest table
  MaxVec,  \* bound: longest vector
  Missing  \* a table file that does not exist

ASSUME TablesAssumption ==
  /\ R \in Nat \ {0}
  /\ MaxLen \in Nat /\ MaxVec \in Nat
  /\ Missing \notin Seq(1..R)

Tables == {"s", "p", "o"}
Rank == [s |-> 0, p |-> 1, o |-> 2]  \* the order in which the code visits them

VARIABLES
  handle,   \* db_s, db_p, db_o: a Db before open, open, after a failed open, closed
  table,    \* an open table as the process sees it
  disk,     \* s.db, p.db, o.db
  vec,      \* subj_vector, pred_vector, obj_vector
  tree,     \* the paths under the fusekit root
  mode,     \* whether bdb_vfs is at its menu or inside daemon.run
  retried   \* history: rows were added to tables an earlier load left uneven

vars == <<handle, table, disk, vec, tree, mode, retried>>

-----------------------------------------------------------------------------
Least(i, j) == IF i <= j THEN i ELSE j
Rows(k) == [i \in 1..k |-> i]
(* A fault: one put too many for each table. *)
PutsIntoOneMore(t, n) == IF n <= R * Rank[t] THEN 0 ELSE Least(n - R * Rank[t], R + 1)
(* The first n of 3 * R puts, in the code's order, put this many in t.      *)
PutsInto(t, n) == IF n <= R * Rank[t] THEN 0 ELSE Least(n - R * Rank[t], R)
(* The longest walk three cursors can make in lockstep.                     *)
Lockstep(f) == Least(Len(f["s"]), Least(Len(f["p"]), Len(f["o"])))
Even(f) == \A t, u \in Tables : Len(f[t]) = Len(f[u])
SetOf(seq) == {seq[i] : i \in 1..Len(seq)}
Empty == [t \in Tables |-> <<>>]
AllOpen == \A t \in Tables : handle[t] = "open"

Init ==
  /\ handle = [t \in Tables |-> "new"]
  /\ table = Empty
  /\ disk = [t \in Tables |-> Missing]
  /\ vec = Empty
  /\ tree = {}
  /\ mode = "menu"
  /\ retried = FALSE

-----------------------------------------------------------------------------
(* A fault: the tables are opened without DB_TRUNCATE. *)
CreateDbKeeping(n) ==
  /\ mode = "menu"
  /\ \A t \in Tables : handle[t] = "new"
  /\ handle' = [t \in Tables |-> IF Rank[t] < n THEN "open" ELSE "new"]
  /\ disk' = [t \in Tables |-> IF Rank[t] < n /\ disk[t] = Missing THEN <<>> ELSE disk[t]]
  /\ table' = [t \in Tables |-> IF Rank[t] < n THEN disk'[t] ELSE <<>>]
  /\ UNCHANGED <<vec, tree, mode, retried>>

(* createDb opens and truncates n tables before an open throws, which       *)
(* leaves its handle unusable and its file as it was or truncated.  On any  *)
(* handle that is not new, set_flags throws first and nothing happens.      *)
CreateDb(n) ==
  /\ mode = "menu"
  /\ \A t \in Tables : handle[t] = "new"
  /\ handle' = [t \in Tables |-> IF Rank[t] < n THEN "open"
                                 ELSE IF Rank[t] = n THEN "failed" ELSE "new"]
  /\ \E cut \in BOOLEAN :
       disk' = [t \in Tables |-> IF Rank[t] < n \/ (Rank[t] = n /\ cut) THEN <<>> ELSE disk[t]]
  /\ retried' = (retried /\ n < 3)
  /\ UNCHANGED <<table, vec, tree, mode>>

(* A fault: every put in a try block of its own, so that one that throws    *)
(* does not keep the later ones from being made.                            *)
InsertSkipping(n) ==
  /\ mode = "menu" /\ AllOpen
  /\ \A t \in Tables : Len(table[t]) + R <= MaxLen
  /\ table' = [t \in Tables |-> table[t] \o SelectSeq(Rows(R), LAMBDA i : R * Rank[t] + i # n)]
  /\ retried' = (retried \/ (n > 0 /\ ~Even(table)))
  /\ UNCHANGED <<handle, disk, vec, tree, mode>>

(* insertDbData puts n values before a put throws.  A put needs its table   *)
(* open.  No transaction: what was put stays.                               *)
InsertDbData(n) ==
  /\ mode = "menu"
  /\ \A t \in Tables : PutsInto(t, n) > 0 => handle[t] = "open"
  /\ \A t \in Tables : Len(table[t]) + PutsInto(t, n) <= MaxLen
  /\ table' = [t \in Tables |-> table[t] \o Rows(PutsInto(t, n))]
  /\ retried' = (retried \/ (n > 0 /\ ~Even(table)))
  /\ UNCHANGED <<handle, disk, vec, tree, mode>>

(* What the walk takes of table t when it ends in its row k + 1, of which   *)
(* it has handed the first j values to the vectors.                         *)
Taken(t, k, j) == IF Rank[t] < j THEN k + 1 ELSE k

(* printDbData walks the three tables in lockstep and appends to the        *)
(* vectors; a get that throws ends the walk after k rows, a push_back that  *)
(* throws ends it within a row.  What was appended stays.                   *)
PrintDbData(k, j) ==
  /\ mode = "menu"
  /\ AllOpen
  /\ Taken("s", k, j) <= Lockstep(table)
  /\ \A t \in Tables : Len(vec[t]) + Taken(t, k, j) <= MaxVec
  /\ vec' = [t \in Tables |-> vec[t] \o SubSeq(table[t], 1, Taken(t, k, j))]
  /\ UNCHANGED <<handle, table, disk, tree, mode, retried>>

(* closeDb closes n tables before a close throws; every handle it reached   *)
(* is gone, and a handle that was gone before makes close throw.            *)
Closes(n) ==
  /\ \A t \in Tables : Rank[t] < n => handle[t] # "closed"
  /\ handle' = [t \in Tables |-> IF Rank[t] <= n THEN "closed" ELSE handle[t]]
  /\ disk' = [t \in Tables |-> IF Rank[t] < n /\ handle[t] = "open" THEN table[t] ELSE disk[t]]
  /\ table' = [t \in Tables |-> IF Rank[t] <= n THEN <<>> ELSE table[t]]

CloseDb(n) ==
  /\ mode = "menu"
  /\ Closes(n)
  /\ UNCHANGED <<vec, tree, mode, retried>>

(* A fault: obj_vector[i], which looks at no bound. *)
CreateDbVfsUnchecked(n) ==
  /\ mode = "menu"
  /\ tree' = tree \cup ({"subjects", "objects", "predicates"} \X SetOf(vec["p"]))
  /\ Closes(n)
  /\ mode' = "mounted"
  /\ UNCHANGED <<vec, retried>>

(* createDbVfs: a directory per predicate under subjects and objects, a     *)
(* file per predicate under predicates.  The objects' files go to copies of *)
(* the directories under subjects (predicates_dirs), which are dropped.     *)
(* obj_vector.at(i) throws, uncaught, if there are fewer objects.  Then it  *)
(* closes the database, whatever comes of it, and runs the daemon.          *)
CreateDbVfs(n) ==
  /\ mode = "menu"
  /\ Len(vec["p"]) <= Len(vec["o"])
  /\ tree' = tree \cup ({"subjects", "objects", "predicates"} \X SetOf(vec["p"]))
  /\ Closes(n)
  /\ mode' = "mounted"
  /\ UNCHANGED <<vec, retried>>

(* daemon.run returns when the file system is unmounted. *)
Unmount ==
  /\ mode = "mounted"
  /\ mode' = "menu"
  /\ UNCHANGED <<handle, table, disk, vec, tree, retried>>

-----------------------------------------------------------------------------
(* Berkeley DB writes a table of the cache to its file. *)
Evict(t) ==
  /\ handle[t] = "open"
  /\ disk[t] # table[t]
  /\ disk' = [disk EXCEPT ![t] = table[t]]
  /\ UNCHANGED <<handle, table, vec, tree, mode, retried>>

(* bdb_vfs ends without closing (killed, an uncaught exception, a method    *)
(* called on a closed handle) and is started again.                         *)
Crash ==
  /\ handle' = [t \in Tables |-> "new"]
  /\ table' = Empty
  /\ vec' = Empty
  /\ tree' = {}
  /\ mode' = "menu"
  /\ UNCHANGED <<disk, retried>>

-----------------------------------------------------------------------------
Next ==
  \/ \E n \in 0..3 : CreateDb(n) \/ CloseDb(n) \/ CreateDbVfs(n)
  \/ \E n \in 0..3 * R : InsertDbData(n)
  \/ \E k \in 0..MaxVec, j \in 0..2 : PrintDbData(k, j)
  \/ Unmount \/ Crash
  \/ \E t \in Tables : Evict(t)

Spec == Init /\ [][Next]_vars
-----------------------------------------------------------------------------
Contents == Seq(1..R)

TypeOK ==
  /\ handle \in [Tables -> {"new", "open", "failed", "closed"}]
  /\ table \in [Tables -> Contents]
  /\ disk \in [Tables -> {Missing} \cup Contents]
  /\ vec \in [Tables -> Contents]
  /\ tree \subseteq {"subjects", "objects", "predicates"} \X (1..R)
  /\ mode \in {"menu", "mounted"}
  /\ retried \in BOOLEAN

(* createDbVfs pairs the predicates with the objects by their places.  When *)
(* the tree is mounted each predicate had its object, however uneven the    *)
(* tables, and the walks that a throw cut short, have left the vectors: a   *)
(* later vector is never longer than an earlier one, and a shorter one of   *)
(* objects is found out.                                                    *)
VectorsParallel ==
  /\ \A t, u \in Tables : Rank[t] <= Rank[u] => Len(vec[u]) <= Len(vec[t])
  /\ mode = "mounted" => Len(vec["p"]) = Len(vec["o"])

(* A load that throws leaves the tables uneven for good: no later load,     *)
(* whole or not, evens them out.  So tables of one length, which is all a   *)
(* reader could check, hold the same rows at the same places.               *)
EvenTablesAgree ==
  Even(table) => \A t, u \in Tables : table[t] = table[u]

SameRows(f) ==
  \A i \in 1..Lockstep(f) : \A t, u \in Tables : f[t][i] = f[u][i]

Agree(f) == \A t, u \in Tables : Len(f[t]) = Len(f[u]) => f[t] = f[u]

(* What printDbData took for triples are triples that insertDbData loaded,  *)
(* unless a load that threw was tried again: two vectors of one length hold *)
(* the same rows at the same places, whatever walks were cut short.         *)
TriplesGenuine == ~retried => Agree(vec)
=============================================================================
