---------------------------- MODULE TripleReader ----------------------------
(***************************************************************************)
(* The batch program testfs beside a running bdb_vfs, on the same three    *)
(* files, which bdb_vfs truncates, loads, closes or leaves behind in a     *)
(* crash.  testfs -r reads them; testfs -c truncates and loads them        *)
(* itself.  Without an environment Berkeley DB locks nothing between       *)
(* processes, and each has a cache of its own, where tables so small stay. *)
(***************************************************************************)
EXTENDS TripleTables

VARIABLES
  flags,  \* how testfs opens the files, if it runs
  snap,   \* the tables as the running testfs has them
  taint   \* history: one it read held rows of a load that was tried again

readerVars == <<flags, snap, taint>>
allVars == <<vars, readerVars>>

Unread == [t \in Tables |-> Missing]
AllRead == \A t \in Tables : snap[t] # Missing

StartTestfs(f) ==
  /\ flags = "off"
  /\ f \in {"read", "create"}
  /\ flags' = f
  /\ UNCHANGED <<vars, snap, taint>>

(* The program ends at its open when a file is missing.  Each cursor's      *)
(* first get reads its table: s, then p, then o.                            *)
ReadTable(t) ==
  /\ flags = "read"
  /\ snap[t] = Missing /\ disk[t] # Missing
  /\ \A u \in Tables : Rank[u] < Rank[t] => snap[u] # Missing
  /\ snap' = [snap EXCEPT ![t] = disk[t]]
  /\ taint' = (taint \/ retried)
  /\ UNCHANGED <<vars, flags>>

(* The three opens truncate, one after the other. *)
TruncateTable(t) ==
  /\ flags = "create"
  /\ snap[t] = Missing
  /\ \A u \in Tables : Rank[u] < Rank[t] => snap[u] # Missing
  /\ snap' = [snap EXCEPT ![t] = <<>>]
  /\ disk' = [disk EXCEPT ![t] = <<>>]
  /\ UNCHANGED <<handle, table, vec, tree, mode, retried, flags, taint>>

(* The nine puts, of which the last 3 * R - n are not made if one throws.   *)
PutRows(n) ==
  /\ flags = "create" /\ snap = Empty
  /\ snap' = [t \in Tables |-> Rows(PutsInto(t, n))]
  /\ UNCHANGED <<vars, flags, taint>>

(* What testfs has put reaches a file at its close, or before, or never if  *)
(* the program has ended.                                                   *)
WriteOut(t) ==
  /\ flags = "create" /\ snap[t] # Missing /\ disk[t] # snap[t]
  /\ disk' = [disk EXCEPT ![t] = snap[t]]
  /\ UNCHANGED <<handle, table, vec, tree, mode, retried, readerVars>>

TestfsEnds ==
  /\ flags # "off"
  /\ flags' = "off"
  /\ snap' = Unread
  /\ taint' = FALSE
  /\ UNCHANGED vars

ReaderInit == Init /\ flags = "off" /\ snap = Unread /\ taint = FALSE

ReaderNext ==
  \/ Next /\ UNCHANGED readerVars
  \/ \E f \in {"read", "create"} : StartTestfs(f)
  \/ TestfsEnds
  \/ \E t \in Tables : ReadTable(t) \/ TruncateTable(t) \/ WriteOut(t)
  \/ \E n \in 1..3 * R : PutRows(n)

ReaderSpec == ReaderInit /\ [][ReaderNext]_allVars
-----------------------------------------------------------------------------
ReaderTypeOK ==
  /\ TypeOK
  /\ flags \in {"off", "read", "create"}
  /\ snap \in [Tables -> {Missing} \cup Contents]
  /\ taint \in BOOLEAN

(* The rows testfs walks in lockstep, read one table at a time while        *)
(* bdb_vfs truncates, loads, closes or crashes, are triples that were       *)
(* loaded by either program, unless a load that threw was tried again.      *)
ReadTriplesGenuine == AllRead /\ ~taint => SameRows(snap)
=============================================================================
