------------------------------ MODULE DirListing ------------------------------
(***************************************************************************)
(* getdir from end to end.  The server reads the directory once to count   *)
(* its entries, allocates, and reads it again to fill the array; the       *)
(* client hands the entries to FUSE.  Other threads of the server and      *)
(* other programs change the directory meanwhile.                          *)
(***************************************************************************)
EXTENDS Naturals, Sequences, FiniteSets, SequencesExt

CONSTANTS
  Dots,       \* the two entries a directory has until it is removed
  Files,      \* the names that come and go
  Junk,       \* what lies behind the client's array
  MaxChanges  \* bound on the changes to the directory

ASSUME DirListingAssumption ==
  /\ Dots # {} /\ Dots \cap Files = {} /\ Junk \notin Dots \cup Files
  /\ IsFiniteSet(Dots) /\ IsFiniteSet(Files)
  /\ MaxChanges \in Nat

VARIABLES
  dir,      \* the entries; none once the directory is removed
  changes,  \* how often it has been changed
  at,       \* where the call is, from the server's first opendir on
  pass,     \* the directory stream of the pass that runs, or ran last
  no,       \* the entries counted
  list,     \* the array filled, and received
  overrun,  \* the server has written past its allocation
  handed,   \* the entries given to FUSE's filler
  steady,   \* history: the entries there since the call began
  added,    \* history: the entries created since then
  cut       \* history: the passes that ended before the directory did

vars == <<dir, changes, at, pass, no, list, overrun, handed, steady, added, cut>>
server == <<no, list, overrun, cut>>
environment == <<dir, changes, steady, added>>

-----------------------------------------------------------------------------
(* readdir returns what has been there since opendir, each entry once; of   *)
(* what came or went meanwhile it may return any part, and an entry that    *)
(* was removed and created again a second time.                             *)
NoStream == [sure |-> {}, maybe |-> {}, seen |-> {}]
Opened == [sure |-> dir, maybe |-> dir, seen |-> {}]
Unread == pass.maybe \ pass.seen
AtEnd == pass.sure \subseteq pass.seen
Reading == at \in {"count", "fill"}

Init ==
  /\ \E files \in SUBSET Files : dir = Dots \cup files
  /\ changes = 0
  /\ at = "idle" /\ pass = NoStream
  /\ no = 0 /\ list = <<>> /\ overrun = FALSE /\ handed = <<>>
  /\ steady = {} /\ added = 0 /\ cut = {}

Changed(entries) ==
  /\ changes < MaxChanges
  /\ changes' = changes + 1
  /\ dir' = entries
  /\ steady' = steady \cap entries
  /\ UNCHANGED <<at, server, handed>>

Create(e) ==
  /\ dir # {} /\ e \notin dir
  /\ Changed(dir \cup {e})
  /\ pass' = IF Reading
             THEN [pass EXCEPT !.maybe = @ \cup {e}, !.seen = @ \ {e}] ELSE pass
  /\ added' = IF at = "idle" THEN added ELSE added + 1

Unlink(e) ==
  /\ e \in dir \cap Files
  /\ Changed(dir \ {e})
  /\ pass' = IF Reading THEN [pass EXCEPT !.sure = @ \ {e}] ELSE pass
  /\ UNCHANGED added

(* rmdir: a stream that is open on the directory has come to its end. *)
RemoveDir ==
  /\ dir = Dots
  /\ Changed({})
  /\ pass' = IF Reading THEN [pass EXCEPT !.sure = {}] ELSE pass
  /\ UNCHANGED added

(* readdir gives NULL at the end of the directory, and anywhere for an      *)
(* error: either ends the loop, and nothing looks at errno.                 *)
NoMore(p) == cut' = IF AtEnd THEN cut ELSE cut \cup {p}

-----------------------------------------------------------------------------
(* rxc_rxc_getdirWrapper.  opendir fails without the directory, and may     *)
(* fail with it, for want of a descriptor.                                  *)
OpenToCount ==
  /\ at = "idle" /\ dir # {}
  /\ at' = "count" /\ pass' = Opened
  /\ steady' = dir
  /\ UNCHANGED <<dir, changes, added, server, handed>>

OpenToCountFails ==
  /\ at = "idle"
  /\ at' = "failed"
  /\ UNCHANGED <<pass, server, handed, environment>>

Count(e) ==
  /\ at = "count" /\ e \in Unread
  /\ no' = no + 1
  /\ pass' = [pass EXCEPT !.seen = @ \cup {e}]
  /\ UNCHANGED <<at, list, overrun, cut, handed, environment>>

CountEnds ==
  /\ at = "count"
  /\ NoMore("count")
  /\ at' = "allocated" /\ pass' = NoStream
  /\ UNCHANGED <<no, list, overrun, handed, environment>>

AllocatedExactly == no  \* fault: malloc without the spare entry
Allocated == no + 1

OpenToFill ==
  /\ at = "allocated" /\ dir # {}
  /\ at' = "fill" /\ pass' = Opened
  /\ UNCHANGED <<server, handed, environment>>

OpenToFillIgnored ==  \* fault: 0 is returned, with the array empty
  /\ at = "allocated"
  /\ at' = "reply"
  /\ UNCHANGED <<pass, server, handed, environment>>

OpenToFillFails ==
  /\ at = "allocated"
  /\ at' = "failed"
  /\ UNCHANGED <<pass, server, handed, environment>>

(* Nothing compares the entries with the allocation.  Past its end the      *)
(* server may live on or die, and then the call fails.                      *)
Fill(e) ==
  /\ at = "fill" /\ e \in Unread
  /\ list' = Append(list, e)
  /\ overrun' = (overrun \/ Len(list') > Allocated)
  /\ at' \in IF overrun' THEN {"fill", "failed"} ELSE {"fill"}
  /\ pass' = [pass EXCEPT !.seen = @ \cup {e}]
  /\ UNCHANGED <<no, cut, handed, environment>>

FillEndsAtCount ==  \* fault: the length is the allocation's, not the entries'
  /\ at = "fill"
  /\ NoMore("fill")
  /\ list' = [i \in 1..Allocated |-> Append(list, Junk)[IF i <= Len(list) THEN i ELSE Len(list) + 1]]
  /\ at' = "reply"
  /\ UNCHANGED <<pass, no, overrun, handed, environment>>

FillEnds ==
  /\ at = "fill"
  /\ NoMore("fill")
  /\ at' = "reply"
  /\ UNCHANGED <<pass, no, list, overrun, handed, environment>>

(* Rx brings the client the array, or an error. *)
Reply ==
  /\ at = "reply"
  /\ at' \in {"hand", "failed"}
  /\ UNCHANGED <<pass, server, handed, environment>>

-----------------------------------------------------------------------------
(* xmp_getdir gives one entry more than it has received.  That one is read  *)
(* from behind the array, and without an array through a null pointer.      *)
HandSkipsFirst(full) ==  \* fault: h is advanced before its entry is handed
  /\ at = "hand" /\ list # <<>>
  /\ handed' = Append(handed, (Tail(list) \o <<Junk, Junk>>)[Len(handed) + 1])
  /\ at' = IF full \/ Len(handed) = Len(list) THEN "done" ELSE "hand"
  /\ UNCHANGED <<pass, server, environment>>

Hand(full) ==
  /\ at = "hand" /\ list # <<>>
  /\ handed' = Append(handed, Append(list, Junk)[Len(handed) + 1])
  /\ at' = IF full \/ Len(handed) = Len(list) THEN "done" ELSE "hand"
  /\ UNCHANGED <<pass, server, environment>>

Crash ==
  /\ at = "hand" /\ Len(handed) = Len(list)
  /\ at' = "crashed"
  /\ UNCHANGED <<pass, server, handed, environment>>

(* xmp_getdir returns 0, or -1 if the call failed; a client that crashed is *)
(* mounted again.                                                           *)
Return ==
  /\ at \in {"done", "failed", "crashed"}
  /\ at' = "idle" /\ pass' = NoStream
  /\ no' = 0 /\ list' = <<>> /\ overrun' = FALSE /\ handed' = <<>>
  /\ steady' = {} /\ added' = 0 /\ cut' = {}
  /\ UNCHANGED <<dir, changes>>

-----------------------------------------------------------------------------
Next ==
  \/ \E e \in Files : Create(e) \/ Unlink(e)
  \/ RemoveDir
  \/ OpenToCount \/ OpenToCountFails \/ CountEnds
  \/ OpenToFill \/ OpenToFillFails \/ FillEnds
  \/ \E e \in Dots \cup Files : Count(e) \/ Fill(e)
  \/ Reply \/ \E full \in BOOLEAN : Hand(full)
  \/ Crash \/ Return

Spec == Init /\ [][Next]_vars

-----------------------------------------------------------------------------
Entries == Dots \cup Files

(* Every variable holds a value of its kind; what the server lists are      *)
(* entries of the directory, never a slot it has not filled.                *)
TypeOK ==
  /\ dir \subseteq Entries /\ changes \in 0..MaxChanges
  /\ at \in {"idle", "count", "allocated", "fill", "reply", "hand", "done",
             "failed", "crashed"}
  /\ pass \in [sure : SUBSET Entries, maybe : SUBSET Entries, seen : SUBSET Entries]
  /\ no \in Nat /\ added \in 0..MaxChanges
  /\ \A i \in DOMAIN list : list[i] \in Entries
  /\ overrun \in BOOLEAN /\ steady \subseteq Entries /\ cut \subseteq {"count", "fill"}
  /\ \A i \in DOMAIN handed : handed[i] \in Entries \cup {Junk}

(* The spare entry of the allocation covers one file that is created while  *)
(* the two passes run, however the passes and the changes interleave: the   *)
(* server writes past its array only when two are, or when an error of      *)
(* readdir cut the count short (getdirWrapper).                             *)
OverrunExplained == overrun => added >= 2 \/ "count" \in cut

(* The client reads through a null pointer, for want of a single entry,     *)
(* only when the directory was removed during the call or an error of       *)
(* readdir ended the second pass (xmp_getdir).                              *)
EmptyExplained == at = "hand" /\ list = <<>> => dir = {} \/ "fill" \in cut

(* When FUSE took all it was given, no entry comes twice if nothing was     *)
(* created meanwhile, and every entry that was there throughout the call    *)
(* has come, whatever came and went and whatever the first pass counted,    *)
(* unless an error of readdir ended the second.                             *)
ListingComplete ==
  at = "done" /\ Len(handed) = Len(list) + 1 =>
    /\ "fill" \notin cut => steady \subseteq ToSet(Front(handed))
    /\ added = 0 => IsInjective(Front(handed))
=============================================================================
