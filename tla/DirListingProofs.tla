--------------------------- MODULE DirListingProofs ---------------------------
(***************************************************************************)
(* getdir's array is overrun only when two files were created meanwhile,   *)
(* comes without entries only from a directory that was removed, and       *)
(* leaves out no entry that stayed, unless an error of readdir cut a pass  *)
(* short.  The invariants follow the entries through the passes: the first *)
(* counts those that can still be returned, the second follows the dots,   *)
(* the third those that stay.                                              *)
(***************************************************************************)
EXTENDS DirListing, FiniteSetTheorems, TLAPS

LEMMA EntriesFinite ==
  ASSUME NEW X, X \subseteq Entries
  PROVE  IsFiniteSet(X) /\ Cardinality(X) \in Nat
<1>1. IsFiniteSet(Entries)
  BY DirListingAssumption, FS_Union DEF Entries
<1>2. IsFiniteSet(X)
  BY <1>1, FS_Subset
<1> QED BY <1>2, FS_CardinalityType

LEMMA Smaller ==
  ASSUME NEW X, NEW Y, Y \subseteq Entries, X \subseteq Y
  PROVE  Cardinality(X) <= Cardinality(Y) /\ Cardinality(X) \in Nat /\ Cardinality(Y) \in Nat
BY EntriesFinite, FS_Subset

(* One entry more adds at most one to a set of entries. *)
LEMMA OneMore ==
  ASSUME NEW X, NEW Y, NEW e, X \subseteq Entries, Y \subseteq X \cup {e}
  PROVE  Cardinality(Y) <= Cardinality(X) + 1 /\ Cardinality(X) \in Nat /\ Cardinality(Y) \in Nat
<1>1. IsFiniteSet(X) /\ Cardinality(X) \in Nat
  BY EntriesFinite
<1>2. IsFiniteSet(X \cup {e}) /\ Cardinality(X \cup {e}) <= Cardinality(X) + 1
  BY <1>1, FS_AddElement
<1>3. IsFiniteSet(Y) /\ Cardinality(Y) <= Cardinality(X \cup {e})
  BY <1>2, FS_Subset
<1>4. Cardinality(Y) \in Nat /\ Cardinality(X \cup {e}) \in Nat
  BY <1>2, <1>3, FS_CardinalityType
<1> QED BY <1>1, <1>2, <1>3, <1>4

(* One entry less takes one away. *)
LEMMA OneLess ==
  ASSUME NEW X, NEW e \in X, X \subseteq Entries
  PROVE  Cardinality(X \ {e}) + 1 = Cardinality(X) /\ Cardinality(X) \in Nat
         /\ Cardinality(X \ {e}) \in Nat
<1>1. IsFiniteSet(X) /\ Cardinality(X) \in Nat /\ Cardinality(X \ {e}) \in Nat
  BY EntriesFinite
<1>2. Cardinality(X \ {e}) = Cardinality(X) - 1
  BY <1>1, FS_RemoveElement
<1> QED BY <1>1, <1>2

-----------------------------------------------------------------------------
Shape ==
  /\ dir \subseteq Entries /\ changes \in 0..MaxChanges
  /\ pass \in [sure : SUBSET Entries, maybe : SUBSET Entries, seen : SUBSET Entries]
  /\ no \in Nat /\ added \in 0..changes
  /\ list \in Seq(Entries) /\ handed \in Seq(Entries \cup {Junk})
  /\ overrun \in BOOLEAN /\ steady \subseteq Entries /\ cut \subseteq {"count", "fill"}
  /\ at \in {"idle", "count", "allocated", "fill", "reply", "hand", "done",
             "failed", "crashed"}
  /\ at \in {"idle", "count", "allocated", "fill", "reply", "failed"} => handed = <<>>
  /\ at = "hand" => Len(handed) <= Len(list)

LEMMA ShapeInit == Init => Shape
<1> SUFFICES ASSUME Init PROVE Shape
  OBVIOUS
<1>1. PICK files \in SUBSET Files : dir = Dots \cup files
  BY DEF Init
<1>2. dir \subseteq Entries
  BY <1>1 DEF Entries
<1>3. changes \in 0..MaxChanges /\ no \in Nat /\ added \in 0..changes
  BY DirListingAssumption DEF Init
<1>4. list \in Seq(Entries) /\ handed \in Seq(Entries \cup {Junk})
  BY DEF Init
<1>5. pass \in [sure : SUBSET Entries, maybe : SUBSET Entries, seen : SUBSET Entries]
  BY DEF Init, NoStream
<1> QED BY <1>2, <1>3, <1>4, <1>5 DEF Init, Shape

-----------------------------------------------------------------------------
LEMMA ShapeNext ==
  ASSUME Shape, Next
  PROVE  Shape'
<1> USE DEF Shape
<1>1. ASSUME NEW e \in Files, Create(e) PROVE Shape'
  <2>1. changes + 1 \in 0..MaxChanges /\ added + 1 \in 0..(changes + 1)
    BY <1>1, DirListingAssumption DEF Create, Changed
  <2>2. pass' \in [sure : SUBSET Entries, maybe : SUBSET Entries, seen : SUBSET Entries]
    BY <1>1 DEF Create, Entries
  <2> QED BY <1>1, <2>1, <2>2 DEF Create, Changed, server, Entries
<1>2. ASSUME NEW e \in Files, Unlink(e) PROVE Shape'
  <2>1. changes + 1 \in 0..MaxChanges /\ added \in 0..(changes + 1)
    BY <1>2, DirListingAssumption DEF Unlink, Changed
  <2>2. pass' \in [sure : SUBSET Entries, maybe : SUBSET Entries, seen : SUBSET Entries]
    BY <1>2 DEF Unlink
  <2> QED BY <1>2, <2>1, <2>2 DEF Unlink, Changed, server
<1>3. CASE RemoveDir
  <2>1. changes + 1 \in 0..MaxChanges /\ added \in 0..(changes + 1)
    BY <1>3, DirListingAssumption DEF RemoveDir, Changed
  <2>2. pass' \in [sure : SUBSET Entries, maybe : SUBSET Entries, seen : SUBSET Entries]
    BY <1>3 DEF RemoveDir
  <2> QED BY <1>3, <2>1, <2>2 DEF RemoveDir, Changed, server
<1>4. CASE OpenToCount
  BY <1>4 DEF OpenToCount, Opened, server
<1>5. CASE OpenToCountFails \/ OpenToFillFails
  BY <1>5 DEF OpenToCountFails, OpenToFillFails, server, environment
<1>14. CASE OpenToFill
  BY <1>14 DEF OpenToFill, Opened, server, environment
<1>11. CASE CountEnds
  <2>1. cut' \subseteq {"count", "fill"} /\ NoStream \in
          [sure : SUBSET Entries, maybe : SUBSET Entries, seen : SUBSET Entries]
    BY <1>11 DEF CountEnds, NoMore, NoStream
  <2> QED BY <1>11, <2>1 DEF CountEnds, environment
<1>12. CASE FillEnds
  <2>1. cut' \subseteq {"count", "fill"}
    BY <1>12 DEF FillEnds, NoMore
  <2> QED BY <1>12, <2>1 DEF FillEnds, environment
<1>6. ASSUME NEW e \in Dots \cup Files, Count(e) PROVE Shape'
  BY <1>6 DEF Count, environment, Entries
<1>7. ASSUME NEW e \in Dots \cup Files, Fill(e) PROVE Shape'
  BY <1>7 DEF Fill, environment, Entries
<1>8. CASE Reply
  BY <1>8 DEF Reply, server, environment
<1>13. CASE Crash
  BY <1>13 DEF Crash, server, environment
<1>9. ASSUME NEW full \in BOOLEAN, Hand(full) PROVE Shape'
  BY <1>9 DEF Hand, server, environment
<1>10. CASE Return
  <2>1. list' \in Seq(Entries) /\ handed' \in Seq(Entries \cup {Junk}) /\ handed' = <<>>
    BY <1>10 DEF Return
  <2>2. pass' \in [sure : SUBSET Entries, maybe : SUBSET Entries, seen : SUBSET Entries]
    BY <1>10 DEF Return, NoStream
  <2>3. added' \in 0..changes' /\ no' \in Nat
    BY <1>10, DirListingAssumption DEF Return
  <2>4. at' = "idle" /\ dir' = dir /\ changes' = changes /\ overrun' = FALSE /\ steady' = {} /\ cut' = {}
    BY <1>10 DEF Return
  <2> QED BY <2>1, <2>2, <2>3, <2>4
<1> QED BY <1>1, <1>2, <1>3, <1>4, <1>5, <1>6, <1>7, <1>8, <1>9, <1>10, <1>11, <1>12, <1>13, <1>14
        DEF Next

(* The entries an array may yet hold are counted, or were created during    *)
(* the call, if the count was not cut short.  While the first pass counts,  *)
(* those that are there and not sure to be counted were created.            *)
Counted ==
  /\ at = "idle" => no = 0 /\ added = 0 /\ list = <<>>
  /\ at = "count" => /\ Cardinality(pass.seen) <= no /\ list = <<>>
                     /\ Cardinality(dir \ pass.sure) <= added
  /\ at = "allocated" => list = <<>>
  /\ "count" \notin cut =>
       /\ at = "allocated" => Cardinality(dir) <= no + added
       /\ at = "fill" => Len(list) + Cardinality(Unread) <= no + added
       /\ Len(list) <= no + added
  /\ overrun => Len(list) > Allocated

LEMMA CountedInit == Init => Counted
BY FS_EmptySet DEF Init, Counted

LEMMA CountedChange ==
  ASSUME Shape, Counted,
         \/ \E e \in Files : Create(e) \/ Unlink(e)
         \/ RemoveDir
  PROVE  Counted'
<1> USE DEF Shape
<1>1. ASSUME NEW e \in Files, Create(e) PROVE Counted'
  <2>1. /\ dir' = dir \cup {e} /\ e \in Entries /\ UNCHANGED <<at, no, list, overrun, cut>>
        /\ added' = IF at = "idle" THEN added ELSE added + 1
    BY <1>1 DEF Create, Changed, server, Entries
  <2>2. ASSUME at = "count" PROVE Counted'
    <3>1. pass'.sure = pass.sure /\ pass'.seen \subseteq pass.seen
      BY <1>1, <2>2 DEF Create
    <3>2. Cardinality(pass'.seen) <= Cardinality(pass.seen)
          /\ Cardinality(pass'.seen) \in Nat /\ Cardinality(pass.seen) \in Nat
      BY <3>1, Smaller
    <3>3. dir \ pass.sure \subseteq Entries
          /\ dir' \ pass'.sure \subseteq (dir \ pass.sure) \cup {e}
      BY <2>1, <3>1
    <3>4. Cardinality(dir' \ pass'.sure) <= Cardinality(dir \ pass.sure) + 1
          /\ Cardinality(dir \ pass.sure) \in Nat /\ Cardinality(dir' \ pass'.sure) \in Nat
      BY <3>3, OneMore
    <3> QED BY <2>1, <2>2, <3>2, <3>4 DEF Counted, Allocated
  <2>3. ASSUME at = "allocated" PROVE Counted'
    <3>1. Cardinality(dir') <= Cardinality(dir) + 1
          /\ Cardinality(dir) \in Nat /\ Cardinality(dir') \in Nat
      BY <2>1, OneMore
    <3> QED BY <2>1, <2>3, <3>1 DEF Counted, Allocated
  <2>4. ASSUME at = "fill" PROVE Counted'
    <3>1. pass'.maybe = pass.maybe \cup {e} /\ pass'.seen = pass.seen \ {e}
      BY <1>1, <2>4 DEF Create, Reading
    <3>2. Unread \subseteq Entries /\ Unread' \subseteq Unread \cup {e}
      BY <3>1 DEF Unread
    <3>3. Cardinality(Unread') <= Cardinality(Unread) + 1
          /\ Cardinality(Unread) \in Nat /\ Cardinality(Unread') \in Nat
      BY <3>2, OneMore
    <3> QED BY <2>1, <2>4, <3>3 DEF Counted, Allocated
  <2>5. ASSUME at \notin {"count", "allocated", "fill"} PROVE Counted'
    BY <2>1, <2>5 DEF Counted, Allocated
  <2> QED BY <2>2, <2>3, <2>4, <2>5
<1>2. ASSUME NEW e \in Files, Unlink(e) PROVE Counted'
  <2>1. dir' \subseteq dir /\ UNCHANGED <<at, no, list, overrun, cut, added>>
        /\ pass'.maybe = pass.maybe /\ pass'.seen = pass.seen
    BY <1>2 DEF Unlink, Changed, server
  <2>2. ASSUME at = "count" PROVE dir' \ pass'.sure \subseteq dir \ pass.sure
    BY <1>2, <2>2 DEF Unlink, Changed, Reading
  <2>3. ASSUME at = "count"
        PROVE  Cardinality(dir' \ pass'.sure) <= Cardinality(dir \ pass.sure)
               /\ Cardinality(dir' \ pass'.sure) \in Nat /\ Cardinality(dir \ pass.sure) \in Nat
    BY <2>2, <2>3, Smaller
  <2>4. Cardinality(dir') <= Cardinality(dir)
        /\ Cardinality(dir') \in Nat /\ Cardinality(dir) \in Nat
    BY <2>1, Smaller
  <2>5. Unread' = Unread
    BY <2>1 DEF Unread
  <2> QED BY <2>1, <2>3, <2>4, <2>5 DEF Counted, Allocated
<1>3. CASE RemoveDir
  <2>1. dir' = {} /\ UNCHANGED <<at, no, list, overrun, cut, added>>
        /\ pass'.maybe = pass.maybe /\ pass'.seen = pass.seen
    BY <1>3 DEF RemoveDir, Changed, server
  <2>2. Cardinality(dir') = 0 /\ Cardinality(dir' \ pass'.sure) = 0 /\ Unread' = Unread
    BY <2>1, FS_EmptySet DEF Unread
  <2> QED BY <2>1, <2>2 DEF Counted, Allocated
<1> QED BY <1>1, <1>2, <1>3

LEMMA CountedServer ==
  ASSUME Shape, Counted,
         \/ OpenToCount \/ CountEnds \/ OpenToFill
         \/ \E e \in Dots \cup Files : Count(e) \/ Fill(e)
  PROVE  Counted'
<1> USE DEF Shape
<1>1. CASE OpenToCount
  <2>1. pass'.sure = dir' /\ pass'.seen = {} /\ dir' \ pass'.sure = {}
    BY <1>1 DEF OpenToCount, Opened
  <2>2. Cardinality(pass'.seen) = 0 /\ Cardinality(dir' \ pass'.sure) = 0
    BY <2>1, FS_EmptySet
  <2> QED BY <1>1, <2>2 DEF OpenToCount, server, Counted, Allocated
<1>2. CASE CountEnds
  <2>0. CASE ~AtEnd
    BY <1>2, <2>0 DEF CountEnds, NoMore, environment, Counted, Allocated
  <2> SUFFICES ASSUME AtEnd PROVE Counted'
    BY <2>0
  <2>1. dir \subseteq pass.seen \cup (dir \ pass.sure)
    BY DEF AtEnd
  <2>2. IsFiniteSet(pass.seen) /\ IsFiniteSet(dir \ pass.sure)
        /\ IsFiniteSet(pass.seen \cap (dir \ pass.sure))
        /\ Cardinality(pass.seen) \in Nat /\ Cardinality(dir \ pass.sure) \in Nat
        /\ Cardinality(pass.seen \cap (dir \ pass.sure)) \in Nat
    BY EntriesFinite
  <2>3. Cardinality(pass.seen \cup (dir \ pass.sure))
          = Cardinality(pass.seen) + Cardinality(dir \ pass.sure)
              - Cardinality(pass.seen \cap (dir \ pass.sure))
    BY <2>2, FS_Union
  <2>4. Cardinality(dir) <= Cardinality(pass.seen \cup (dir \ pass.sure))
        /\ Cardinality(dir) \in Nat
    BY <2>1, Smaller
  <2> QED BY <1>2, <2>2, <2>3, <2>4 DEF CountEnds, NoMore, environment, Counted, Allocated
<1>3. CASE OpenToFill
  <2>1. Unread' = dir
    BY <1>3 DEF OpenToFill, Opened, Unread
  <2>2. Cardinality(dir) \in Nat
    BY EntriesFinite
  <2> QED BY <1>3, <2>1, <2>2 DEF OpenToFill, server, environment, Counted, Allocated
<1>4. ASSUME NEW e \in Dots \cup Files, Count(e) PROVE Counted'
  <2>1. pass'.sure = pass.sure /\ pass'.seen = pass.seen \cup {e}
    BY <1>4 DEF Count
  <2>2. Cardinality(pass'.seen) <= Cardinality(pass.seen) + 1
        /\ Cardinality(pass.seen) \in Nat /\ Cardinality(pass'.seen) \in Nat
    BY <2>1, OneMore
  <2> QED BY <1>4, <2>1, <2>2 DEF Count, environment, Counted, Allocated
<1>5. ASSUME NEW e \in Dots \cup Files, Fill(e) PROVE Counted'
  <2>1. Unread \subseteq Entries /\ e \in Unread /\ Unread' = Unread \ {e}
    BY <1>5 DEF Fill, Unread
  <2>2. Cardinality(Unread') + 1 = Cardinality(Unread)
        /\ Cardinality(Unread) \in Nat /\ Cardinality(Unread') \in Nat
    BY <2>1, OneLess
  <2>3. /\ at = "fill" /\ at' \in {"fill", "failed"} /\ no' = no /\ added' = added /\ cut' = cut
        /\ Len(list') = Len(list) + 1
        /\ overrun' => overrun \/ Len(list') > Allocated
    BY <1>5 DEF Fill, environment, Entries
  <2> QED BY <2>2, <2>3 DEF Counted, Allocated
<1> QED BY <1>1, <1>2, <1>3, <1>4, <1>5

LEMMA CountedNext ==
  ASSUME Shape, Counted, Next
  PROVE  Counted'
<1>1. CASE OpenToCountFails \/ OpenToFillFails \/ FillEnds \/ Reply \/ Crash
           \/ \E full \in BOOLEAN : Hand(full)
  BY <1>1 DEF OpenToCountFails, OpenToFillFails, FillEnds, NoMore, Reply, Crash, Hand, server,
     environment, Counted, Shape, Allocated
<1>2. CASE Return
  BY <1>2 DEF Return, Counted, Allocated
<1> QED BY <1>1, <1>2, CountedChange, CountedServer DEF Next

(* The server writes past its allocation only when two files were created   *)
(* while the call ran or readdir failed in the first pass, for every        *)
(* directory and every interleaving (rxc_rxc_getdirWrapper).                *)
THEOREM OverrunAccounted == Spec => []OverrunExplained
<1>1. Init => Shape /\ Counted
  BY ShapeInit, CountedInit
<1>2. Shape /\ Counted /\ [Next]_vars => (Shape /\ Counted)'
  <2>1. ASSUME Shape, Counted, UNCHANGED vars PROVE (Shape /\ Counted)'
    BY <2>1 DEF vars, Shape, Counted, Unread, Allocated
  <2> QED BY <2>1, ShapeNext, CountedNext
<1>3. Shape /\ Counted => OverrunExplained
  BY DEF Shape, Counted, OverrunExplained, Allocated
<1> QED BY <1>1, <1>2, <1>3, PTL DEF Spec
-----------------------------------------------------------------------------
(* Until the directory is removed the dots are in it, and in each pass; so  *)
(* they are in the array when the second pass has come to the end.          *)
Dotted ==
  /\ dir # {} => Dots \subseteq dir
  /\ at = "fill" => /\ dir # {} => Dots \subseteq pass.sure
                    /\ list = <<>> => pass.seen = {}
  /\ at \in {"reply", "hand"} /\ dir # {} => list # <<>> \/ "fill" \in cut

LEMMA DottedNext ==
  ASSUME Shape, Dotted, Next
  PROVE  Dotted'
<1> USE DEF Shape
<1>1. ASSUME NEW e \in Files, Create(e) PROVE Dotted'
  BY <1>1 DEF Create, Changed, server, Reading, Dotted
<1>2. ASSUME NEW e \in Files, Unlink(e) PROVE Dotted'
  BY <1>2, DirListingAssumption DEF Unlink, Changed, server, Reading, Dotted
<1>3. CASE RemoveDir
  BY <1>3 DEF RemoveDir, Changed, server, Dotted
<1>4. CASE OpenToFill
  BY <1>4 DEF OpenToFill, Opened, server, environment, Dotted
<1>5. ASSUME NEW e \in Dots \cup Files, Fill(e) PROVE Dotted'
  <2>1. list' # <<>>
    BY <1>5 DEF Fill, Entries
  <2> QED BY <1>5, <2>1 DEF Fill, environment, Dotted
<1>6. CASE FillEnds
  BY <1>6, DirListingAssumption DEF FillEnds, NoMore, AtEnd, environment, Dotted
<1>7. ASSUME NEW e \in Dots \cup Files, Count(e) PROVE Dotted'
  BY <1>7 DEF Count, environment, Dotted
<1>8. CASE Reply \/ Crash \/ OpenToCountFails \/ OpenToFillFails \/ CountEnds
           \/ \E full \in BOOLEAN : Hand(full)
  BY <1>8 DEF Reply, Crash, OpenToCountFails, OpenToFillFails, CountEnds, NoMore, Hand,
     server, environment, Dotted
<1>9. CASE OpenToCount \/ Return
  BY <1>9 DEF OpenToCount, Return, server, Dotted
<1> QED BY <1>1, <1>2, <1>3, <1>4, <1>5, <1>6, <1>7, <1>8, <1>9 DEF Next

(* The client meets an array without entries, and so a null pointer, only   *)
(* when the directory was removed during the call or readdir failed in the  *)
(* second pass (xmp_getdir).                                                *)
THEOREM EmptyAccounted == Spec => []EmptyExplained
<1>1. Init => Shape /\ Dotted
  BY ShapeInit DEF Init, Dotted
<1>2. Shape /\ Dotted /\ [Next]_vars => (Shape /\ Dotted)'
  <2>1. ASSUME Shape, Dotted, UNCHANGED vars PROVE (Shape /\ Dotted)'
    BY <2>1 DEF vars, Shape, Dotted
  <2> QED BY <2>1, ShapeNext, DottedNext
<1>3. Shape /\ Dotted => EmptyExplained
  BY DEF Dotted, EmptyExplained
<1> QED BY <1>1, <1>2, <1>3, PTL DEF Spec

-----------------------------------------------------------------------------
(* The second pass returns every entry that stays; one that was there all   *)
(* along is sure to be read, and one that was read is in the array.  An     *)
(* entry comes twice only after it was created again.                       *)
InList(e) == \E i \in 1..Len(list) : list[i] = e
OnceEach == \A i, j \in 1..Len(list) : list[i] = list[j] => i = j

Listed ==
  /\ steady \subseteq dir
  /\ at \in {"count", "allocated"} => list = <<>>
  /\ at = "idle" => list = <<>>
  /\ at = "fill" =>
       /\ steady \subseteq pass.sure
       /\ \A e \in pass.seen : InList(e)
       /\ added = 0 => OnceEach /\ \A i \in 1..Len(list) : list[i] \in pass.seen
  /\ at \in {"reply", "hand", "done"} =>
       /\ "fill" \notin cut => \A e \in steady : InList(e)
       /\ added = 0 => OnceEach
  /\ \A i \in 1..Len(handed) : i <= Len(list) => handed[i] = list[i]

LEMMA ListedChange ==
  ASSUME Shape, Listed,
         \/ \E e \in Files : Create(e) \/ Unlink(e)
         \/ RemoveDir
  PROVE  Listed'
<1> USE DEF Shape
<1>1. ASSUME NEW e \in Files, Create(e) PROVE Listed'
  <2>0. added \in Nat
    BY DirListingAssumption
  <2>a. added' = IF at = "idle" THEN added ELSE added + 1
    BY <1>1 DEF Create
  <2>1. at = "fill" => pass'.sure = pass.sure /\ pass'.seen = pass.seen \ {e} /\ added' # 0
    <3>1. at = "fill" => added' # 0
      BY <2>0, <2>a
    <3>2. at = "fill" => pass'.sure = pass.sure /\ pass'.seen = pass.seen \ {e}
      BY <1>1 DEF Create, Reading
    <3> QED BY <3>1, <3>2
  <2>2. added' = 0 => added = 0
    BY <2>0, <2>a
  <2>3. steady' \subseteq steady /\ steady' \subseteq dir' /\ UNCHANGED <<at, list, handed, cut>>
    BY <1>1 DEF Create, Changed, server
  <2> QED BY <2>1, <2>2, <2>3 DEF Listed, InList, OnceEach
<1>2. ASSUME NEW e \in Files, Unlink(e) PROVE Listed'
  <2>1. at = "fill" => pass'.sure = pass.sure \ {e} /\ pass'.seen = pass.seen
    BY <1>2 DEF Unlink, Reading
  <2>2. /\ steady' = steady \cap (dir \ {e}) /\ dir' = dir \ {e}
        /\ UNCHANGED <<at, list, handed, added, cut>>
    BY <1>2 DEF Unlink, Changed, server
  <2> QED BY <2>1, <2>2 DEF Listed, InList, OnceEach
<1>3. CASE RemoveDir
  <2>1. at = "fill" => pass'.seen = pass.seen
    BY <1>3 DEF RemoveDir, Reading
  <2>2. steady' = {} /\ UNCHANGED <<at, list, handed, added, cut>>
    BY <1>3 DEF RemoveDir, Changed, server
  <2> QED BY <2>1, <2>2 DEF Listed, InList, OnceEach
<1> QED BY <1>1, <1>2, <1>3

LEMMA ListedNext ==
  ASSUME Shape, Listed, Next
  PROVE  Listed'
<1> USE DEF Shape
<1>1. CASE OpenToCount
  BY <1>1 DEF OpenToCount, server, Listed
<1>2. CASE OpenToFill
  BY <1>2 DEF OpenToFill, Opened, server, environment, Listed, OnceEach
<1>3. ASSUME NEW e \in Dots \cup Files, Fill(e) PROVE Listed'
  <2>1. /\ Len(list') = Len(list) + 1 /\ list'[Len(list) + 1] = e
        /\ \A i \in 1..Len(list) : list'[i] = list[i]
    BY <1>3 DEF Fill, Entries
  <2>2. /\ pass'.sure = pass.sure /\ pass'.seen = pass.seen \cup {e} /\ e \notin pass.seen
        /\ at = "fill" /\ at' \in {"fill", "failed"} /\ handed' = handed /\ handed = <<>>
        /\ UNCHANGED environment
    BY <1>3 DEF Fill, Unread
  <2>3. \A x : InList(x) \/ x = e => InList(x)'
    BY <2>1 DEF InList
  <2>4. added = 0 => OnceEach' /\ \A i \in 1..Len(list') : list'[i] \in pass'.seen
    BY <2>1, <2>2 DEF Listed, OnceEach
  <2> QED BY <2>2, <2>3, <2>4 DEF Listed, environment
<1>4. CASE FillEnds
  BY <1>4 DEF FillEnds, NoMore, AtEnd, environment, Listed, InList, OnceEach
<1>5. ASSUME NEW full \in BOOLEAN, Hand(full) PROVE Listed'
  <2>1. /\ Len(handed') = Len(handed) + 1 /\ Len(handed) <= Len(list)
        /\ handed'[Len(handed) + 1] = Append(list, Junk)[Len(handed) + 1]
        /\ \A i \in 1..Len(handed) : handed'[i] = handed[i]
    BY <1>5 DEF Hand
  <2>2. \A i \in 1..Len(list) : Append(list, Junk)[i] = list[i]
    OBVIOUS
  <2>3. \A i \in 1..Len(handed') : i <= Len(list) => handed'[i] = list[i]
    BY <2>1, <2>2 DEF Listed
  <2> QED BY <1>5, <2>3 DEF Hand, server, environment, Listed, InList, OnceEach
<1>6. CASE Return
  BY <1>6 DEF Return, Listed
<1>7. CASE Reply \/ Crash \/ OpenToCountFails \/ OpenToFillFails \/ CountEnds
           \/ \E e \in Dots \cup Files : Count(e)
  BY <1>7 DEF Reply, Crash, OpenToCountFails, OpenToFillFails, CountEnds, NoMore, Count,
     server, environment, Listed, InList, OnceEach
<1> QED BY <1>1, <1>2, <1>3, <1>4, <1>5, <1>6, <1>7, ListedChange DEF Next

LEMMA ListedComplete ==
  ASSUME Shape, Listed
  PROVE  ListingComplete
<1> SUFFICES ASSUME at = "done", Len(handed) = Len(list) + 1
             PROVE  /\ "fill" \notin cut => steady \subseteq ToSet(Front(handed))
                    /\ added = 0 => IsInjective(Front(handed))
  BY DEF ListingComplete
<1> USE DEF Shape
<1>1. Front(handed) = SubSeq(handed, 1, Len(list))
  BY DEF Front
<1>2. /\ Len(Front(handed)) = Len(list) /\ DOMAIN Front(handed) = 1..Len(list)
      /\ \A i \in 1..Len(list) : Front(handed)[i] = list[i]
  BY <1>1 DEF Listed
<1>3. "fill" \notin cut => steady \subseteq ToSet(Front(handed))
  BY <1>2 DEF ToSet, Listed, InList
<1>4. added = 0 => IsInjective(Front(handed))
  BY <1>2 DEF IsInjective, Listed, OnceEach
<1> QED BY <1>3, <1>4

(* A client that took every entry it was given has each one that was there  *)
(* throughout the call unless readdir failed in the second pass, and none   *)
(* twice unless an entry was created meanwhile, for every directory and     *)
(* every interleaving of the two passes with its changes                    *)
(* (rxc_rxc_getdirWrapper, xmp_getdir).                                     *)
THEOREM ListsSteady == Spec => []ListingComplete
<1>1. Init => Shape /\ Listed
  BY ShapeInit DEF Init, Listed
<1>2. Shape /\ Listed /\ [Next]_vars => (Shape /\ Listed)'
  <2>1. ASSUME Shape, Listed, UNCHANGED vars PROVE (Shape /\ Listed)'
    BY <2>1 DEF vars, Shape, Listed, InList, OnceEach
  <2> QED BY <2>1, ShapeNext, ListedNext
<1> QED BY <1>1, <1>2, ListedComplete, PTL DEF Spec

(* The listing keeps its types for every directory and bound: whatever the  *)
(* server lists are entries of the directory (Fill, Hand).                  *)
THEOREM TypeCorrect == Spec => []TypeOK
<1>1. Shape /\ [Next]_vars => Shape'
  <2>1. ASSUME Shape, UNCHANGED vars PROVE Shape'
    BY <2>1 DEF vars, Shape
  <2> QED BY <2>1, ShapeNext
<1>2. Shape => TypeOK
  BY DirListingAssumption DEF Shape, TypeOK
<1> QED BY ShapeInit, <1>1, <1>2, PTL DEF Spec
=============================================================================
