--------------------------- MODULE InventoryProofs ---------------------------
(***************************************************************************)
(* What a load that ends well has put can be read back, whatever happened  *)
(* to the files before, for any lines and vendors.  The invariants speak   *)
(* of the databases as they will be once the open ones are closed.         *)
(***************************************************************************)
EXTENDS Inventory, TLAPS

LEMMA ItemType ==
  ASSUME NEW line \in Lines
  PROVE  Item(line) \in Items /\ Sku(line) \in Skus
BY DEF Items, Skus

LEMMA EntryType ==
  ASSUME NEW item \in Items, NEW k \in Skus
  PROVE  Entry(k, item) \in Names \X Skus /\ Entry(k, item) = <<item.name, k>>
BY DEF Entry, get_item_name, Names

LEMMA IndexType ==
  ASSUME TypeOK, NEW k \in Skus, NEW item \in Items
  PROVE  Indexed(k, item) \subseteq Names \X Skus
BY EntryType DEF TypeOK, Databases, Indexed

LEMMA NextOpen ==
  ASSUME open \subseteq Dbs, open # {}
  PROVE  NextToClose \in open
<1>1. \E d \in open :
        \A e \in open : d = e \/ d = "index" \/ (d = "vendors" /\ e = "items")
  <2>1. CASE "index" \in open
    BY <2>1
  <2>2. CASE "index" \notin open /\ "vendors" \in open
    BY <2>2 DEF Dbs
  <2>3. CASE open = {"items"}
    BY <2>3
  <2> QED BY <2>1, <2>2, <2>3 DEF Dbs
<1> QED BY <1>1 DEF NextToClose

LEMMA FreshType == Fresh \in Databases
BY DEF Fresh, Databases

(* A database taken over from another set of them. *)
LEMMA DbType ==
  ASSUME NEW a \in Databases, NEW b \in Databases, NEW d \in Dbs
  PROVE  [a EXCEPT ![d] = b[d]] \in Databases
BY DEF Databases, Dbs

LEMMA OpenType ==
  ASSUME TypeOK, NEW dbs \in SUBSET Dbs, OpenAll(dbs)
  PROVE  cache' \in Databases
BY FreshType DEF TypeOK, OpenAll, Databases, Dbs

LEMMA TypeInit == Init => TypeOK
BY FreshType DEF Init, TypeOK, Vendors

LEMMA TypeNext ==
  ASSUME TypeOK, Next
  PROVE  TypeOK'
<1> USE DEF TypeOK
<1>1. ASSUME NEW dbs \in SUBSET Dbs, StartLoad(dbs) PROVE TypeOK'
  BY <1>1, OpenType DEF StartLoad, OpenAll, reader
<1>2. ASSUME NEW dbs \in SUBSET Dbs, NEW name \in Names \cup {All}, StartRead(name, dbs)
      PROVE  TypeOK'
  BY <1>2, OpenType DEF StartRead, OpenAll, Found, history
<1>3. ASSUME NEW line \in Lines, PutItem(line) PROVE TypeOK'
  <2>1. cache' \in Databases
    BY <1>3, ItemType, IndexType DEF PutItem, Databases
  <2> QED BY <1>3, <2>1, ItemType DEF PutItem, reader
<1>4. ASSUME NEW line \in Lines, PutItemThrows(line) PROVE TypeOK'
  <2>1. cache' \in Databases
    BY <1>4, ItemType, IndexType, EntryType DEF PutItemThrows, Databases
  <2> QED BY <1>4, <2>1 DEF PutItemThrows, reader
<1>5. CASE EndInventory \/ FileMissing \/ PutVendorThrows
  BY <1>5 DEF EndInventory, FileMissing, PutVendorThrows, reader, history
<1>6. ASSUME NEW v \in VendorLines \cup {Blank}, NEW after \in {"vendors", "closing"},
             PutVendor(v, after)
      PROVE  TypeOK'
  <2>1. cache' \in Databases
    BY <1>6 DEF PutVendor, Databases, Keys
  <2> QED BY <1>6, <2>1 DEF PutVendor, reader
<1>7. ASSUME NEW closed \in BOOLEAN, CloseNext(closed) PROVE TypeOK'
  <2>1. NextToClose \in open /\ NextToClose \in Dbs
    BY <1>7, NextOpen DEF CloseNext
  <2>2. cache' \in Databases
    BY <1>7, <2>1, FreshType, DbType DEF CloseNext
  <2>3. disk' \in Databases
    BY <1>7, <2>1, DbType DEF CloseNext
  <2> QED BY <1>7, <2>1, <2>2, <2>3 DEF CloseNext, reader
<1>8. ASSUME NEW d \in Dbs, WriteOut(d) PROVE TypeOK'
  <2>1. disk' \in Databases
    BY <1>8, DbType DEF WriteOut
  <2> QED BY <1>8, <2>1 DEF WriteOut, reader, history
<1>9. CASE Kill \/ RemoveFiles \/ EndRead
  BY <1>9, FreshType DEF Kill, RemoveFiles, EndRead, reader, history, Vendors
<1>10. ASSUME NEW k \in Skus, ShowItem(k) PROVE TypeOK'
  <2>1. cache.items[k] \in Items
    BY <1>10 DEF ShowItem, Databases
  <2>2. cache.items[k].vendor \in Vendors
    BY <2>1 DEF Vendors
  <2>3. frame' \in Vendors
    BY <1>10, <2>2 DEF ShowItem, Vendors
  <2> QED BY <1>10, <2>3 DEF ShowItem, history
<1> QED BY <1>1, <1>2, <1>3, <1>4, <1>5, <1>6, <1>7, <1>8, <1>9, <1>10 DEF Next

(* The two programs keep their types for any text files (main).             *)
THEOREM TypeCorrect == Spec => []TypeOK
<1>1. TypeOK /\ [Next]_vars => TypeOK'
  <2>1. ASSUME TypeOK, UNCHANGED vars PROVE TypeOK'
    BY <2>1 DEF vars, TypeOK
  <2> QED BY <2>1, TypeNext
<1> QED BY TypeInit, <1>1, PTL DEF Spec

-----------------------------------------------------------------------------
(* The databases as they are once every open one is closed.                 *)
Will(d) == IF d \in open THEN cache[d] ELSE disk[d]
Indexes(items, index, skus) ==
  \A k \in skus : items[k] # None /\ <<items[k].name, k>> \in index

Stages ==
  /\ TypeOK
  /\ at \in {"inventory", "vendors"} => {"items", "index"} \subseteq open /\ ~complete
  /\ at = "inventory" => listed = {}
  /\ at = "show" => {"items", "index"} \subseteq open /\ \A d \in open : cache[d] = disk[d]
  /\ at # "show" => shown = None

LEMMA StagesNext ==
  ASSUME Stages, Next
  PROVE  Stages'
<1>1. TypeOK'
  BY TypeNext DEF Stages
<1> USE DEF Stages
<1>2. ASSUME NEW dbs \in SUBSET Dbs, StartLoad(dbs) PROVE Stages'
  BY <1>1, <1>2 DEF StartLoad, OpenAll, reader
<1>3. ASSUME NEW dbs \in SUBSET Dbs, NEW name \in Names \cup {All}, StartRead(name, dbs)
      PROVE  Stages'
  BY <1>1, <1>3 DEF StartRead, OpenAll, history
<1>4. ASSUME NEW line \in Lines, PutItem(line) \/ PutItemThrows(line) PROVE Stages'
  BY <1>1, <1>4 DEF PutItem, PutItemThrows, reader
<1>5. CASE EndInventory \/ FileMissing \/ PutVendorThrows
  BY <1>1, <1>5 DEF EndInventory, FileMissing, PutVendorThrows, reader, history
<1>6. ASSUME NEW v \in VendorLines \cup {Blank}, NEW after \in {"vendors", "closing"},
             PutVendor(v, after)
      PROVE  Stages'
  BY <1>1, <1>6 DEF PutVendor, reader
<1>7. ASSUME NEW closed \in BOOLEAN, CloseNext(closed) PROVE Stages'
  BY <1>1, <1>7 DEF CloseNext, reader
<1>8. ASSUME NEW d \in Dbs, WriteOut(d) PROVE Stages'
  BY <1>1, <1>8 DEF WriteOut, reader, history
<1>9. CASE Kill \/ RemoveFiles \/ EndRead
  BY <1>1, <1>9 DEF Kill, RemoveFiles, EndRead, reader, history
<1>10. ASSUME NEW k \in Skus, ShowItem(k) PROVE Stages'
  BY <1>1, <1>10 DEF ShowItem, history
<1> QED BY <1>2, <1>3, <1>4, <1>5, <1>6, <1>7, <1>8, <1>9, <1>10 DEF Next

(* Steps that leave the databases as they will be. *)
LEMMA WillKept ==
  ASSUME Stages,
         \/ \E dbs \in SUBSET Dbs :
              StartLoad(dbs) \/ \E name \in Names \cup {All} : StartRead(name, dbs)
         \/ EndInventory \/ FileMissing \/ PutVendorThrows \/ CloseNext(TRUE)
         \/ \E d \in Dbs : WriteOut(d)
         \/ at = "show" /\ Kill
         \/ \E k \in Skus : ShowItem(k)
         \/ EndRead
  PROVE  \A d \in Dbs : Will(d)' = Will(d)
<1> USE DEF Stages, TypeOK
<1>1. ASSUME NEW dbs \in SUBSET Dbs, OpenAll(dbs), disk' = disk
      PROVE  \A d \in Dbs : Will(d)' = Will(d)
  BY <1>1 DEF OpenAll, Will
<1>2. CASE EndInventory \/ FileMissing \/ PutVendorThrows
  BY <1>2 DEF EndInventory, FileMissing, PutVendorThrows, Will
<1>3. CASE CloseNext(TRUE)
  <2>1. NextToClose \in open
    BY <1>3, NextOpen DEF CloseNext
  <2> QED BY <1>3, <2>1 DEF CloseNext, Will, Databases, Dbs
<1>4. ASSUME NEW d \in Dbs, WriteOut(d) PROVE \A e \in Dbs : Will(e)' = Will(e)
  BY <1>4 DEF WriteOut, Will, Databases, Dbs
<1>5. CASE (at = "show" /\ Kill) \/ EndRead
  BY <1>5 DEF Kill, EndRead, Will
<1>6. ASSUME NEW k \in Skus, ShowItem(k) PROVE \A d \in Dbs : Will(d)' = Will(d)
  BY <1>6 DEF ShowItem, Will
<1> QED BY <1>1, <1>2, <1>3, <1>4, <1>5, <1>6 DEF StartLoad, StartRead
-----------------------------------------------------------------------------
Loading == at \in {"inventory", "vendors"}

Entries(items) == {<<items[k].name, k>> : k \in {j \in Skus : items[j] # None}}

Exact == clean => Will("index") = Entries(Will("items"))
Loaded == complete \/ Loading => Indexes(Will("items"), Will("index"), loaded)
Listed == complete \/ Loading => \A v \in listed : VendorKey(v) \in Will("vendors")

LEMMA ResultsInit == Init => Exact /\ Loaded /\ Listed
BY DEF Init, Exact, Loaded, Listed, Loading, Will, Entries, Fresh, Indexes

LEMMA PutResults ==
  ASSUME Stages, Exact, Loaded, Listed, NEW line \in Lines, PutItem(line)
  PROVE  Exact' /\ Loaded' /\ Listed'
<1> DEFINE k == Sku(line)  item == Item(line)
<1> USE DEF Stages, TypeOK
<1>1. k \in Skus /\ item \in Items /\ item # None
  BY ItemType, InventoryAssumption
<1>2. /\ Will("items") = cache.items /\ Will("items")' = cache'.items
      /\ Will("index") = cache.index /\ Will("index")' = cache'.index
      /\ Will("vendors")' = Will("vendors")
  BY DEF PutItem, Will, Databases
<1>3. /\ cache'.items = [cache.items EXCEPT ![k] = item]
      /\ cache'.index = Indexed(k, item)
      /\ cache.items \in [Skus -> Items \cup {None}]
  BY DEF PutItem, Databases
<1>4. Indexed(k, item) = (cache.index \ OldEntry(k)) \cup {<<item.name, k>>}
  BY DEF Indexed, Entry, get_item_name
<1>5. OldEntry(k) = IF cache.items[k] = None THEN {} ELSE {<<cache.items[k].name, k>>}
  BY DEF OldEntry, Entry, get_item_name
<1>6. Exact'
  <2> SUFFICES ASSUME clean PROVE cache'.index = Entries(cache'.items)
    BY <1>2 DEF Exact, PutItem
  <2>1. cache.index = Entries(cache.items)
    BY <1>2 DEF Exact
  <2>2. ASSUME NEW j \in Skus, j # k PROVE cache'.items[j] = cache.items[j]
    BY <1>3, <2>2
  <2>3. cache'.items[k] = item
    BY <1>1, <1>3
  <2>4. Entries(cache'.items) =
          {<<cache.items[j].name, j>> : j \in {i \in Skus \ {k} : cache.items[i] # None}}
            \cup {<<item.name, k>>}
    BY <1>1, <2>2, <2>3 DEF Entries
  <2>5. cache.index \ OldEntry(k) =
          {<<cache.items[j].name, j>> : j \in {i \in Skus \ {k} : cache.items[i] # None}}
    BY <1>1, <1>5, <2>1 DEF Entries
  <2> QED BY <1>3, <1>4, <2>4, <2>5
<1>7. Loaded'
  <2> SUFFICES ASSUME NEW j \in loaded'
               PROVE  cache'.items[j] # None /\ <<cache'.items[j].name, j>> \in cache'.index
    BY <1>2 DEF Loaded, Indexes
  <2>1. CASE j = k
    BY <1>1, <1>3, <1>4, <2>1
  <2>2. CASE j # k
    <3>1. j \in loaded /\ j \in Skus
      BY <2>2 DEF PutItem
    <3>2. cache.items[j] # None /\ <<cache.items[j].name, j>> \in cache.index
      BY <1>2, <3>1 DEF Loaded, Loading, Indexes, PutItem
    <3>3. cache'.items[j] = cache.items[j]
      BY <1>3, <2>2, <3>1
    <3>4. <<cache.items[j].name, j>> \notin OldEntry(k)
      BY <1>5, <2>2
    <3> QED BY <1>3, <1>4, <3>2, <3>3, <3>4
  <2> QED BY <2>1, <2>2
<1>8. Listed'
  BY <1>2 DEF Listed, Loading, PutItem
<1> QED BY <1>6, <1>7, <1>8

LEMMA VendorResults ==
  ASSUME Stages, Exact, Loaded, Listed,
         NEW v \in VendorLines \cup {Blank}, NEW after, PutVendor(v, after)
  PROVE  Exact' /\ Loaded' /\ Listed'
<1>1. Will("items")' = Will("items") /\ Will("index")' = Will("index")
      /\ Will("vendors")' = Will("vendors") \cup {VendorKey(v)}
  BY DEF PutVendor, Will, Stages, TypeOK, Databases
<1>2. UNCHANGED <<loaded, clean>> /\ listed' = listed \cup {v} /\ Loading
  BY DEF PutVendor, Loading
<1> QED BY <1>1, <1>2 DEF Exact, Loaded, Listed, Indexes, Entries

LEMMA ResultsNext ==
  ASSUME Stages, Exact, Loaded, Listed, Next
  PROVE  Exact' /\ Loaded' /\ Listed'
<1> DEFINE Kept == \A d \in Dbs : Will(d)' = Will(d)
<1>1. ASSUME Kept, complete' \/ Loading' => complete \/ Loading,
             UNCHANGED <<loaded, listed, clean>>
      PROVE  Exact' /\ Loaded' /\ Listed'
  <2>1. Will("items")' = Will("items") /\ Will("index")' = Will("index")
        /\ Will("vendors")' = Will("vendors")
    BY <1>1 DEF Dbs
  <2> QED BY <1>1, <2>1 DEF Exact, Loaded, Listed, Indexes, Entries
<1>2. ASSUME ~complete', ~Loading', ~clean' PROVE Exact' /\ Loaded' /\ Listed'
  BY <1>2 DEF Exact, Loaded, Listed
<1>3. ASSUME NEW dbs \in SUBSET Dbs, StartLoad(dbs) PROVE Exact' /\ Loaded' /\ Listed'
  <2>1. Kept
    BY <1>3, WillKept
  <2>2. Will("items")' = Will("items") /\ Will("index")' = Will("index")
    BY <2>1 DEF Dbs
  <2> QED BY <1>3, <2>2 DEF StartLoad, Exact, Loaded, Listed, Indexes, Entries
<1>4. ASSUME NEW dbs \in SUBSET Dbs, NEW name \in Names \cup {All}, StartRead(name, dbs)
      PROVE  Exact' /\ Loaded' /\ Listed'
  BY <1>1, <1>4, WillKept DEF StartRead, history, Loading
<1>5. ASSUME NEW line \in Lines, PutItemThrows(line) PROVE Exact' /\ Loaded' /\ Listed'
  BY <1>2, <1>5 DEF PutItemThrows, Loading, Stages
<1>6. CASE EndInventory \/ FileMissing \/ PutVendorThrows
  BY <1>1, <1>6, WillKept DEF EndInventory, FileMissing, PutVendorThrows, history, Loading
<1>7. CASE CloseNext(TRUE)
  BY <1>1, <1>7, WillKept DEF CloseNext, Loading, Stages, TypeOK
<1>8. CASE CloseNext(FALSE)
  BY <1>2, <1>8 DEF CloseNext, Loading
<1>9. ASSUME NEW d \in Dbs, WriteOut(d) PROVE Exact' /\ Loaded' /\ Listed'
  BY <1>1, <1>9, WillKept DEF WriteOut, history, Loading
<1>10. CASE (Kill /\ at = "show") \/ EndRead
  BY <1>1, <1>10, WillKept DEF Kill, EndRead, history, Loading
<1>11. CASE Kill /\ at # "show"
  BY <1>2, <1>11 DEF Kill, Loading
<1>12. CASE RemoveFiles
  <2>1. Will("items")' = Fresh.items /\ Will("index")' = Fresh.index
    BY <1>12 DEF RemoveFiles, Will, Stages, TypeOK
  <2> QED BY <1>12, <2>1 DEF RemoveFiles, Exact, Loaded, Listed, Loading, Fresh, Entries
<1>13. ASSUME NEW k \in Skus, ShowItem(k) PROVE Exact' /\ Loaded' /\ Listed'
  BY <1>1, <1>13, WillKept DEF ShowItem, history, Loading
<1> QED BY <1>3, <1>4, PutResults, <1>5, <1>6, VendorResults, <1>7, <1>8, <1>9, <1>10,
        <1>11, <1>12, <1>13 DEF Next

Results == Stages /\ Exact /\ Loaded /\ Listed

LEMMA ResultsHold == Spec => []Results
<1>1. Init => Results
  BY TypeInit, ResultsInit DEF Results, Init, Stages
<1>2. Results /\ [Next]_vars => Results'
  <2>1. ASSUME Results, UNCHANGED vars PROVE Results'
    BY <2>1 DEF Results, vars, Stages, TypeOK, Exact, Loaded, Listed, Loading, Will,
         Indexes, Entries
  <2> QED BY <2>1, StagesNext, ResultsNext DEF Results
<1> QED BY <1>1, <1>2, PTL DEF Spec

(* Whatever failed before, a load that ends with no error leaves on the     *)
(* disk every item it put, and an index entry under its name (main,         *)
(* loadInventoryDB).                                                        *)
THEOREM LoadsFindable == Spec => []LoadedItemsFound
<1>1. Results => LoadedItemsFound
  BY DEF Results, Stages, TypeOK, Loaded, Indexes, Will, LoadedItemsFound
<1> QED BY <1>1, ResultsHold, PTL

(* For any lines, loaded in any order and as often as one likes, a lookup   *)
(* by name finds exactly the items that have this name, as long as nothing  *)
(* failed (get_item_name, show_item).                                       *)
THEOREM LookupsExact == Spec => []CleanLookupExact
<1>1. ASSUME Results, at = "off", clean, NEW n \in Names
      PROVE  Found(n) = {k \in Skus : disk.items[k] # None /\ disk.items[k].name = n}
  <2>1. disk.index = Entries(disk.items)
    BY <1>1 DEF Results, Stages, TypeOK, Exact, Will
  <2>2. Found(n) = {k \in Skus : <<n, k>> \in disk.index}
    BY InventoryAssumption DEF Found
  <2> QED BY <2>1, <2>2 DEF Entries
<1>2. Results => CleanLookupExact
  BY <1>1 DEF CleanLookupExact
<1> QED BY <1>2, ResultsHold, PTL

LEMMA ShowNext ==
  ASSUME Results, ListedVendorsShown, Next
  PROVE  ListedVendorsShown'
<1> SUFFICES ASSUME at' = "show", shown' # None PROVE ListedVendorsShown'
  BY DEF ListedVendorsShown
<1> USE DEF Results, Stages
<1>1. ASSUME at = "show", UNCHANGED <<cache, shown, history>> PROVE ListedVendorsShown'
  BY <1>1 DEF ListedVendorsShown, history
<1>2. ASSUME NEW k \in Skus, ShowItem(k) PROVE ListedVendorsShown'
  <2> DEFINE v == cache.items[k].vendor
  <2>1. UNCHANGED <<cache, listed, complete>> /\ shown'.item = k /\ shown'.vendor = frame'
    BY <1>2 DEF ShowItem, history
  <2>2. ASSUME complete, v \in listed \cap VendorLines, Length[v] = "short"
        PROVE  frame' = v
    <3>1. VendorKey(v) \in Will("vendors") /\ VendorKey(v) = v
      BY <2>2 DEF Listed, VendorKey
    <3>2. v \in cache.vendors
      BY <1>2, <3>1 DEF ShowItem, Will
    <3> QED BY <1>2, <3>2 DEF ShowItem
  <2> QED BY <2>1, <2>2 DEF ListedVendorsShown
<1>3. ASSUME NEW d \in Dbs, WriteOut(d) PROVE ListedVendorsShown'
  BY <1>1, <1>3 DEF WriteOut, reader
<1>4. ASSUME NEW dbs \in SUBSET Dbs, NEW name \in Names \cup {All},
             StartLoad(dbs) \/ StartRead(name, dbs)
      PROVE  FALSE
  BY <1>4 DEF StartLoad, StartRead, OpenAll, reader
<1>5. ASSUME NEW line \in Lines, PutItem(line) \/ PutItemThrows(line) PROVE FALSE
  BY <1>5 DEF PutItem, PutItemThrows, reader
<1>6. ASSUME NEW v \in VendorLines \cup {Blank}, NEW after, PutVendor(v, after)
      PROVE  FALSE
  BY <1>6 DEF PutVendor, reader
<1>7. ASSUME EndInventory \/ FileMissing \/ PutVendorThrows \/ Kill \/ RemoveFiles \/ EndRead
      PROVE  FALSE
  BY <1>7 DEF EndInventory, FileMissing, PutVendorThrows, Kill, RemoveFiles, EndRead, reader
<1>8. ASSUME NEW closed \in BOOLEAN, CloseNext(closed) PROVE FALSE
  BY <1>8 DEF CloseNext, reader
<1> QED BY <1>2, <1>3, <1>4, <1>5, <1>6, <1>7, <1>8 DEF Next, StartLoad, OpenAll, reader

(* For any vendors.txt, a vendor it has whose name is under 20 characters   *)
(* is shown with each of its items once a load has ended well, whatever the *)
(* stack frame held before (loadVendorDB, show_vendor).                     *)
THEOREM VendorsShown == Spec => []ListedVendorsShown
<1>1. Init => ListedVendorsShown
  BY DEF Init, ListedVendorsShown
<1>2. Results /\ ListedVendorsShown /\ [Next]_vars => ListedVendorsShown'
  <2>1. ASSUME ListedVendorsShown, UNCHANGED vars PROVE ListedVendorsShown'
    BY <2>1 DEF vars, ListedVendorsShown
  <2> QED BY <2>1, ShowNext
<1> QED BY <1>1, <1>2, ResultsHold, PTL DEF Spec
=============================================================================
