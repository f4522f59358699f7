------------------------------ MODULE Inventory ------------------------------
(***************************************************************************)
(* The inventory example in berkeley/examples/triple_db: one program loads *)
(* two text files into an item database, its index by item name, and a     *)
(* vendor database; another shows items with their vendors.  They run one  *)
(* at a time.  Berkeley DB (external) keeps each open database in a cache  *)
(* of its own, writes it out when it likes and at close, keeps the index   *)
(* in step with the items, and may throw from any call.                    *)
(***************************************************************************)
EXTENDS Naturals, Sequences, FiniteSets

CONSTANTS
  Lines,        \* what a line of inventory.txt may be: name, SKU, vendor
  VendorLines,  \* the vendors a line of vendors.txt may be for
  Length,       \* their names: "short" of 20 characters, "full", "over"
  Blank,        \* the name on an empty line
  None,         \* no record
  Junk,         \* memory nobody has written
  All           \* the reader is asked for no name in particular

(* nextPound finds no further pound sign: pos + 1 is 0 and the rest of the  *)
(* line stays, so the fields it lacks are all its last one.                 *)
Field(line, i) == line[IF i <= Len(line) THEN i ELSE Len(line)]
Item(line) == [name |-> Field(line, 1), vendor |-> Field(line, 3)]
Sku(line) == Field(line, 2)

Items == {Item(l) : l \in Lines}
Skus == {Sku(l) : l \in Lines}
Names == {i.name : i \in Items}

ASSUME InventoryAssumption ==
  /\ \A l \in Lines : Len(l) \in 1..3
  /\ Length \in [VendorLines -> {"short", "full", "over"}]
  /\ None \notin Items /\ All \notin Names
  /\ Junk \notin VendorLines \cup {i.vendor : i \in Items} \cup {Blank}

VARIABLES
  disk,      \* inventorydb.db, itemname.sdb and vendordb.db
  cache,     \* the databases as the running program sees them
  open,      \* the handles it has open
  at,        \* where it is
  todo,      \* the items the reader has yet to show
  frame,     \* the vendor in the stack frame of show_vendor
  shown,     \* the item and the vendor shown last
  loaded,    \* history: the SKUs the latest load has put
  listed,    \* history: the lines of vendors.txt it has put
  complete,  \* history: the latest load has put every line, with no error
  clean      \* history: no error and no crash since the files were new

vars == <<disk, cache, open, at, todo, frame, shown, loaded, listed, complete, clean>>
history == <<loaded, listed, complete, clean>>
reader == <<todo, frame, shown>>

-----------------------------------------------------------------------------
Dbs == {"items", "index", "vendors"}
Fresh == [items |-> [k \in Skus |-> None], index |-> {}, vendors |-> {}]

(* sscanf takes at most 20 characters for the name, into an array of 20.    *)
(* A longer name is cut, and the scan ends there; a name of just 20 has no  *)
(* terminator, and the street that is scanned next runs on from it.         *)
VendorKeyUnterminated(v) == <<v, "unterminated">>  \* fault: strlen without + 1

VendorKey(v) ==
  IF v = Blank \/ Length[v] = "short" THEN v
  ELSE IF Length[v] = "full" THEN <<v, "street">> ELSE <<v, "cut">>

get_vendor_name(item) == item.vendor  \* fault: another field of the buffer

(* get_item_name: the key of an item in the index. *)
get_item_name(item) == item.name

Init ==
  /\ disk = Fresh /\ cache = Fresh
  /\ open = {} /\ at = "off"
  /\ todo = {} /\ frame = Junk /\ shown = None
  /\ loaded = {} /\ listed = {} /\ complete = FALSE /\ clean = TRUE

-----------------------------------------------------------------------------
(* MyDb's constructor: a database that does not open is reported and left,  *)
(* and the program goes on.  associate throws unless both of its databases  *)
(* are open; then nothing has been changed.                                 *)
OpenAllUnassociated(dbs) ==  \* fault: the item database alone will do
  /\ at = "off"
  /\ "items" \in dbs
  /\ open' = dbs
  /\ cache' = [d \in Dbs |-> IF d \in dbs THEN disk[d] ELSE Fresh[d]]

OpenAll(dbs) ==
  /\ at = "off"
  /\ {"items", "index"} \subseteq dbs
  /\ open' = dbs
  /\ cache' = [d \in Dbs |-> IF d \in dbs THEN disk[d] ELSE Fresh[d]]

StartLoad(dbs) ==
  /\ OpenAll(dbs)
  /\ at' = "inventory"
  /\ loaded' = {} /\ listed' = {} /\ complete' = FALSE
  /\ UNCHANGED <<disk, reader, clean>>

(* A put of an item updates the index first: the new entry goes in, and an  *)
(* entry of the record it replaces comes out, which must be there.          *)
Entry(k, item) == <<get_item_name(item), k>>
OldEntry(k) == {Entry(k, old) : old \in {cache.items[k]} \ {None}}
Indexed(k, item) == (cache.index \ OldEntry(k)) \cup {Entry(k, item)}
Replaceable(k, item) == OldEntry(k) \subseteq cache.index \cup {Entry(k, item)}

PutItem(line) ==
  LET k == Sku(line)
      item == Item(line)
  IN /\ at = "inventory"
     /\ Replaceable(k, item)
     /\ cache' = [cache EXCEPT !.items[k] = item, !.index = Indexed(k, item)]
     /\ loaded' = loaded \cup {k}
     /\ UNCHANGED <<disk, open, at, reader, listed, complete, clean>>

(* A put that throws may have changed the index already.  The exception     *)
(* leaves loadInventoryDB, and main's handler, for the destructors.         *)
PutItemThrows(line) ==
  /\ at = "inventory"
  /\ \E index \in {cache.index, cache.index \cup {Entry(Sku(line), Item(line))},
                   Indexed(Sku(line), Item(line))} :
       cache' = [cache EXCEPT !.index = index]
  /\ at' = "closing"
  /\ clean' = FALSE
  /\ UNCHANGED <<disk, open, reader, loaded, listed, complete>>

(* The end of inventory.txt, or no such file: then an exception. *)
EndInventory ==
  /\ at = "inventory"
  /\ at' = "vendors"
  /\ UNCHANGED <<disk, cache, open, reader, history>>

FileMissingExits ==  \* fault: exit, which runs no destructor
  /\ at \in {"inventory", "vendors"}
  /\ at' = "off"
  /\ UNCHANGED <<disk, cache, open, reader, history>>

FileMissing ==
  /\ at \in {"inventory", "vendors"}
  /\ at' = "closing"
  /\ UNCHANGED <<disk, cache, open, reader, history>>

(* loadVendorDB puts a record for every line, the empty last one included,  *)
(* and ends after the last.                                                 *)
PutVendor(v, after) ==
  /\ at = "vendors" /\ "vendors" \in open
  /\ after \in {"vendors", "closing"}
  /\ cache' = [cache EXCEPT !.vendors = @ \cup {VendorKey(v)}]
  /\ listed' = listed \cup {v}
  /\ at' = after
  /\ complete' = (after = "closing")
  /\ UNCHANGED <<disk, open, reader, loaded, clean>>

PutVendorThrows ==
  /\ at = "vendors"
  /\ at' = "closing"
  /\ UNCHANGED <<disk, cache, open, reader, history>>

-----------------------------------------------------------------------------
(* The destructors close the databases in the reverse order of their        *)
(* declaration: index, vendors, items.  A close that throws is reported and *)
(* left, and what was not written out is gone.                              *)
NextToClose ==
  CHOOSE d \in open :
    \A e \in open : d = e \/ d = "index" \/ (d = "vendors" /\ e = "items")

CloseNext(closed) ==
  LET d == NextToClose
  IN /\ at = "closing" /\ open # {}
     /\ closed \in BOOLEAN
     /\ disk' = IF closed THEN [disk EXCEPT ![d] = cache[d]] ELSE disk
     /\ cache' = [cache EXCEPT ![d] = Fresh[d]]
     /\ open' = open \ {d}
     /\ at' = IF open' = {} THEN "off" ELSE at
     /\ complete' = (complete /\ closed)
     /\ clean' = (clean /\ closed)
     /\ UNCHANGED <<reader, loaded, listed>>

WriteOut(d) ==
  /\ d \in open /\ disk[d] # cache[d]
  /\ disk' = [disk EXCEPT ![d] = cache[d]]
  /\ UNCHANGED <<cache, open, at, reader, history>>

(* The program is killed; what was not written out is gone. *)
Kill ==
  /\ at # "off"
  /\ cache' = Fresh /\ open' = {} /\ at' = "off"
  /\ todo' = {} /\ frame' = Junk /\ shown' = None
  /\ IF at = "show" THEN UNCHANGED history
     ELSE complete' = FALSE /\ clean' = FALSE /\ UNCHANGED <<loaded, listed>>
  /\ UNCHANGED disk

(* The user starts over without the database files. *)
RemoveFiles ==
  /\ at = "off"
  /\ disk' = Fresh
  /\ loaded' = {} /\ listed' = {} /\ complete' = FALSE /\ clean' = TRUE
  /\ UNCHANGED <<cache, open, at, reader>>

-----------------------------------------------------------------------------
(* The reader: show_all_records walks the items, show_item the index.       *)
Found(name) ==
  IF name = All THEN {k \in Skus : disk.items[k] # None}
  ELSE {k \in Skus : <<name, k>> \in disk.index}

StartRead(name, dbs) ==
  /\ OpenAll(dbs)
  /\ at' = "show"
  /\ todo' = Found(name)
  /\ UNCHANGED <<disk, frame, shown, history>>

(* show_vendor looks the vendor up by the item's copy of its name and       *)
(* prints its local structure, whether or not get found a record: what the  *)
(* stack still holds of the call before, or anything.                       *)
ShowItem(k) ==
  /\ at = "show" /\ k \in todo
  /\ cache.items[k] # None /\ "vendors" \in open
  /\ LET v == cache.items[k].vendor
     IN frame' \in IF v \in cache.vendors THEN {v} ELSE {frame, Junk}
  /\ shown' = [item |-> k, vendor |-> frame']
  /\ todo' = todo \ {k}
  /\ UNCHANGED <<disk, cache, open, at, history>>

(* The end of the walk, or an exception: an index entry without an item, a  *)
(* vendor database that did not open, a call that threw.                    *)
EndRead ==
  /\ at = "show"
  /\ at' = "off"
  /\ cache' = Fresh /\ open' = {}
  /\ todo' = {} /\ frame' = Junk /\ shown' = None
  /\ UNCHANGED <<disk, history>>

-----------------------------------------------------------------------------
Next ==
  \/ \E dbs \in SUBSET Dbs :
       StartLoad(dbs) \/ \E name \in Names \cup {All} : StartRead(name, dbs)
  \/ \E line \in Lines : PutItem(line) \/ PutItemThrows(line)
  \/ \E v \in VendorLines \cup {Blank}, after \in {"vendors", "closing"} : PutVendor(v, after)
  \/ EndInventory \/ FileMissing \/ PutVendorThrows
  \/ \E closed \in BOOLEAN : CloseNext(closed)
  \/ \E d \in Dbs : WriteOut(d)
  \/ Kill \/ RemoveFiles
  \/ \E k \in Skus : ShowItem(k)
  \/ EndRead

Spec == Init /\ [][Next]_vars

-----------------------------------------------------------------------------
Keys == {VendorKey(v) : v \in VendorLines \cup {Blank}}
Databases == [items : [Skus -> Items \cup {None}],
              index : SUBSET (Names \X Skus), vendors : SUBSET Keys]
Vendors == VendorLines \cup {i.vendor : i \in Items} \cup {Blank, Junk}

(* Every variable holds a value of its kind: the databases, what the reader *)
(* shows, where the program is.                                             *)
TypeOK ==
  /\ disk \in Databases /\ cache \in Databases
  /\ open \subseteq Dbs
  /\ at \in {"off", "inventory", "vendors", "closing", "show"}
  /\ at = "off" <=> open = {}
  /\ todo \subseteq Skus /\ frame \in Vendors
  /\ shown = None \/ shown \in [item : Skus, vendor : Vendors]
  /\ loaded \subseteq Skus /\ listed \subseteq VendorLines \cup {Blank}
  /\ complete \in BOOLEAN /\ clean \in BOOLEAN

(* A load that ended with no error has everything it put on the disk, and   *)
(* the index finds each item under its name, whatever crashes and failures  *)
(* the files went through before it (main, loadInventoryDB).                *)
LoadedItemsFound ==
  at = "off" /\ complete =>
    \A k \in loaded :
      disk.items[k] # None /\ <<disk.items[k].name, k>> \in disk.index

(* As long as nothing failed, show_item finds under a name every item that  *)
(* has this name now, and no other: the name the callback gives to the      *)
(* index is the one the reader asks with, and loading changed files again   *)
(* leaves no old one behind (get_item_name, show_item).                     *)
CleanLookupExact ==
  at = "off" /\ clean =>
    \A n \in Names :
      Found(n) = {k \in Skus : disk.items[k] # None /\ disk.items[k].name = n}

(* After such a load the reader shows beside each item the record of that   *)
(* item's vendor, if vendors.txt has it and its name is under 20 characters *)
(* (loadVendorDB, show_vendor).                                             *)
ListedVendorsShown ==
  at = "show" /\ shown # None /\ complete =>
    LET v == cache.items[shown.item].vendor
    IN v \in listed \cap VendorLines /\ Length[v] = "short" => shown.vendor = v
=============================================================================
