----------------------------- MODULE MCInventory -----------------------------
(***************************************************************************)
(* Two SKUs; s1 is in the text file under two names with two vendors, as   *)
(* it is when the file is changed between two loads.  The line of s2 ends  *)
(* after the SKU.  The name of vendor v2 has 20 characters.                *)
(***************************************************************************)
EXTENDS Inventory, TLC

CONSTANTS n1, n2, s1, s2, v1, v2

MCLines == {<<n1, s1, v1>>, <<n2, s1, v2>>, <<n1, s2>>}
MCVendorLines == {v1, v2}
MCLength == (v1 :> "short") @@ (v2 :> "full")
=============================================================================
