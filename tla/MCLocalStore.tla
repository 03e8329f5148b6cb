---------------------------- MODULE MCLocalStore ----------------------------
(***************************************************************************)
(* Instances of LocalStore for TLC: three or four batches, segments of one *)
(* or two records, one or two crashes and faults.                          *)
(***************************************************************************)
EXTENDS LocalStore

====
