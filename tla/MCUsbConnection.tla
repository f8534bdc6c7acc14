--------------------------- MODULE MCUsbConnection ---------------------------
(* A small instance of UsbConnection: two disks of one partition each.      *)
EXTENDS UsbConnection

\* The disk of each partition.
Own == [p \in Partitions |-> IF p = "a1" THEN "a" ELSE "b"]

\* Bound: besides refused mounts no more than one kind of accident happens, and
\* the search goes no further after a second.
Few == Cardinality(trouble \ {"refused"}) <= 1
=============================================================================
