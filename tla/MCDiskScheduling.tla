-------------------------- MODULE MCDiskScheduling --------------------------
(* All files of at most four requests on a disk of five tracks.            *)
EXTENDS DiskScheduling

MCFiles == UNION {[1 .. n -> 0 .. disk_size - 1] : n \in 0 .. 4}
=============================================================================
