--------------------------- MODULE MCDiskStorage ---------------------------
(* The instances of DiskStorage that TLC checks; their values are in the .cfg files. *)
EXTENDS DiskStorage
=============================================================================
