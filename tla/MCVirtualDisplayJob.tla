------------------------ MODULE MCVirtualDisplayJob ------------------------
(* Instances of VirtualDisplayJob for TLC. *)
EXTENDS VirtualDisplayJob
=============================================================================
