------------------------- MODULE MCStreamWorkerHost -------------------------
(* StreamWorkerHost on a small instance. *)
EXTENDS StreamWorkerHost

CONSTANTS pad, keys

MCDevices == {pad, keys}
=============================================================================
