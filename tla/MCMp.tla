-------------------------------- MODULE MCMp --------------------------------
(* The pool on small buffers: sizes are multiples of an alignment of 2.    *)
EXTENDS Mp
=============================================================================
