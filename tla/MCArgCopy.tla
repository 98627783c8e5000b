------------------------------ MODULE MCArgCopy ------------------------------
(* Three buffers in a small address space; see ArgCopy.cfg for the sizes.  *)
EXTENDS ArgCopy
=============================================================================
