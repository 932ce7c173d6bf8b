---------------------------- MODULE MCBlobStore ----------------------------
(* Two imports, one of two files and one of a single file, whose contents  *)
(* may be equal.                                                           *)
EXTENDS BlobStore, TLC

CONSTANTS f1, f2, f3, i1, i2, h1, h2

MCOwner == (f1 :> i1) @@ (f2 :> i1) @@ (f3 :> i2)

(* One file each. *)
MCOwner2 == (f1 :> i1) @@ (f2 :> i2)
=============================================================================
