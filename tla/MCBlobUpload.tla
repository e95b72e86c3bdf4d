---------------------------- MODULE MCBlobUpload ----------------------------
(* An instance of BlobUpload for TLC; constants are given by the .cfg files. *)
EXTENDS BlobUpload
=============================================================================
