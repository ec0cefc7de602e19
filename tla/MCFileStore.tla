---------------------------- MODULE MCFileStore -----------------------------
(* Two goroutines that append.                                             *)
EXTENDS FileStore
=============================================================================
