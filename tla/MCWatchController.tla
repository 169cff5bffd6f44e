-------------------------- MODULE MCWatchController --------------------------
(* Small instances of WatchController. *)
EXTENDS WatchController

(* A stat signature tells every two versions apart. *)
StatSignature(v) == v

(* A patch signature is the same for a version and for its undoing. *)
PatchSignature(v) == v % 2
=============================================================================
