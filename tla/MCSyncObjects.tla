----------------------------- MODULE MCSyncObjects -----------------------------
(* TLC instance of SyncObjects: see the .cfg files for the constants. *)
EXTENDS SyncObjects
================================================================================
