--------------------------- MODULE MCSessionStore ---------------------------
(* Two requests and one archiver (a load overlaps an append, two appends      *)
(* overlap after a lock expired), or one request and two archivers (a stalled *)
(* archiver overlaps the one that claimed its batch).                         *)
EXTENDS SessionStore
=============================================================================
