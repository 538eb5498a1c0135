----------------------------- MODULE MCAccounts -----------------------------
(* Two requests at a time and a login each for two users: a lookup overlaps a *)
(* change of the user it looks up, by an administrator or by that user, and    *)
(* main or an archiver may start beneath them.                                 *)
EXTENDS Accounts
=============================================================================
