------------------------------ MODULE MCServer ------------------------------
(***************************************************************************)
(* Two processes on one database, both migrations of this repository.      *)
(***************************************************************************)
EXTENDS Server

Migrations == 2
=============================================================================
