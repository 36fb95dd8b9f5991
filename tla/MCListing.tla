------------------------------ MODULE MCListing ------------------------------
(***************************************************************************)
(* An instance of ListingOverConnection for TLC: four keys, of which three *)
(* are backups, and a page for each, so that a token can be empty,         *)
(* repeated or shifted.                                                    *)
(***************************************************************************)
EXTENDS ListingOverConnection

MCKeys == 1..4
MCBackups == 1..3
=============================================================================
