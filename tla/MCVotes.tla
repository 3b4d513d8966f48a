------------------------------ MODULE MCVotes ------------------------------
(* Votes for TLC; the committee size is set in the .cfg files.             *)
EXTENDS Votes
=============================================================================
