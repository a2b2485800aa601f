------------------------------ MODULE MCWatched ------------------------------
(* Instances of Watched for TLC.                                           *)
EXTENDS Watched
=============================================================================
