------------------------------ MODULE MCEvents ------------------------------
(* Bounded instances of Events, with the messages of MCDrafts.             *)
EXTENDS Events, MCDrafts
=============================================================================
