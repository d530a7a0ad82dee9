---------------------------- MODULE MCMessageList ---------------------------
(* Instances of MessageList for TLC.                                       *)
EXTENDS MessageList
=============================================================================
