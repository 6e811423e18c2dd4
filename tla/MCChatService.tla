---------------------------- MODULE MCChatService ----------------------------
(* Instances of ChatService for TLC. *)
EXTENDS ChatService, TLC
=============================================================================
