---------------------------- MODULE MCChatServer ----------------------------
(* The instances of ChatServer that TLC checks. *)
EXTENDS ChatServer, TLC

ChannelSymmetry == Permutations(Channel)
=============================================================================
