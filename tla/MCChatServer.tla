---------------------------- MODULE MCChatServer ----------------------------
(***************************************************************************)
(* Instances of ChatServer: a few connections, each of which may speak for *)
(* any of the keys.  Two connections of one user are two browser tabs, or  *)
(* a reconnection that overtakes the close of the old connection; two keys *)
(* on one connection are two users of one application, or a user with a    *)
(* new key pair.                                                           *)
(***************************************************************************)
EXTENDS ChatServer
=============================================================================
