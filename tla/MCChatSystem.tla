---------------------------- MODULE MCChatSystem ----------------------------
(***************************************************************************)
(* Instances of ChatSystem: a and b talk in one channel or to each other,  *)
(* each with a key of their own.                                           *)
(***************************************************************************)
EXTENDS ChatSystem, TLC

CONSTANTS ka, kb, a, b, ch1

TwoKeyOf     == a :> ka @@ b :> kb
TwoPartnerOf == a :> kb @@ b :> ka
TwoChannelOf == a :> ch1 @@ b :> ch1
TwoPublic    == a :> "public" @@ b :> "public"
TwoPrivate   == a :> "private" @@ b :> "private"
=============================================================================
