------------------------- MODULE MCClientAnyServer -------------------------
(***************************************************************************)
(* Instances of AnsweredClient: one client of each kind; every answer a    *)
(* server gives, and messages of the partner, of others and for others.    *)
(***************************************************************************)
EXTENDS AnsweredClient, TLC

CONSTANTS ka, kb, pub, priv, chat, ch1

MCKeyOf     == [c \in Clients |-> ka]
MCPartnerOf == [c \in Clients |-> kb]
MCChannelOf == [c \in Clients |-> ch1]
MCKind      == [c \in Clients |-> IF c = pub THEN "public"
                                  ELSE IF c = priv THEN "private" ELSE "chat"]

MCAnswers ==
  {AskVerify(0), AskVerify(1), AskVerify(2), Success("Connected to Network"),
   Success("Connected to channel"), Success("MESSAGE SENT"),
   Error("MALFORMED DATA"), ChannelMsg(kb, ch1, 1), DirectMsg(kb, ka, 1),
   DirectMsg(kb, kb, 1), ChannelMsg(NoKey, ch1, 1)}
(* Clients share nothing: it is enough to follow one of them at a time. *)
OneIsActive ==
  Cardinality({c \in Clients : started[c] \/ sentCount[c] > 0}) <= 1
=============================================================================
