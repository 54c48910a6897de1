------------------------- MODULE MCListeningClient -------------------------
(***************************************************************************)
(* A private client whose application listens to what its partner says,    *)
(* awaits one message of it, and waits for its registration.               *)
(***************************************************************************)
EXTENDS ListeningClient, TLC

CONSTANTS ka, kb, hears, awaits, opens, g, h, w

MCKeyOf     == me :> ka
MCPartnerOf == me :> kb
MCChannelOf == [c \in Clients |-> CHOOSE ch \in Channels : TRUE]
MCKind      == me :> "private"

MCFnOf   == [r \in Tickets |-> CASE r = hears -> g [] r = awaits -> w
                                 [] r = opens -> h]
MCPreOf  == [r \in Tickets |-> IF r = opens THEN "signChallenge" ELSE "privateMessage"]
MCPostOf == [r \in Tickets |-> "privateMessage"]

MCAnswers == {AskVerify(1), Success("Connected to Network"),
              Success("MESSAGE SENT"), DirectMsg(kb, ka, 1)}
=============================================================================
