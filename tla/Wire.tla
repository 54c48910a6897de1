-------------------------------- MODULE Wire --------------------------------
(***************************************************************************)
(* The JSON datums that clients and servers exchange.                      *)
(*                                                                         *)
(* A datum is one record whatever its type; a field a type does not use    *)
(* holds its blank value.  A public key and a channel name are opaque      *)
(* values.  "msg" is a number: in a "verify" datum the ordinal of the      *)
(* challenge (on that connection) that is asked or signed, in a "msg"      *)
(* datum the ordinal of the message among those its author enqueued.       *)
(* "text" tells apart the fixed strings the server puts in "msg".          *)
(***************************************************************************)
EXTENDS Naturals

CONSTANTS
  Keys,       \* public keys, in hexadecimal on the wire
  Channels,   \* channel names
  NoKey,      \* an absent or empty fromPublicKey / toPublicKey
  NoChannel   \* an absent or empty cname

ASSUME WireAssumption ==
  /\ NoKey \notin Keys
  /\ NoChannel \notin Channels

Types == {"garbled", "connect", "verify", "join", "msg", "success", "error"}

Texts == {"", "Connected to Network", "Connected to channel", "MESSAGE SENT",
          "MALFORMED DATA", "JOIN CHANNEL FIRST", "destination required"}

Datum == [type : Types, from : Keys \cup {NoKey}, to : Keys \cup {NoKey},
          cname : Channels \cup {NoChannel}, msg : Nat, text : Texts]

MakeDatum(type, from, to, cname, msg, text) ==
  [type |-> type, from |-> from, to |-> to,
   cname |-> cname, msg |-> msg, text |-> text]

-----------------------------------------------------------------------------
(* What a client sends. *)

Connect(k)    == MakeDatum("connect", k, NoKey, NoChannel, 0, "")
Verify(k, n)  == MakeDatum("verify", k, NoKey, NoChannel, n, "")
Join(k, ch)   == MakeDatum("join", k, NoKey, ch, 0, "")
ChannelMsg(k, ch, n) == MakeDatum("msg", k, NoKey, ch, n, "")
DirectMsg(k, to, n)  == MakeDatum("msg", k, to, NoChannel, n, "")

(* A chunk that does not parse as JSON, or has no fromPublicKey. *)
Garbled       == MakeDatum("garbled", NoKey, NoKey, NoChannel, 0, "")

(* What a server answers. *)

AskVerify(n)  == MakeDatum("verify", NoKey, NoKey, NoChannel, n, "")
Success(text) == MakeDatum("success", NoKey, NoKey, NoChannel, 0, text)
Error(text)   == MakeDatum("error", NoKey, NoKey, NoChannel, 0, text)
=============================================================================
