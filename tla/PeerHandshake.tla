--------------------------- MODULE PeerHandshake ---------------------------
(***************************************************************************)
(* What the peer protocol promises of the two ends of a link, with no      *)
(* name, socket or message in sight: the server that was called lists the  *)
(* link first, the caller only after it, and an end that was unlisted is   *)
(* never listed again.                                                     *)
(***************************************************************************)
CONSTANT Links

VARIABLES
  listed,  \* the ends that are in a peer_list
  ever     \* the ends that were

vars == <<listed, ever>>

Ends == Links \X {"out", "in"}

TypeOK == listed \subseteq ever /\ ever \subseteq Ends

Init == listed = {} /\ ever = {}

List(e) ==
  /\ e \notin ever
  /\ e[2] = "out" => <<e[1], "in">> \in ever
  /\ listed' = listed \cup {e}
  /\ ever' = ever \cup {e}

(* Links end, alone or together. *)
Unlist(D) ==
  /\ listed' = listed \ D
  /\ UNCHANGED ever

Next ==
  \/ \E e \in Ends : List(e)
  \/ \E D \in SUBSET listed : Unlist(D)

Spec == Init /\ [][Next]_vars
=============================================================================
