----------------------------- MODULE MCDelivery -----------------------------
(***************************************************************************)
(* A message that Feishu delivers under two event ids, alone or next to a  *)
(* click, a message of a stranger and an event of a type the agent does    *)
(* not handle; these three come at the beginning.                          *)
(***************************************************************************)
EXTENDS Delivery, TLC

CONSTANTS m1, e1, e2, e3, e4, e5

MCTwice == (e1 :> m1) @@ (e2 :> m1)
MCMixed == MCTwice @@ (e3 :> Card) @@ (e4 :> Other) @@ (e5 :> Stranger)
MCNext == /\ Next
          /\ \A e \in Events : seenIDs[e] # seenIDs'[e] =>
               MsgOf[e] \in Messages \/ now = 0 \/ seenIDs'[e] = Never

MCSpec == Init /\ [][MCNext]_vars /\ Fairness
=============================================================================
