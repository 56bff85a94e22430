----------------------------- MODULE MCCommands -----------------------------
(***************************************************************************)
(* Two requests of one user.  A live command, which makes many calls, is   *)
(* checked by itself; of the others, any two meet.                         *)
(***************************************************************************)
EXTENDS Commands, TLC

MCOffers == "first" :> {"status", "confirmed exec"}
            @@ "second" :> {"disk", "plugin config", "refresh"}
MCSender == [r \in {"first", "second"} |-> "ann"]

MCInit == /\ CommandsInit
          /\ pc["first"] = "sent"
          /\ pc["second"] = "unsent" <=> cmd["first"] \in Live

MCSpec == MCInit /\ [][CommandsNext]_commandVars /\ Fairness
=============================================================================
