---------------------------- MODULE MCCollector ----------------------------
(***************************************************************************)
(* Collector with a changing load and a network that stays as it is, or    *)
(* with no load and changes of some of what it watches: what it watches    *)
(* shares only the goroutine, the bus and the tickers, which run in any    *)
(* case.                                                                   *)
(***************************************************************************)
EXTENDS Collector

VARIABLE focus

\* What changes when the focus is f.
Changing(f) == CASE f = "load" -> {}
                 [] f = "hosts" -> Macs \union WANs
                 [] f = "services" -> Ifaces \union Services

MCInit == /\ Init
          /\ focus \in {"load", "hosts", "services"}
          /\ hostUp = IF focus = "load" THEN "short" ELSE "long"

MCNext == /\ Next
          /\ UNCHANGED focus
          /\ focus # "load" => high' = {}
          /\ focus = "load" => hostUp' = hostUp /\ uptime' = hostUp
          /\ \A x \in Things \ Changing(focus) :
               /\ sample'[x] = Unseen[x]
               /\ prev'[x] \in {Unseen[x], "up"}

MCSpec == /\ MCInit
          /\ [][MCNext]_<<vars, focus>>
          /\ WF_vars(Detect)
          /\ WF_vars(CardSent)
          /\ WF_vars(Tick)
          /\ SF_vars(CollectFast)
          /\ SF_vars(CollectSlow)
=============================================================================
