------------------------------ MODULE EventBus ------------------------------
(***************************************************************************)
(* The bus of internal/events/bus.go with its one subscriber, the function *)
(* of cmd/agent/main.go that sends an alert card.  Only the collector's    *)
(* goroutine publishes, and Publish calls the subscriber in it: until the  *)
(* card is sent, or given up, the collector does nothing else.             *)
(***************************************************************************)
EXTENDS Integers

CONSTANTS Gauges,        \* the event types high_cpu and high_memory
          CooldownSecs,  \* alert.cooldown_secs of the configuration
          AlertDefault,  \* 5 min: what it replaces
          IfaceCooldown  \* 30 s: not configurable

ASSUME CooldownAssumption == /\ CooldownSecs \in Int
                             /\ AlertDefault \in Nat \ {0}
                             /\ IfaceCooldown \in Nat \ {0}

VARIABLES quiet,  \* quiet[y]: time since lastAt[y], saturating at the cooldown
          sending \* the event whose card is being sent, if any

bus == <<quiet, sending>>

IfaceNews == {"iface_up", "iface_down"}
Cooled == Gauges \union IfaceNews
Uncooled == {"device_join", "device_leave", "wan_ip_change", "reboot",
             "service_up", "service_down"}

\* NewBus: the configuration replaces the cooldown of the two alerts.
Cooldown == [y \in Cooled |-> IF y \in IfaceNews THEN IfaceCooldown
                              ELSE IF CooldownSecs > 0 THEN CooldownSecs
                              ELSE AlertDefault]

\* A type that was never published has been quiet for long enough.
BusInit == /\ quiet = Cooldown
           /\ sending = {}

InCooldown(y) == y \in Cooled /\ quiet[y] < Cooldown[y]

\* A suppressed event prolongs the cooldown.
PublishProlonging(y, about, state) ==
  /\ quiet' = IF y \in Cooled THEN [quiet EXCEPT ![y] = 0] ELSE quiet
  /\ sending' = IF InCooldown(y) THEN {}
                ELSE {[type |-> y, about |-> about, state |-> state]}

Publish(y, about, state) ==
  IF InCooldown(y) THEN UNCHANGED bus
  ELSE /\ quiet' = IF y \in Cooled THEN [quiet EXCEPT ![y] = 0] ELSE quiet
       /\ sending' = {[type |-> y, about |-> about, state |-> state]}

\* SendCard returns: the card is sent, or the error is logged and it is lost,
\* which nobody but the log is told.
SendReturns == /\ sending # {}
               /\ sending' = {}
               /\ UNCHANGED quiet

Quieter == [y \in Cooled |-> IF quiet[y] < Cooldown[y] THEN quiet[y] + 1
                             ELSE quiet[y]]
=============================================================================
