--------------------------- MODULE CollectorProof ---------------------------
(***************************************************************************)
(* Type correctness of module Collector, and two of its properties for any *)
(* number of devices, interfaces and services and any of its times.        *)
(***************************************************************************)
EXTENDS Collector, TLAPS

News == Macs \union WANs \union Services

\* A detector only looks at what it is meant for.
TodoFits ==
  /\ stage = "idle" => todo = {} /\ sending = {}
  /\ stage = "gauges" => todo \subseteq Gauges
  /\ stage \in {"joins", "leaves"} => todo \subseteq Macs
  /\ stage = "WANs" => todo \subseteq WANs
  /\ stage = "ifaces" => todo \subseteq Ifaces
  /\ stage = "services" => todo \subseteq Services

\* The clock of a gauge started after its last low sample, unless that sample
\* has yet to be looked at.
ClockBacked ==
  \A g \in Gauges : \/ highFor[g] <= calm[g]
                    \/ stage = "gauges" /\ g \in todo /\ g \notin high

\* The sample cannot change while an alert is being sent.
AlertBacked == \A g \in Gauges : Sending(g) => calm[g] = Sustained /\ stage = "gauges"

DeviceStates == \A x \in Macs : sample[x] \in {"in", "out"} /\ prev[x] \in {"in", "out"}

Joined(x) == \/ stage = "joins" /\ x \notin todo
             \/ stage = "leaves" /\ x \in todo

\* The chat knows that x is in state s, will know it when the card that is being
\* sent arrives, or has missed the last card about x.
Knows(x, s) == \/ \E e \in sending : e.about = x /\ e.state = s
               \/ /\ \A e \in sending : e.about # x
                  /\ told[x] = s \/ x \in missed

\* What was told runs ahead of prevDevices between the two passes over devices.
InStep == \A x \in News :
            \/ Knows(x, prev[x])
            \/ x \in Macs /\ Joined(x) /\ sample[x] = "in" /\ Knows(x, "in")

JoinTold == \A x \in Macs : Joined(x) /\ sample[x] = "in" => Knows(x, "in")

OneCard == \A d, e \in sending : d = e

IInv == /\ TypeOK
        /\ TodoFits
        /\ ClockBacked
        /\ AlertBacked
        /\ DeviceStates
        /\ InStep
        /\ JoinTold
        /\ OneCard

\* The cooldowns are positive numbers.
LEMMA CooldownType == Cooldown \in [Cooled -> Nat \ {0}]
  BY CooldownAssumption DEF Cooldown

\* News about devices, addresses, services and reboots is never suppressed.
LEMMA NeverCooled ==
  \A y \in Uncooled : ~InCooldown(y)
  BY NamesAssumption DEF Uncooled, InCooldown, Cooled, IfaceNews

\* Publish keeps the types of the bus.
LEMMA PublishType ==
  ASSUME TypeOK, NEW y \in Cooled \union Uncooled,
         NEW x \in Things \union {None}, NEW s \in States,
         Publish(y, x, s)
  PROVE  /\ quiet' \in [Cooled -> Nat]
         /\ \A z \in Cooled : quiet'[z] <= Cooldown[z]
         /\ sending' \in SUBSET [type : Cooled \union Uncooled,
                                 about : Things \union {None},
                                 state : States]
<1>1. \A z \in Cooled : Cooldown[z] \in Nat
  BY CooldownType
<1> QED
  BY <1>1 DEF TypeOK, Publish, bus

LEMMA InitIInv == Init => IInv
<1> SUFFICES ASSUME Init PROVE IInv
  OBVIOUS
<1>1. quiet \in [Cooled -> Nat] /\ \A y \in Cooled : quiet[y] <= Cooldown[y]
  BY CooldownType DEF Init, BusInit
<1>2. TypeOK
  <2>1. Unseen \in [Things -> States]
    BY DEF Unseen, States, None
  <2>2. /\ sample \in [Things -> States] /\ prev \in [Things -> States]
        /\ told \in [Things -> States]
    BY <2>1 DEF Init
  <2>3. /\ highFor \in [Gauges -> {Zero} \union 0 .. Sustained]
        /\ calm \in [Gauges -> 0 .. Sustained]
    BY CollectorAssumption DEF Init, Zero
  <2>4. fastIn \in 1 .. FastEvery /\ slowIn \in 1 .. SlowEvery
    BY CollectorAssumption DEF Init
  <2> QED
    BY <1>1, <2>2, <2>3, <2>4 DEF Init, BusInit, TypeOK, Stages
<1>3. TodoFits /\ AlertBacked
  BY DEF Init, BusInit, TodoFits, AlertBacked, Sending
<1>4. ClockBacked
  <2>1. Zero <= 0
    BY DEF Zero
  <2>2. \A g \in Gauges : highFor[g] = Zero /\ calm[g] = 0
    BY DEF Init
  <2> QED
    BY <2>1, <2>2 DEF ClockBacked
<1>5. DeviceStates /\ InStep /\ JoinTold /\ OneCard
  BY DEF Init, BusInit, DeviceStates, InStep, JoinTold, OneCard, Knows, Joined,
         Unseen, News, Things
<1> QED
  BY <1>2, <1>3, <1>4, <1>5 DEF IInv

-----------------------------------------------------------------------------
(* Type correctness, action by action.                                     *)

\* What the detectors of collectSlow have in common.
LEMMA AnnounceType ==
  ASSUME TypeOK, NEW y \in Uncooled \union IfaceNews, NEW x \in Things,
         NEW s \in States, Announce(y, x, s)
  PROVE  /\ quiet' \in [Cooled -> Nat]
         /\ \A z \in Cooled : quiet'[z] <= Cooldown[z]
         /\ sending' \in SUBSET [type : Cooled \union Uncooled,
                                 about : Things \union {None},
                                 state : States]
         /\ told' \in [Things -> States]
<1>1. y \in Cooled \union Uncooled /\ Publish(y, x, s)
  BY DEF Announce, Cooled
<1>2. told' \in [Things -> States]
  BY DEF Announce, TypeOK
<1> QED
  BY <1>1, <1>2, PublishType

LEMMA KeepType ==
  ASSUME TypeOK, NEW x \in Things, NEW s \in States, Keep(x, s)
  PROVE  told' \in [Things -> States]
  BY DEF Keep, TypeOK

LEMMA SampleType ==
  ASSUME ReadsEnd
  PROVE  sample' \in [Things -> States]
<1>1. PICK devices \in [Macs -> {"in", "out"}], addrs \in [WANs -> IPs \union {None}],
           ifaces \in [Ifaces -> {"UP", "DOWN", None, Absent}] :
        sample' = Reading(devices, addrs, ifaces)
  BY DEF ReadsEnd, Read
<1>2. \A x \in Macs : devices[x] \in States
  BY DEF States
<1>3. \A x \in WANs : addrs[x] \in States
  BY DEF States
<1>4. \A x \in Ifaces : ifaces[x] \in States
  BY DEF States
<1>5. None \in States
  BY DEF States
<1> QED
  BY <1>1, <1>2, <1>3, <1>4, <1>5 DEF Reading

LEMMA TickType ==
  ASSUME TypeOK, Tick
  PROVE  TypeOK'
<1>1. \A y \in Cooled : Cooldown[y] \in Nat
  BY CooldownType
<1>2. /\ quiet' \in [Cooled -> Nat]
      /\ \A y \in Cooled : quiet'[y] <= Cooldown[y]
  BY <1>1 DEF TypeOK, Tick, Quieter
<1>3. \A n \in {Zero} \union 0 .. Sustained :
        Longer(n) \in {Zero} \union 0 .. Sustained
  BY CollectorAssumption DEF Longer, Zero
<1>4. \A n \in 0 .. Sustained : Longer(n) \in 0 .. Sustained
  BY CollectorAssumption DEF Longer
<1>5. /\ highFor' \in [Gauges -> {Zero} \union 0 .. Sustained]
      /\ calm' \in [Gauges -> 0 .. Sustained]
  BY <1>3, <1>4 DEF TypeOK, Tick
<1>6. fastIn' \in 1 .. FastEvery /\ slowIn' \in 1 .. SlowEvery
  BY CollectorAssumption DEF TypeOK, Tick
<1>7. /\ fastDue' \in BOOLEAN
      /\ slowDue' \in BOOLEAN
      /\ hostUp' \in {"short", "long"}
  BY DEF TypeOK, Tick
<1> QED
  BY <1>2, <1>5, <1>6, <1>7 DEF TypeOK, Tick, loop, slow

LEMMA NextTypeOK == TypeOK /\ [Next]_vars => TypeOK'
<1> SUFFICES ASSUME TypeOK, [Next]_vars PROVE TypeOK'
  OBVIOUS
<1>1. CASE CollectFast
  <2>1. calm' \in [Gauges -> 0 .. Sustained]
    BY <1>1, CollectorAssumption DEF CollectFast, TypeOK
  <2>2. fastDue' \in BOOLEAN /\ uptime' \in {"short", "long"}
    BY <1>1 DEF CollectFast, TypeOK
  <2> QED
    BY <1>1, <2>1, <2>2 DEF CollectFast, TypeOK, bus, slow, Stages
<1>2. CASE CollectSlow
  <2>1. slowDue' \in BOOLEAN /\ starting' \in {"slow", "fast", "done"}
    BY <1>2 DEF CollectSlow, TypeOK
  <2> QED
    BY <1>2, <2>1 DEF CollectSlow, TypeOK, bus, gauges, slow, boot, Stages
<1>16. CASE ReadsEnd
  <2>1. sample' \in [Things -> States]
    BY <1>16, SampleType
  <2> QED
    BY <1>16, <2>1 DEF ReadsEnd, TypeOK, bus, tickers, gauges, boot, Stages, Things
<1>3. ASSUME NEW s \in Stages, NEW next \in Stages,
             NEW what \in SUBSET (Things \union {"router"}),
             Proceed(s, next, what)
      PROVE  TypeOK'
  <2>1. Unseen \in [Things -> States]
    BY DEF Unseen, States, None
  <2> QED
    BY <1>3, <2>1 DEF Proceed, TypeOK, bus, tickers, gauges, boot
<1>4. CASE NextDetector
  BY <1>3, <1>4 DEF NextDetector, Stages, Things
<1>5. CASE DetectReboot
  <2>1. "reboot" \in Cooled \union Uncooled
    BY DEF Uncooled
  <2>2. CASE prevUptime = "long" /\ uptime = "short"
    <3>1. Publish("reboot", None, None) /\ None \in States
      BY <1>5, <2>2 DEF DetectReboot, States
    <3> QED
      BY <1>5, <2>1, <2>2, <3>1, PublishType
      DEF DetectReboot, At, TypeOK, tickers, gauges, slow
  <2>3. CASE ~(prevUptime = "long" /\ uptime = "short")
    BY <1>5, <2>3 DEF DetectReboot, At, TypeOK, bus, tickers, gauges, slow
  <2> QED
    BY <2>2, <2>3
<1>6. ASSUME NEW g \in Gauges, Sinks(g) \/ Rises(g)
      PROVE  TypeOK'
  BY <1>6, CollectorAssumption
  DEF Sinks, Rises, At, TypeOK, bus, tickers, slow, boot, Zero
<1>7. ASSUME NEW g \in Gauges, Alarms(g)
      PROVE  TypeOK'
  <2>1. g \in Cooled \union Uncooled
    BY DEF Cooled
  <2>2. Publish(g, None, None) /\ None \in States
    BY <1>7 DEF Alarms, States
  <2>3. highFor' \in [Gauges -> {Zero} \union 0 .. Sustained]
    BY <1>7, CollectorAssumption DEF Alarms, TypeOK
  <2> QED
    BY <1>7, <2>1, <2>2, <2>3, PublishType
    DEF Alarms, At, TypeOK, tickers, slow, boot
<1>8. ASSUME NEW x \in Things, DetectJoin(x)
      PROVE  TypeOK'
  <2>1. "device_join" \in Uncooled /\ "in" \in States
    BY DEF Uncooled, States
  <2> QED
    BY <1>8, <2>1, AnnounceType
    DEF DetectJoin, At, TypeOK, bus, tickers, gauges, boot
<1>9. ASSUME NEW x \in Things, DetectLeave(x)
      PROVE  TypeOK'
  <2>1. "device_leave" \in Uncooled /\ "out" \in States
    BY DEF Uncooled, States
  <2>2. sample[x] \in States
    BY DEF TypeOK
  <2> QED
    BY <1>9, <2>1, <2>2, AnnounceType
    DEF DetectLeave, At, See, TypeOK, bus, tickers, gauges, boot
<1>10. ASSUME NEW x \in Things, DetectWAN(x)
       PROVE  TypeOK'
  <2>1. "wan_ip_change" \in Uncooled /\ sample[x] \in States /\ prev[x] \in States
    BY DEF Uncooled, TypeOK
  <2> QED
    BY <1>10, <2>1, AnnounceType, KeepType
    DEF DetectWAN, At, See, Keep, TypeOK, bus, tickers, gauges, boot
<1>11. ASSUME NEW x \in Things, DetectIface(x)
       PROVE  TypeOK'
  <2>1. sample[x] \in States /\ prev[x] \in States
    BY DEF TypeOK
  <2>2. {"iface_up", "iface_down"} \subseteq IfaceNews
    BY DEF IfaceNews
  <2> QED
    BY <1>11, <2>1, <2>2, AnnounceType, KeepType
    DEF DetectIface, At, See, Keep, TypeOK, bus, tickers, gauges, boot
<1>12. ASSUME NEW x \in Things, DetectService(x)
       PROVE  TypeOK'
  <2>1. {"service_up", "service_down"} \subseteq Uncooled
    BY DEF Uncooled
  <2>2. {"up", "down"} \subseteq States
    BY DEF States
  <2> QED
    BY <1>12, <2>1, <2>2, AnnounceType, KeepType
    DEF DetectService, At, See, Keep, TypeOK, bus, tickers, gauges, boot
<1>13. CASE CardSent
  <2>1. PICK sent \in BOOLEAN : HandlerReturns(sent)
    BY <1>13 DEF CardSent
  <2>2. told' \in [Things -> States] /\ missed' \in SUBSET Things
    <3>1. PICK e \in sending :
            IF e.about = None THEN UNCHANGED <<told, missed>>
            ELSE /\ told' = IF sent THEN [told EXCEPT ![e.about] = e.state] ELSE told
                 /\ missed' = IF sent THEN missed \ {e.about}
                              ELSE missed \union {e.about}
      BY <2>1 DEF HandlerReturns, Heard
    <3>2. e.state \in States
      BY DEF TypeOK
    <3> QED
      BY <3>1, <3>2 DEF TypeOK
  <2> QED
    BY <2>1, <2>2, CollectorAssumption
    DEF HandlerReturns, SendReturns, TypeOK, tickers, loop, boot
<1>14. CASE Tick
  BY <1>14, TickType
<1>15. CASE UNCHANGED vars
  BY <1>15 DEF vars, bus, tickers, loop, gauges, slow, boot, TypeOK
<1> QED
  BY <1>1, <1>2, <1>4, <1>5, <1>6, <1>7, <1>8, <1>9, <1>10, <1>11, <1>12, <1>13,
     <1>14, <1>15, <1>16
  DEF Next, Detect, CommandEnds

\* Every variable keeps its type in every behaviour.
THEOREM TypeCorrect == Spec => []TypeOK
<1>1. Init => TypeOK
  BY InitIInv DEF IInv
<1> QED
  BY <1>1, NextTypeOK, PTL DEF Spec

-----------------------------------------------------------------------------
(* The rest of the invariant.                                              *)

LEMMA NextTodoFits == IInv /\ [Next]_vars => TodoFits'
<1> SUFFICES ASSUME IInv, [Next]_vars PROVE TodoFits'
  OBVIOUS
<1> USE DEF IInv, TodoFits
<1>1. CASE CollectFast
  BY <1>1 DEF CollectFast
<1>2. CASE CollectSlow \/ ReadsEnd
  BY <1>2 DEF CollectSlow, ReadsEnd
<1>3. CASE NextDetector
  BY <1>3 DEF NextDetector, Proceed, bus
<1>4. ASSUME NEW s \in Stages, NEW x, At(s, x)
      PROVE  TodoFits'
  BY <1>4 DEF At
<1>5. CASE CardSent
  BY <1>5 DEF CardSent, HandlerReturns, SendReturns, loop
<1>6. CASE Tick
  BY <1>6 DEF Tick, loop
<1>7. CASE UNCHANGED vars
  BY <1>7 DEF vars, loop, bus
<1> QED
  BY <1>1, <1>2, <1>3, <1>4, <1>5, <1>6, <1>7
  DEF Next, Detect, CommandEnds, Stages, Sinks, Rises, Alarms, DetectJoin, DetectLeave,
      DetectWAN, DetectIface, DetectReboot, DetectService

\* What the detectors of collectSlow do is nothing to the gauges.
LEMMA NewsBacked ==
  ASSUME IInv, NEW y \in Uncooled \union IfaceNews, NEW x, NEW s,
         \/ Publish(y, x, s) \/ UNCHANGED bus,
         stage # "gauges", UNCHANGED <<stage, gauges>>
  PROVE  ClockBacked' /\ AlertBacked'
<1>1. \A g \in Gauges : y # g
  BY NamesAssumption DEF Uncooled, IfaceNews
<1>2. \A g \in Gauges : Sending(g)' => Sending(g)
  BY <1>1 DEF Publish, Sending, bus
<1> QED
  BY <1>2 DEF IInv, ClockBacked, AlertBacked, gauges

LEMMA NextBacked == IInv /\ [Next]_vars => ClockBacked' /\ AlertBacked'
<1> SUFFICES ASSUME IInv, [Next]_vars PROVE ClockBacked' /\ AlertBacked'
  OBVIOUS
<1>0. \A g \in Gauges : /\ highFor[g] \in Int /\ highFor[g] <= Sustained
                        /\ calm[g] \in 0 .. Sustained
  BY CollectorAssumption DEF IInv, TypeOK, Zero
<1>1. CASE CollectFast
  <2>1. sending' = {} /\ stage = "idle"
    BY <1>1 DEF CollectFast, MayCollect, IInv, TodoFits, bus
  <2>2. AlertBacked'
    BY <2>1 DEF AlertBacked, Sending
  <2>3. \A g \in Gauges : highFor[g] <= calm[g]
    BY <2>1 DEF IInv, ClockBacked
  <2> QED
    BY <1>1, <2>2, <2>3 DEF CollectFast, ClockBacked
<1>2. CASE CollectSlow
  <2>1. sending' = {} /\ stage = "idle"
    BY <1>2 DEF CollectSlow, MayCollect, IInv, TodoFits, bus
  <2> QED
    BY <1>2, <2>1
    DEF CollectSlow, IInv, ClockBacked, AlertBacked, Sending, gauges
<1>15. CASE ReadsEnd
  BY <1>15 DEF ReadsEnd, IInv, ClockBacked, AlertBacked, Sending, gauges, bus
<1>3. CASE NextDetector
  BY <1>3
  DEF NextDetector, Proceed, IInv, ClockBacked, AlertBacked, Sending, bus, gauges
<1>4. ASSUME NEW g \in Gauges, Sinks(g)
      PROVE  ClockBacked' /\ AlertBacked'
  <2>1. sending' = {}
    BY <1>4 DEF Sinks, At, bus
  <2>2. ClockBacked'
    BY <1>4, <1>0 DEF Sinks, At, IInv, TypeOK, ClockBacked, Zero
  <2> QED
    BY <2>1, <2>2 DEF AlertBacked, Sending
<1>5. ASSUME NEW g \in Gauges, Rises(g)
      PROVE  ClockBacked' /\ AlertBacked'
  <2>1. sending' = {}
    BY <1>5 DEF Rises, At, bus
  <2>2. ClockBacked'
    BY <1>5, <1>0 DEF Rises, At, IInv, TypeOK, ClockBacked
  <2> QED
    BY <2>1, <2>2 DEF AlertBacked, Sending
<1>6. ASSUME NEW g \in Gauges, Alarms(g)
      PROVE  ClockBacked' /\ AlertBacked'
  <2>1. calm[g] = Sustained
    BY <1>6, <1>0, CollectorAssumption DEF Alarms, IInv, ClockBacked
  <2>2. ClockBacked'
    BY <1>6, <1>0 DEF Alarms, At, IInv, TypeOK, ClockBacked
  <2>3. \A k \in Gauges : Sending(k)' => k = g
    BY <1>6 DEF Alarms, At, Publish, Sending, bus
  <2> QED
    BY <1>6, <2>1, <2>2, <2>3 DEF Alarms, At, AlertBacked
<1>7. CASE DetectReboot
  <2>1. "reboot" \in Uncooled \union IfaceNews
    BY DEF Uncooled
  <2> QED
    BY <1>7, <2>1, NewsBacked DEF DetectReboot, At
<1>8. ASSUME NEW x \in Things, DetectJoin(x) \/ DetectLeave(x)
      PROVE  ClockBacked' /\ AlertBacked'
  <2>1. {"device_join", "device_leave"} \subseteq Uncooled
    BY DEF Uncooled
  <2> QED
    BY <1>8, <2>1, NewsBacked
    DEF DetectJoin, DetectLeave, See, At, Announce, bus
<1>9. ASSUME NEW x \in Things, DetectWAN(x)
      PROVE  ClockBacked' /\ AlertBacked'
  <2>1. "wan_ip_change" \in Uncooled
    BY DEF Uncooled
  <2> QED
    BY <1>9, <2>1, NewsBacked DEF DetectWAN, See, At, Announce, Keep
<1>10. ASSUME NEW x \in Things, DetectIface(x)
       PROVE  ClockBacked' /\ AlertBacked'
  <2>1. {"iface_up", "iface_down"} \subseteq IfaceNews
    BY DEF IfaceNews
  <2> QED
    BY <1>10, <2>1, NewsBacked DEF DetectIface, See, At, Announce, Keep
<1>11. ASSUME NEW x \in Things, DetectService(x)
       PROVE  ClockBacked' /\ AlertBacked'
  <2>1. {"service_up", "service_down"} \subseteq Uncooled
    BY DEF Uncooled
  <2> QED
    BY <1>11, <2>1, NewsBacked DEF DetectService, See, At, Announce, Keep
<1>12. CASE CardSent
  <2>1. sending' = {}
    BY <1>12 DEF CardSent, HandlerReturns, SendReturns
  <2>2. ClockBacked'
    BY <1>12, <1>0 DEF CardSent, HandlerReturns, IInv, ClockBacked, loop
  <2> QED
    BY <2>1, <2>2 DEF AlertBacked, Sending
<1>13. CASE Tick
  <2>1. \A g \in Gauges : highFor[g] <= calm[g] => highFor'[g] <= calm'[g]
    BY <1>13, <1>0, CollectorAssumption DEF Tick, Longer
  <2>2. \A g \in Gauges : calm[g] = Sustained => calm'[g] = Sustained
    BY <1>13, CollectorAssumption DEF Tick, Longer
  <2> QED
    BY <1>13, <2>1, <2>2 DEF Tick, IInv, ClockBacked, AlertBacked, Sending, loop
<1>14. CASE UNCHANGED vars
  BY <1>14 DEF vars, bus, loop, gauges, IInv, ClockBacked, AlertBacked, Sending
<1> QED
  BY <1>1, <1>2, <1>3, <1>4, <1>5, <1>6, <1>7, <1>8, <1>9, <1>10, <1>11, <1>12,
     <1>13, <1>14, <1>15
  DEF Next, Detect, CommandEnds

\* What the chat was told, and what is remembered, between two passes.
Devices == DeviceStates /\ InStep /\ JoinTold /\ OneCard

\* An item of news is published, for it has no cooldown, and a card about it is
\* being sent; it is no news about anything else.
LEMMA AnnounceTells ==
  ASSUME NEW y \in Uncooled, NEW x \in Things, NEW s, Announce(y, x, s),
         sending = {}, UNCHANGED missed
  PROVE  /\ Knows(x, s)'
         /\ \A k \in Things \ {x} : \A t : Knows(k, t)' <=> Knows(k, t)
         /\ OneCard'
<1>1. sending' = {[type |-> y, about |-> x, state |-> s]} /\ UNCHANGED told
  BY NeverCooled DEF Announce, Publish
<1> QED
  BY <1>1 DEF Knows, OneCard

LEMMA NextDevices == IInv /\ [Next]_vars => Devices'
<1> SUFFICES ASSUME IInv, [Next]_vars PROVE Devices'
  OBVIOUS
<1>0. /\ sample \in [Things -> States]
      /\ prev \in [Things -> States]
      /\ told \in [Things -> States]
      /\ News \subseteq Things
      /\ Macs \subseteq News
  BY DEF IInv, TypeOK, News, Things
<1>1. ASSUME UNCHANGED <<sample, prev>>,
             \A x \in News : \A t : Knows(x, t) => Knows(x, t)',
             \A x \in Macs : Joined(x)' <=> Joined(x),
             OneCard'
      PROVE  Devices'
  BY <1>0, <1>1 DEF Devices, IInv, DeviceStates, InStep, JoinTold
<1>2. CASE CollectFast
  BY <1>1, <1>2 DEF CollectFast, MayCollect, slow, bus, Joined, Knows, OneCard, IInv
<1>3. CASE CollectSlow
  BY <1>1, <1>3 DEF CollectSlow, MayCollect, slow, bus, Joined, Knows, OneCard, IInv
<1>17. CASE ReadsEnd
  <2>1. \A x \in Macs : sample'[x] \in {"in", "out"}
    <3>1. PICK devices \in [Macs -> {"in", "out"}], addrs \in [WANs -> IPs \union {None}],
               ifaces \in [Ifaces -> {"UP", "DOWN", None, Absent}] :
            sample' = Reading(devices, addrs, ifaces)
      BY <1>17 DEF ReadsEnd, Read
    <3> QED
      BY <1>0, <3>1 DEF Reading, News
  <2>2. \A x \in Macs : ~Joined(x) /\ ~Joined(x)'
    BY <1>17 DEF ReadsEnd, Joined
  <2> QED
    BY <1>17, <2>1, <2>2
    DEF ReadsEnd, bus, Devices, IInv, DeviceStates, InStep, JoinTold, Knows, OneCard
<1>4. CASE Proceed("joins", "leaves", Macs)
  BY <1>1, <1>4 DEF Proceed, bus, Joined, Knows, OneCard, IInv
<1>5. ASSUME NEW s \in {"gauges", "leaves", "WANs", "ifaces", "reboot", "services"},
             NEW next \in {"idle", "WANs", "ifaces", "reboot", "services"},
             NEW what, Proceed(s, next, what)
      PROVE  Devices'
  <2>1. \A x \in Macs : ~Joined(x) /\ ~Joined(x)'
    BY <1>5 DEF Proceed, Joined
  <2>2. \A x \in Macs : sample'[x] \in {"in", "out"}
    BY <1>0, <1>5 DEF Proceed, Unseen, IInv, DeviceStates
  <2>3. UNCHANGED <<sending, prev, told, missed>>
    BY <1>5 DEF Proceed, bus
  <2>4. DeviceStates' /\ JoinTold' /\ OneCard'
    BY <2>1, <2>2, <2>3 DEF IInv, DeviceStates, JoinTold, OneCard
  <2>5. InStep'
    BY <2>1, <2>3 DEF IInv, InStep, Knows
  <2> QED
    BY <2>4, <2>5 DEF Devices
<1>6. CASE NextDetector
  BY <1>4, <1>5, <1>6 DEF NextDetector
<1>18. ASSUME UNCHANGED <<sample, prev, told, missed, stage>>,
              OneCard', sending = {}, stage \notin {"joins", "leaves"},
              \A e \in sending' : e.about \notin Things
       PROVE  Devices'
  BY <1>0, <1>1, <1>18 DEF Knows, Joined
<1>7. CASE DetectReboot
  <2>1. OneCard' /\ \A e \in sending' : e.about = None
    BY <1>7 DEF DetectReboot, At, Publish, OneCard, bus
  <2>2. None \notin Things
    BY NamesAssumption DEF Things, None
  <2> QED
    BY <1>7, <1>18, <2>1, <2>2 DEF DetectReboot, At, slow
<1>8. ASSUME NEW g \in Gauges, Sinks(g) \/ Rises(g) \/ Alarms(g)
      PROVE  Devices'
  <2>1. OneCard' /\ \A e \in sending' : e.about = None
    BY <1>8 DEF Sinks, Rises, Alarms, At, Publish, OneCard, bus
  <2>2. None \notin Things
    BY NamesAssumption DEF Things, None
  <2> QED
    BY <1>8, <1>18, <2>1, <2>2 DEF Sinks, Rises, Alarms, At, slow
<1>9. ASSUME NEW x \in Things, DetectJoin(x)
      PROVE  Devices'
  <2>1. /\ x \in Macs /\ stage = "joins" /\ stage' = stage
        /\ todo' = todo \ {x} /\ sending = {}
    BY <1>9 DEF DetectJoin, At, IInv, TodoFits
  <2>2. UNCHANGED <<sample, prev, missed>>
    BY <1>9 DEF DetectJoin
  <2>3. \A k \in Macs : Joined(k)' <=> Joined(k) \/ k = x
    BY <2>1 DEF Joined
  <2>4. CASE sample[x] = "in" /\ prev[x] = "out"
    <3>1. /\ Knows(x, "in")'
          /\ \A k \in Things \ {x} : \A t : Knows(k, t)' <=> Knows(k, t)
          /\ OneCard'
      BY <1>9, <2>1, <2>2, <2>4, AnnounceTells DEF DetectJoin, Uncooled
    <3> QED
      BY <1>0, <2>1, <2>2, <2>3, <2>4, <3>1
      DEF Devices, IInv, DeviceStates, InStep, JoinTold
  <2>5. CASE ~(sample[x] = "in" /\ prev[x] = "out")
    <3>1. UNCHANGED <<sending, told>>
      BY <1>9, <2>5 DEF DetectJoin, bus
    <3>2. OneCard' /\ \A k, t : Knows(k, t)' <=> Knows(k, t)
      BY <2>2, <3>1 DEF Knows, OneCard, IInv
    <3>3. sample[x] = "in" => Knows(x, "in")
      BY <1>0, <2>1, <2>5 DEF IInv, DeviceStates, InStep
    <3> QED
      BY <1>0, <2>1, <2>2, <2>3, <3>2, <3>3
      DEF Devices, IInv, DeviceStates, InStep, JoinTold
  <2> QED
    BY <2>4, <2>5
<1>10. ASSUME NEW x \in Things, DetectLeave(x)
       PROVE  Devices'
  <2>1. /\ x \in Macs /\ stage = "leaves" /\ stage' = stage
        /\ x \in todo /\ todo' = todo \ {x} /\ sending = {}
    BY <1>10 DEF DetectLeave, At, IInv, TodoFits
  <2>2. UNCHANGED <<sample, missed>> /\ prev' = [prev EXCEPT ![x] = sample[x]]
    BY <1>10 DEF DetectLeave, See
  <2>3. \A k \in Macs : Joined(k)' <=> Joined(k) /\ k # x
    BY <2>1 DEF Joined
  <2>4. Joined(x)
    BY <2>1 DEF Joined
  <2>5. /\ \A k \in Things \ {x} : \A t : Knows(k, t)' <=> Knows(k, t)
        /\ Knows(x, sample[x])'
        /\ OneCard'
    <3>1. CASE sample[x] = "out" /\ prev[x] = "in"
      BY <1>10, <2>1, <2>2, <3>1, AnnounceTells DEF DetectLeave, Uncooled
    <3>2. CASE ~(sample[x] = "out" /\ prev[x] = "in")
      <4>1. UNCHANGED <<sending, told>>
        BY <1>10, <3>2 DEF DetectLeave, bus
      <4>2. OneCard' /\ \A k, t : Knows(k, t)' <=> Knows(k, t)
        BY <2>2, <4>1 DEF Knows, OneCard, IInv
      <4>3. sample[x] = "in" => Knows(x, "in")
        BY <2>1, <2>4 DEF IInv, JoinTold
      <4>4. sample[x] = "out" => Knows(x, "out")
        BY <1>0, <2>1, <3>2 DEF IInv, DeviceStates, InStep
      <4>5. Knows(x, sample[x])
        BY <2>1, <4>3, <4>4 DEF IInv, DeviceStates
      <4>6. Knows(x, sample[x])'
        BY <2>2, <4>1, <4>5 DEF Knows
      <4> QED
        BY <4>2, <4>6
    <3> QED
      BY <3>1, <3>2
  <2>6. DeviceStates'
    BY <1>0, <2>1, <2>2 DEF IInv, DeviceStates
  <2>7. prev'[x] = sample[x] /\ sample'[x] = sample[x]
    BY <1>0, <2>2
  <2>8. Knows(x, prev[x])'
    BY <2>5, <2>7 DEF Knows
  <2>9. \A k \in Things \ {x} : prev'[k] = prev[k] /\ sample'[k] = sample[k]
    BY <1>0, <2>2
  <2>10. InStep'
    <3> SUFFICES ASSUME NEW k \in News
                 PROVE  \/ Knows(k, prev[k])'
                        \/ k \in Macs /\ Joined(k)' /\ sample'[k] = "in" /\ Knows(k, "in")'
      BY DEF InStep
    <3>1. CASE k = x
      BY <2>8, <3>1
    <3>2. CASE k # x
      <4>1. /\ prev'[k] = prev[k] /\ sample'[k] = sample[k]
            /\ \A t : Knows(k, t)' <=> Knows(k, t)
        BY <1>0, <2>5, <2>9, <3>2
      <4>2. Knows(k, prev[k])' <=> Knows(k, prev[k])
        BY <4>1 DEF Knows
      <4> QED
        BY <2>3, <3>2, <4>1, <4>2 DEF IInv, InStep
    <3> QED
      BY <3>1, <3>2
  <2>11. JoinTold'
    BY <1>0, <2>3, <2>5, <2>9 DEF IInv, JoinTold
  <2> QED
    BY <2>5, <2>6, <2>10, <2>11 DEF Devices
<1>11. ASSUME NEW x \in Things, x \notin Macs, UNCHANGED <<sample, stage>>,
              stage \notin {"joins", "leaves"},
              \A k \in Things \ {x} :
                 prev'[k] = prev[k] /\ \A t : Knows(k, t)' <=> Knows(k, t),
              x \in News => Knows(x, prev[x])',
              OneCard'
       PROVE  Devices'
  <2>1. \A k \in Macs : ~Joined(k) /\ ~Joined(k)'
    BY <1>11 DEF Joined
  <2>2. \A k \in News \ {x} : Knows(k, prev[k])'
    <3> SUFFICES ASSUME NEW k \in News \ {x} PROVE Knows(k, prev[k])'
      OBVIOUS
    <3>1. Knows(k, prev[k])
      BY <2>1 DEF IInv, InStep
    <3>2. Knows(k, prev[k])' <=> Knows(k, prev[k])
      BY <1>0, <1>11 DEF Knows
    <3> QED
      BY <3>1, <3>2
  <2> QED
    BY <1>0, <1>11, <2>1, <2>2 DEF Devices, IInv, DeviceStates, InStep, JoinTold
<1>12. ASSUME NEW x \in Things, NEW y \in Uncooled, NEW s,
              x \in WANs \union Services, sending = {},
              IF prev[x] \notin {None, s} THEN Announce(y, x, s) ELSE Keep(x, s),
              See(x, s)
       PROVE  /\ UNCHANGED sample
              /\ \A k \in Things \ {x} :
                   prev'[k] = prev[k] /\ \A t : Knows(k, t)' <=> Knows(k, t)
              /\ Knows(x, prev[x])'
              /\ OneCard'
  <2>1. UNCHANGED <<sample, missed>> /\ prev' = [prev EXCEPT ![x] = s]
    BY <1>12 DEF See
  <2>2. Knows(x, prev[x])
    BY <1>12, NamesAssumption DEF IInv, InStep, News
  <2>3. \A k \in Things \ {x} : prev'[k] = prev[k]
    BY <1>0, <2>1
  <2>4. prev'[x] = s
    BY <1>0, <2>1
  <2>5. /\ Knows(x, s)'
        /\ \A k \in Things \ {x} : \A t : Knows(k, t)' <=> Knows(k, t)
        /\ OneCard'
    <3>1. CASE prev[x] \notin {None, s}
      BY <1>12, <2>1, <3>1, AnnounceTells
    <3>2. CASE prev[x] \in {None, s}
      <4>1. sending' = {} /\ UNCHANGED missed
        BY <1>12, <2>1, <3>2 DEF Keep, bus
      <4>2. \A k \in Things \ {x} : told'[k] = told[k]
        BY <1>0, <1>12, <3>2 DEF Keep
      <4>3. told'[x] = IF prev[x] = None THEN s ELSE told[x]
        BY <1>0, <1>12, <3>2 DEF Keep
      <4>4. OneCard' /\ \A k \in Things \ {x} : \A t : Knows(k, t)' <=> Knows(k, t)
        BY <1>12, <4>1, <4>2 DEF Knows, OneCard
      <4>5. told'[x] = s \/ x \in missed
        BY <1>12, <2>2, <3>2, <4>3 DEF Knows
      <4> QED
        BY <4>1, <4>4, <4>5 DEF Knows
    <3> QED
      BY <3>1, <3>2
  <2> QED
    BY <2>1, <2>3, <2>4, <2>5 DEF Knows
<1>13. ASSUME NEW x \in Things, DetectWAN(x)
       PROVE  Devices'
  <2>1. /\ x \in WANs /\ x \notin Macs /\ stage = "WANs" /\ stage' = stage
        /\ sending = {}
    BY <1>13, NamesAssumption DEF DetectWAN, At, IInv, TodoFits
  <2>2. "wan_ip_change" \in Uncooled
    BY DEF Uncooled
  <2>3. /\ UNCHANGED sample
        /\ \A k \in Things \ {x} :
             prev'[k] = prev[k] /\ \A t : Knows(k, t)' <=> Knows(k, t)
        /\ Knows(x, prev[x])'
        /\ OneCard'
    BY <1>12, <1>13, <2>1, <2>2 DEF DetectWAN
  <2> QED
    BY <1>11, <2>1, <2>3
<1>14. ASSUME NEW x \in Things, DetectIface(x)
       PROVE  Devices'
  <2>1. /\ x \notin News /\ x \notin Macs /\ stage = "ifaces" /\ stage' = stage
        /\ sending = {}
    BY <1>14, NamesAssumption DEF DetectIface, At, IInv, TodoFits, News
  <2>2. UNCHANGED <<sample, missed>>
    BY <1>14 DEF DetectIface, See
  <2>3. \A k \in Things \ {x} : told'[k] = told[k] /\ prev'[k] = prev[k]
    BY <1>0, <1>14 DEF DetectIface, See, Announce, Keep
  <2>4. OneCard' /\ \A e \in sending' : e.about = x
    BY <1>14, <2>1 DEF DetectIface, Announce, Publish, Keep, OneCard, bus
  <2>5. \A k \in Things \ {x} : \A t : Knows(k, t)' <=> Knows(k, t)
    BY <2>1, <2>2, <2>3, <2>4 DEF Knows
  <2> QED
    BY <1>11, <2>1, <2>2, <2>3, <2>4, <2>5
<1>15. ASSUME NEW x \in Things, DetectService(x)
       PROVE  Devices'
  <2>1. /\ x \in Services /\ x \notin Macs /\ stage = "services" /\ stage' = stage
        /\ sending = {}
    BY <1>15, NamesAssumption DEF DetectService, At, IInv, TodoFits
  <2>2. {"service_up", "service_down"} \subseteq Uncooled
    BY DEF Uncooled
  <2>3. /\ UNCHANGED sample
        /\ \A k \in Things \ {x} :
             prev'[k] = prev[k] /\ \A t : Knows(k, t)' <=> Knows(k, t)
        /\ Knows(x, prev[x])'
        /\ OneCard'
    BY <1>12, <1>15, <2>1, <2>2 DEF DetectService
  <2> QED
    BY <1>11, <2>1, <2>3
<1>19. CASE CardSent
  <2>1. PICK sent \in BOOLEAN : HandlerReturns(sent)
    BY <1>19 DEF CardSent
  <2>2. PICK e \in sending :
          IF e.about = None THEN UNCHANGED <<told, missed>>
          ELSE /\ told' = IF sent THEN [told EXCEPT ![e.about] = e.state] ELSE told
               /\ missed' = IF sent THEN missed \ {e.about}
                            ELSE missed \union {e.about}
    BY <2>1 DEF HandlerReturns, Heard
  <2>3. \A d \in sending : d = e
    BY DEF IInv, OneCard
  <2>4. sending' = {} /\ UNCHANGED <<sample, prev, stage, todo>>
    BY <2>1 DEF HandlerReturns, SendReturns, loop
  <2>5. ASSUME NEW x \in News, NEW t, Knows(x, t)
        PROVE  told'[x] = t \/ x \in missed'
    <3>1. CASE x = e.about
      <4>1. x \in Things /\ x # None
        BY <1>0, NamesAssumption DEF Things, None
      <4>2. e.state = t
        BY <2>3, <2>5, <3>1 DEF Knows
      <4>3. CASE sent
        BY <1>0, <2>2, <3>1, <4>1, <4>2, <4>3
      <4>4. CASE ~sent
        BY <2>2, <3>1, <4>1, <4>4
      <4> QED
        BY <4>3, <4>4
    <3>2. CASE x # e.about
      <4>1. told[x] = t \/ x \in missed
        BY <2>3, <2>5, <3>2 DEF Knows
      <4>2. told'[x] = told[x] /\ (x \in missed' <=> x \in missed)
        BY <1>0, <2>2, <3>2
      <4> QED
        BY <4>1, <4>2
    <3> QED
      BY <3>1, <3>2
  <2>6. \A x \in News : \A t : Knows(x, t) => Knows(x, t)'
    BY <2>4, <2>5 DEF Knows
  <2> QED
    BY <1>1, <2>4, <2>6 DEF Joined, OneCard
<1>16. CASE Tick \/ UNCHANGED vars
  <2>1. UNCHANGED <<sample, prev, told, missed, sending, stage, todo>>
    BY <1>16 DEF Tick, vars, slow, loop, bus
  <2>2. OneCard' /\ \A x, t : Knows(x, t)' <=> Knows(x, t)
    BY <2>1 DEF Knows, OneCard, IInv
  <2> QED
    BY <1>1, <2>1, <2>2 DEF Joined
<1> QED
  BY <1>2, <1>3, <1>6, <1>7, <1>8, <1>9, <1>10, <1>13, <1>14, <1>15, <1>16, <1>17,
     <1>19
  DEF Next, Detect, CommandEnds

-----------------------------------------------------------------------------
\* The invariant is inductive.
THEOREM Inductive == Spec => []IInv
<1>1. IInv /\ [Next]_vars => IInv'
  <2>1. IInv => TypeOK
    BY DEF IInv
  <2> QED
    BY <2>1, NextTypeOK, NextTodoFits, NextBacked, NextDevices DEF IInv, Devices
<1> QED
  BY <1>1, InitIInv, PTL DEF Spec

\* An alert about a gauge is sent only when all samples of the last minute were
\* high, for every cooldown, interval and duration of a SendCard call.
THEOREM AlertsAreSustained == Spec => []AlertIsSustained
<1>1. IInv => AlertIsSustained
  BY DEF IInv, AlertBacked, AlertIsSustained
<1> QED
  BY <1>1, Inductive, PTL

\* Between two collections the chat knows what was seen last of every device,
\* address and service, unless the last card about it was not sent.
THEOREM OnlyLostCardsAreMissed == Spec => []ToldWhatWasSeen
<1>1. IInv => ToldWhatWasSeen
  BY DEF IInv, TodoFits, InStep, Knows, ToldWhatWasSeen, News, Joined
<1> QED
  BY <1>1, Inductive, PTL
=============================================================================
