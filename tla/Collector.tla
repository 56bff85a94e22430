----------------------------- MODULE Collector -----------------------------
(***************************************************************************)
(* The goroutine of internal/collector/collector.go: two tickers, a fast   *)
(* collection of gauges and a slow one of devices, addresses, interfaces   *)
(* and services, each followed by the detectors that compare it with what  *)
(* was seen before and publish events.  The router is whatever a sample    *)
(* finds: it may have changed in any way since the last one, and a read    *)
(* that fails looks like a change too.                                     *)
(***************************************************************************)
EXTENDS EventBus

CONSTANTS Macs, WANs, Ifaces, Services, \* what the slow collection watches
          IPs,                          \* addresses a WAN interface may have
          Sustained,                    \* 60 s: how long a gauge must be high
          FastEvery, SlowEvery          \* collect_interval_fast and _slow

ASSUME CollectorAssumption == /\ Sustained \in Nat \ {0}
                              /\ FastEvery \in Nat \ {0}
                              /\ SlowEvery \in Nat \ {0}
ASSUME NamesAssumption ==
  /\ Gauges \subseteq {"high_cpu", "high_memory"}
  /\ "" \notin IPs \union Macs \union WANs \union Ifaces \union Services
  /\ Macs \intersect (WANs \union Ifaces \union Services) = {}
  /\ WANs \intersect (Ifaces \union Services) = {}
  /\ Ifaces \intersect Services = {}

VARIABLES
  fastIn, slowIn,   \* time until each ticker ticks
  fastDue, slowDue, \* a tick waits in the ticker's channel, which holds one
  starting,         \* Start's own two collections, before its loop
  stage,            \* the detector that runs, or "idle": the select
  todo,             \* what it has not looked at yet
  high,             \* gauges at or above their threshold in the last sample
  highFor,          \* highFor[g]: time since cpuHighSince or memHighSince
  sample,           \* sample[x]: what the slow collection under way has read
  prev,             \* prev[x]: prevDevices, prevWANIPs, prevIfaceState, ...
  hostUp,           \* how long the router is up: "short" or "long"
  uptime,           \* current.Uptime; "short" is below 2 min, as after an error
  prevUptime,       \* "long" is above 5 min; what is between changes nothing
  calm,             \* history: calm[g]: time since g was sampled below
  told,             \* history: told[x]: x as first seen or as on the last card
                    \* about it that was sent
  missed,           \* history: things whose last card was not sent
  reported          \* history: a reboot was published

Zero == -1
None == ""
Absent == "absent"
Things == Macs \union WANs \union Ifaces \union Services

tickers == <<fastIn, slowIn, fastDue, slowDue>>
loop == <<starting, stage, todo>>
gauges == <<high, highFor, calm>>
slow == <<sample, prev, told, missed>>
boot == <<hostUp, uptime, prevUptime, reported>>
vars == <<bus, tickers, loop, gauges, slow, boot>>

Unseen == [x \in Things |-> IF x \in Macs THEN "out" ELSE None]

\* States a sample may find: a device is listed or not, a WAN interface has no
\* address, an interface is not listed, or listed by /proc/net/dev, which does
\* not have the state, a service is read later.
Reading(devices, addrs, ifaces) ==
  [x \in Things |-> IF x \in Macs THEN devices[x]
                    ELSE IF x \in WANs THEN addrs[x]
                    ELSE IF x \in Ifaces THEN ifaces[x] ELSE None]
Read == \E devices \in [Macs -> {"in", "out"}], addrs \in [WANs -> IPs \union {None}],
           ifaces \in [Ifaces -> {"UP", "DOWN", None, Absent}] :
          sample' = Reading(devices, addrs, ifaces)

\* A fresh process: after a boot of the router, or long after it.
Init ==
  /\ BusInit
  /\ fastIn = FastEvery
  /\ slowIn = SlowEvery
  /\ fastDue = FALSE
  /\ slowDue = FALSE
  /\ starting = "slow"
  /\ stage = "idle"
  /\ todo = {}
  /\ high = {}
  /\ highFor = [g \in Gauges |-> Zero]
  /\ sample = Unseen
  /\ prev = Unseen
  /\ hostUp \in {"short", "long"}
  /\ uptime = "short"
  /\ prevUptime = "short"
  /\ calm = [g \in Gauges |-> 0]
  /\ told = Unseen
  /\ missed = {}
  /\ reported = FALSE

-----------------------------------------------------------------------------
(* The select of Start and the order of the detectors.                     *)

MayCollect(kind, due) ==
  /\ stage = "idle"
  /\ starting = kind \/ (starting = "done" /\ due)

CollectFast ==
  /\ MayCollect("fast", fastDue)
  /\ fastDue' = (fastDue /\ starting = "fast")
  /\ starting' = "done"
  /\ stage' = "gauges"
  /\ todo' = Gauges
  /\ high' \in SUBSET Gauges
  /\ calm' = [g \in Gauges |-> IF g \in high' THEN calm[g] ELSE 0]
  /\ uptime' \in {hostUp, "short"}
  /\ UNCHANGED <<bus, fastIn, slowIn, slowDue, highFor, slow, hostUp, prevUptime,
                 reported>>

\* collectSlow runs ip, iwinfo and df, without a timeout, and asks the DNS ...
CollectSlow ==
  /\ MayCollect("slow", slowDue)
  /\ slowDue' = (slowDue /\ starting = "slow")
  /\ starting' = IF starting = "slow" THEN "fast" ELSE starting
  /\ stage' = "reading"
  /\ UNCHANGED <<bus, fastIn, slowIn, fastDue, todo, gauges, slow, boot>>

\* ... and when they have all ended looks for news.
ReadsEnd ==
  /\ stage = "reading"
  /\ stage' = "joins"
  /\ todo' = Macs
  /\ Read
  /\ UNCHANGED <<bus, tickers, starting, gauges, prev, told, missed, boot>>

\* Detector s has looked at everything; the next one is to look at what.
Proceed(s, next, what) ==
  /\ stage = s
  /\ todo = {}
  /\ sending = {}
  /\ stage' = next
  /\ todo' = what
  /\ sample' = IF next = "idle" THEN Unseen ELSE sample
  /\ UNCHANGED <<bus, tickers, starting, gauges, prev, told, missed, boot>>

NextDetector == \/ Proceed("gauges", "idle", {})
                \/ Proceed("joins", "leaves", Macs)
                \/ Proceed("leaves", "WANs", WANs)
                \/ Proceed("WANs", "ifaces", Ifaces)
                \/ Proceed("ifaces", "reboot", {"router"})
                \/ Proceed("reboot", "services", Services)
                \/ Proceed("services", "idle", {})

\* The detector in question is at x, and no card is being sent.
At(s, x) == /\ stage = s
            /\ x \in todo
            /\ sending = {}
            /\ todo' = todo \ {x}
            /\ UNCHANGED <<tickers, starting, stage>>

-----------------------------------------------------------------------------
(* detectCPUAlert and detectMemAlert, which differ only in what they read. *)

\* A gauge that dips below its threshold keeps its clock.
SinksOrDips(g) == /\ At("gauges", g)
                  /\ g \notin high
                  /\ UNCHANGED <<bus, gauges, slow, boot>>

Sinks(g) == /\ At("gauges", g)
            /\ g \notin high
            /\ highFor' = [highFor EXCEPT ![g] = Zero]
            /\ UNCHANGED <<bus, high, calm, slow, boot>>

Rises(g) == /\ At("gauges", g)
            /\ g \in high
            /\ highFor' = [highFor EXCEPT ![g] = IF @ = Zero THEN 0 ELSE @]
            /\ highFor[g] < Sustained
            /\ UNCHANGED <<bus, high, calm, slow, boot>>

\* Publish, and when it returns the clock starts again, published or not.
Alarms(g) == /\ At("gauges", g)
             /\ g \in high
             /\ highFor[g] = Sustained
             /\ Publish(g, None, None)
             /\ highFor' = [highFor EXCEPT ![g] = IF InCooldown(g) THEN 0 ELSE @]
             /\ UNCHANGED <<high, calm, slow, boot>>

-----------------------------------------------------------------------------
(* The detectors of collectSlow.                                           *)

\* The detector publishes that x is now in state s.
Announce(y, x, s) == /\ Publish(y, x, s)
                     /\ UNCHANGED told

\* The first sight of x is no news.
Keep(x, s) == /\ told' = IF prev[x] = None THEN [told EXCEPT ![x] = s] ELSE told
              /\ UNCHANGED bus

See(x, s) == /\ prev' = [prev EXCEPT ![x] = s]
             /\ UNCHANGED <<sample, missed, gauges, boot>>

\* detectDeviceChanges first looks for new devices in what it has read ...
DetectJoin(x) ==
  /\ At("joins", x)
  /\ IF sample[x] = "in" /\ prev[x] = "out"
     THEN Announce("device_join", x, "in") ELSE UNCHANGED <<bus, told>>
  /\ UNCHANGED <<sample, prev, missed, gauges, boot>>

\* ... then for devices that are gone, and replaces prevDevices.
DetectLeave(x) ==
  /\ At("leaves", x)
  /\ IF sample[x] = "out" /\ prev[x] = "in"
     THEN Announce("device_leave", x, "out") ELSE UNCHANGED <<bus, told>>
  /\ See(x, sample[x])

\* Forgetting the address of an interface that has lost it.
DetectWANForgetting(x) ==
  /\ At("WANs", x)
  /\ IF prev[x] # None /\ sample[x] \notin {None, prev[x]}
     THEN Announce("wan_ip_change", x, sample[x])
     ELSE UNCHANGED <<bus, told>>
  /\ See(x, sample[x])

\* An interface without an address is skipped; its last address is remembered.
DetectWAN(x) ==
  /\ At("WANs", x)
  /\ LET s == IF sample[x] = None THEN prev[x] ELSE sample[x]
     IN /\ IF prev[x] \notin {None, s}
           THEN Announce("wan_ip_change", x, s) ELSE Keep(x, s)
        /\ See(x, s)

\* An interface that is not listed is not looked at; one without state is down.
DetectIface(x) ==
  /\ At("ifaces", x)
  /\ LET s == IF sample[x] = Absent THEN prev[x] ELSE sample[x]
     IN /\ IF prev[x] \notin {None, s}
           THEN Announce(IF s = "UP" THEN "iface_up" ELSE "iface_down", x, s)
           ELSE Keep(x, s)
        /\ See(x, s)

DetectReboot ==
  /\ At("reboot", "router")
  /\ prevUptime' = uptime
  /\ IF prevUptime = "long" /\ uptime = "short"
     THEN Publish("reboot", None, None) /\ reported' = TRUE
     ELSE UNCHANGED <<bus, reported>>
  /\ UNCHANGED <<gauges, slow, hostUp, uptime>>

\* Keeping the exit status itself.
DetectServiceStatus(x) ==
  /\ At("services", x)
  /\ \E s \in {"0", "1"} :
       /\ IF prev[x] \notin {None, s}
          THEN Announce(IF s = "0" THEN "service_up" ELSE "service_down", x, s)
          ELSE Keep(x, s)
       /\ See(x, s)

\* The status of a service is read here; a status that cannot be had is "down".
DetectService(x) ==
  /\ At("services", x)
  /\ \E s \in {"up", "down"} :
       /\ IF prev[x] \notin {None, s}
          THEN Announce(IF s = "up" THEN "service_up" ELSE "service_down", x, s)
          ELSE Keep(x, s)
       /\ See(x, s)

-----------------------------------------------------------------------------
Sending(y) == \E e \in sending : e.type = y

\* What the chat makes of the card that is being sent.
Heard(sent) ==
  \E e \in sending :
    IF e.about = None THEN UNCHANGED <<told, missed>>
    ELSE /\ told' = IF sent THEN [told EXCEPT ![e.about] = e.state] ELSE told
         /\ missed' = IF sent THEN missed \ {e.about} ELSE missed \union {e.about}

\* A client without a timeout: the card about an interface that went down hangs.
HandlerHangs(sent) ==
  /\ ~Sending("iface_down")
  /\ SendReturns
  /\ Heard(sent)
  /\ highFor' = [g \in Gauges |-> IF Sending(g) THEN 0 ELSE highFor[g]]
  /\ UNCHANGED <<tickers, loop, high, calm, sample, prev, boot>>

\* The subscriber returns to Publish, and Publish to the detector, which does
\* not learn whether the card was sent.
HandlerReturns(sent) ==
  /\ SendReturns
  /\ Heard(sent)
  /\ highFor' = [g \in Gauges |-> IF Sending(g) THEN 0 ELSE highFor[g]]
  /\ UNCHANGED <<tickers, loop, high, calm, sample, prev, boot>>

Longer(n) == IF n \in 0 .. Sustained - 1 THEN n + 1 ELSE n

Tick ==
  /\ fastIn' = IF fastIn = 1 THEN FastEvery ELSE fastIn - 1
  /\ slowIn' = IF slowIn = 1 THEN SlowEvery ELSE slowIn - 1
  /\ fastDue' = (fastDue \/ fastIn = 1)
  /\ slowDue' = (slowDue \/ slowIn = 1)
  /\ quiet' = Quieter
  /\ highFor' = [g \in Gauges |-> Longer(highFor[g])]
  /\ calm' = [g \in Gauges |-> Longer(calm[g])]
  /\ hostUp' \in {hostUp, "long"}
  /\ UNCHANGED <<sending, loop, high, slow, uptime, prevUptime, reported>>

\* What the goroutine does by itself; for the status of a service it runs the
\* service's script, which is killed after 3 s, but its children may go on.
Detect ==
  \/ NextDetector
  \/ DetectReboot
  \/ \E g \in Gauges : Sinks(g) \/ Rises(g) \/ Alarms(g)
  \/ \E x \in Things : \/ DetectJoin(x) \/ DetectLeave(x) \/ DetectWAN(x)
                       \/ DetectIface(x)

CommandEnds == ReadsEnd \/ \E x \in Things : DetectService(x)

CardSent == \E sent \in BOOLEAN : HandlerReturns(sent)

Next == CollectFast \/ CollectSlow \/ Detect \/ CommandEnds \/ CardSent \/ Tick

Spec == Init /\ [][Next]_vars

\* The goroutine runs, HTTP calls time out, the clock ticks, and the select of
\* Start, which picks one of the ready tickers at random, neglects neither.
\* Nothing makes a command end.
FairSpec == /\ Spec
            /\ WF_vars(Detect)
            /\ WF_vars(CardSent)
            /\ WF_vars(Tick)
            /\ SF_vars(CollectFast)
            /\ SF_vars(CollectSlow)

-----------------------------------------------------------------------------
States == {None, Absent, "in", "out", "UP", "DOWN", "up", "down"} \union IPs
Stages == {"idle", "gauges", "reading", "joins", "leaves", "WANs", "ifaces", "reboot",
           "services"}

\* Every variable has the type the code gives it.
TypeOK ==
  /\ quiet \in [Cooled -> Nat]
  /\ \A y \in Cooled : quiet[y] <= Cooldown[y]
  /\ sending \in SUBSET [type : Cooled \union Uncooled,
                         about : Things \union {None},
                         state : States]
  /\ fastIn \in 1 .. FastEvery
  /\ slowIn \in 1 .. SlowEvery
  /\ fastDue \in BOOLEAN
  /\ slowDue \in BOOLEAN
  /\ starting \in {"slow", "fast", "done"}
  /\ stage \in Stages
  /\ todo \in SUBSET (Things \union Gauges \union {"router"})
  /\ high \in SUBSET Gauges
  /\ highFor \in [Gauges -> {Zero} \union 0 .. Sustained]
  /\ calm \in [Gauges -> 0 .. Sustained]
  /\ sample \in [Things -> States]
  /\ prev \in [Things -> States]
  /\ told \in [Things -> States]
  /\ missed \in SUBSET Things
  /\ hostUp \in {"short", "long"}
  /\ uptime \in {"short", "long"}
  /\ prevUptime \in {"short", "long"}
  /\ reported \in BOOLEAN

\* An alert about a gauge is only sent when every sample of the last minute was
\* high, whatever alerts, cooldowns and slow HTTP calls came in between.
AlertIsSustained == \A g \in Gauges : Sending(g) => calm[g] = Sustained

\* A command has been started that may never end.
CommandRuns == \/ stage = "reading"
               \/ stage = "services" /\ todo # {} /\ sending = {}

\* A load that lasts is reported again and again: the attempts the cooldown
\* suppresses, one a minute, do not put off the next report for ever, and
\* nothing does but a command of the slow collection that never ends.
LoadKeepsAlerting ==
  \A g \in Gauges : <>[](g \in high) => []<>Sending(g) \/ <>[]CommandRuns

\* Between two collections the chat knows what was seen last of a device, an
\* address or a service, unless the last card about it could not be sent: no
\* change that was seen is kept from it, and one lost card does not make the
\* chat miss the next change.
ToldWhatWasSeen ==
  stage = "idle" =>
    \A x \in Macs \union WANs \union Services : told[x] = prev[x] \/ x \in missed

\* A slow tick is served although the collector sends its alerts itself, unless
\* a command of a slow collection never ends.
SlowTickServed == (slowDue ~> ~slowDue) \/ <>[]CommandRuns

\* The list of features: a reboot of the router, after which this process was
\* started, is reported (unless a command never ends).
RebootReported == hostUp = "short" => <>reported \/ <>[]CommandRuns
=============================================================================
