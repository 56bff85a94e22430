----------------------------- MODULE NetActions -----------------------------
(***************************************************************************)
(* The confirmed actions of internal/commands/action.go: /fw, /reconnect,  *)
(* /wifi, /service and /reboot.  Each is run by the goroutine of a click,  *)
(* so that two may overlap.  Each runs commands of the system, any of      *)
(* which may fail or time out, and reports one result.  The rules are      *)
(* those of one source address, which is all an iptables call of these     *)
(* actions matches; the system is external.                                *)
(***************************************************************************)
EXTENDS Naturals, Sequences, FiniteSets

CONSTANTS Clicks,    \* goroutines that may run an action at the same time
          MaxRules,  \* bound on the rules of a chain
          Bands,     \* of the radio
          Services,  \* names users ask for
          Proper,    \* the names without path separators and the like
          Whitelist  \* security.service_whitelist

ASSUME RulesAssumption == MaxRules \in Nat
ASSUME ClicksAssumption == IsFiniteSet(Clicks)

VARIABLES input,    \* rules of chain INPUT for the address, first match first
          forward,  \* rules of chain FORWARD for the address
          wan,      \* whether interface wan is up
          radio,    \* the bands that are on
          running,  \* the services that run
          pc,       \* pc[c]: what the action of click c does next
          reports,  \* history: results of the /fw actions of the last rush
          rebooting \* whether the goroutine of doReboot is waiting

rules == <<input, forward>>
system == <<wan, radio, running>>
vars == <<rules, system, pc, reports, rebooting>>

Init == /\ input = <<>>
        /\ forward = <<>>
        /\ wan \in BOOLEAN
        /\ radio \in SUBSET Bands
        /\ running \in SUBSET Services
        /\ pc = [c \in Clicks |-> "idle"]
        /\ reports = {}
        /\ rebooting = FALSE

\* No /fw action is under way.  Those of a rush overlap.
Calm == \A c \in Clicks : pc[c] \notin {"allow", "block"}
Earlier == IF Calm THEN {} ELSE reports

Idle(c) == pc[c] = "idle"
Goto(c, next) == pc' = [pc EXCEPT ![c] = next]
Result(action, ok) == [action |-> action, ok |-> ok]

-----------------------------------------------------------------------------
(* The commands of the system.                                             *)

\* iptables -D: the chain without the first rule that matches, if there is one.
Hits(rule, chain) == {i \in DOMAIN chain : chain[i] = rule}
First(positions) == {i \in positions : \A k \in positions : i <= k}
WithoutFirst(rule, chain) ==
  {SubSeq(chain, 1, i - 1) \o SubSeq(chain, i + 1, Len(chain)) : i \in First(Hits(rule, chain))}

\* iptables -I: at the head of the chain.
Insert(rule, chain) == <<rule>> \o chain

Room == Len(input) + Cardinality(Clicks) <= MaxRules

-----------------------------------------------------------------------------
(* doFirewall.                                                             *)

\* Whether the first command finds no rule, fails or works is not looked at.
AllowDelete(c) == /\ Idle(c)
                  /\ Room
                  /\ input' \in {input} \union WithoutFirst("DROP", input)
                  /\ Goto(c, "allow")
                  /\ reports' = Earlier
                  /\ UNCHANGED <<forward, system, rebooting>>

\* iptables -A: behind the rules that are there.
AllowAppend(c) ==
  /\ pc[c] = "allow"
  /\ \/ /\ input' = Append(input, "ACCEPT")
        /\ reports' = reports \union {Result("allow", TRUE)}
     \/ /\ input' \in {input, Append(input, "ACCEPT")}
        /\ reports' = reports \union {Result("allow", FALSE)}
  /\ Goto(c, "idle")
  /\ UNCHANGED <<forward, system, rebooting>>

\* A command that is killed at its timeout may have changed the chain before.
AllowInsert(c) ==
  /\ pc[c] = "allow"
  /\ \/ /\ input' = Insert("ACCEPT", input)
        /\ reports' = reports \union {Result("allow", TRUE)}
     \/ /\ input' \in {input, Insert("ACCEPT", input)}
        /\ reports' = reports \union {Result("allow", FALSE)}
  /\ Goto(c, "idle")
  /\ UNCHANGED <<forward, system, rebooting>>

BlockInput(c) ==
  /\ Idle(c)
  /\ Room
  /\ \/ /\ input' = Insert("DROP", input)
        /\ Goto(c, "block")
        /\ reports' = Earlier
     \/ /\ input' \in {input, Insert("DROP", input)}
        /\ reports' = Earlier \union {Result("block", FALSE)}
        /\ UNCHANGED pc
  /\ UNCHANGED <<forward, system, rebooting>>

\* The second rule may fail; the block is reported as successful all the same.
BlockForward(c) ==
  /\ pc[c] = "block"
  /\ forward' \in {forward} \union
       (IF Len(forward) < MaxRules THEN {Insert("DROP", forward)} ELSE {})
  /\ Goto(c, "idle")
  /\ reports' = reports \union {Result("block", TRUE)}
  /\ UNCHANGED <<input, system, rebooting>>

-----------------------------------------------------------------------------
(* The other actions.                                                      *)

\* doReconnectWAN: ifup may fail with the interface in either state.
Ifup(c) == /\ Idle(c)
           /\ \/ wan' = TRUE /\ UNCHANGED pc
              \/ wan' \in BOOLEAN /\ Goto(c, "fallback")
           /\ UNCHANGED <<rules, radio, running, reports, rebooting>>

Fallback(c) == /\ pc[c] = "fallback"
               /\ wan' \in {FALSE, wan}
               /\ Goto(c, "idle")
               /\ UNCHANGED <<rules, radio, running, reports, rebooting>>

\* doWifiControl: a band may be ignored, and a failure leave things half done.
Wifi(c) == /\ Idle(c)
           /\ \E bands \in SUBSET Bands : radio' \in {radio \union bands, radio \ bands}
           /\ UNCHANGED <<rules, wan, running, pc, reports, rebooting>>

\* doServiceControl: a bad name is refused before the whitelist is searched.
Service(c, s) ==
  /\ Idle(c)
  /\ s \in Proper
  /\ s \in Whitelist
  /\ running' \in {running \union {s}, running \ {s}}
  /\ UNCHANGED <<rules, wan, radio, pc, reports, rebooting>>

\* doReboot reports success at once.
Reboot(c) == /\ Idle(c)
             /\ rebooting' = TRUE
             /\ UNCHANGED <<rules, system, pc, reports>>

\* Three seconds later; nobody learns that reboot failed.
RebootRuns == /\ rebooting
              /\ \/ /\ UNCHANGED <<rules, system, pc, reports>>
                 \/ /\ input' = <<>>
                    /\ forward' = <<>>
                    /\ wan' \in BOOLEAN
                    /\ radio' \in SUBSET Bands
                    /\ running' \in SUBSET Services
                    /\ pc' = [c \in Clicks |-> "idle"]
                    /\ reports' = {}
              /\ rebooting' = FALSE

\* Rules, interfaces and services also change behind the agent's back; rules
\* not in the middle of an action.
Outside == /\ \/ /\ wan' \in BOOLEAN
                 /\ UNCHANGED <<rules, reports>>
              \/ /\ Calm
                 /\ input' = <<>>
                 /\ forward' = <<>>
                 /\ reports' = {}
                 /\ UNCHANGED wan
           /\ UNCHANGED <<radio, running, pc, rebooting>>

Firewall(c) == \/ AllowDelete(c) \/ AllowInsert(c)
               \/ BlockInput(c) \/ BlockForward(c)

Next == \/ \E c \in Clicks : \/ Firewall(c)
                             \/ Ifup(c) \/ Fallback(c) \/ Wifi(c) \/ Reboot(c)
                             \/ \E s \in Services : Service(c, s)
        \/ RebootRuns
        \/ Outside

Spec == Init /\ [][Next]_vars

-----------------------------------------------------------------------------
Rules == {"ACCEPT", "DROP"}
RuleOf(action) == IF action = "allow" THEN "ACCEPT" ELSE "DROP"

\* Every variable has the type the code gives it.
TypeOK ==
  /\ input \in Seq(Rules) /\ forward \in Seq(Rules)
  /\ wan \in BOOLEAN
  /\ radio \in SUBSET Bands
  /\ running \in SUBSET Services
  /\ pc \in [Clicks -> {"idle", "allow", "block", "fallback"}]
  /\ reports \in SUBSET [action : {"allow", "block"}, ok : BOOLEAN]
  /\ rebooting \in BOOLEAN

Succeeded == {r.action : r \in {x \in reports : x.ok}}

\* When the /fw actions of a rush have ended and one of them reported success,
\* the packets of the address to the router are treated as one of the rush asks,
\* whatever rules earlier actions have left behind, however the commands have
\* overlapped and whether a failed block has taken effect; unless an allow
\* failed, which may have removed the rule of a block before.
InputFollowsReport ==
  Calm /\ Succeeded # {} /\ Result("allow", FALSE) \notin reports
    => input # <<>> /\ \E r \in reports : Head(input) = RuleOf(r.action)

=============================================================================
