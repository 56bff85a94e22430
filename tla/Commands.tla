------------------------------ MODULE Commands ------------------------------
(***************************************************************************)
(* What becomes of the commands that the router of internal/commands takes *)
(* up: the rate limit, the handler of each command (query.go, plugin.go,   *)
(* live.go), the processes it runs and the calls by which it answers.      *)
(* Every message and every click is handled once, by a goroutine of its    *)
(* own; they share the limiter and the access token.  What a confirmed     *)
(* operation does is left to Confirm and NetActions.                       *)
(***************************************************************************)
EXTENDS Limiter, Client, Stream

CONSTANTS Offers,   \* Offers[r]: commands that request r may be
          Sender,   \* Sender[r]: its resolved sender id
          CardLines \* what a live card has room for: 2000 runes, as lines

Requests == DOMAIN Offers

ASSUME RequestAssumption == /\ Requests = Callers
                            /\ Requests = Runs
                            /\ Sender \in [Requests -> Users]
                            /\ CardLines \in Nat

VARIABLES
  cmd,      \* cmd[r]: the command r is
  pc,       \* pc[r]: where its handler is; "unsent": the request is never made
  failed,   \* history: failed[r]: where a call of the handler returned an error
  shown,    \* shown[r]: what the chat shows in answer
  card,     \* card[r]: the live card in the chat
  text      \* text[r]: lines the strings.Builder of the handler holds

handlers == <<cmd, pc, failed, shown, card, text>>
commandVars == <<vars, clientVars, streamVars, handlers>>

-----------------------------------------------------------------------------
(* The commands, by what their handlers do.                                *)

\* A card of what the collector has last seen.
Snapshots == {"status", "devices", "traffic", "wifi", "route"}

\* A card of the output of a program, which has to succeed.
Listings == {"disk", "top", "pkg"}

\* A card of whatever the programs have returned.
Surveys == {"arp", "services", "plugin list"}

\* Cards whose failure is only logged.
PluginCards == {"plugin status", "plugin config"}

\* The output of a program, or its error, as text.
Outputs == {"log", "service status"}

\* Text at once: help, notes, wrong usage, unknown commands and plugins.
Replies == {"help", "note", "usage", "unknown"}

\* A confirmation card; the failure to send it is only logged.
Confirmable == {"reboot", "reconnect", "wifi on", "wifi off", "fw", "service",
                "exec", "plugin reload", "plugin switch"}

Watched == {"ping", "dns"}

\* Clicks: a card is updated in place, a confirmed operation carried out, or
\* its confirmation refused or cancelled.
Clicks == {"refresh", "reboot_confirm", "confirmed exec", "confirmed",
           "unconfirmed"}

Live == Watched \union {"confirmed exec"}

RunsFirst == Listings \union Surveys \union PluginCards \union Outputs
             \union {"confirmed"}

\* Handlers that reply with a text when their card fails.
HasFallback == Snapshots \union Listings \union Surveys \union Live
               \union {"refresh"}

Commands == Snapshots \union Listings \union Surveys \union PluginCards
            \union Outputs \union Replies \union Confirmable \union Watched
            \union Clicks

NoCard == [lines |-> {}, head |-> "none"]

\* BuildLiveCard keeps the end of a text of n lines.
LiveCard(n, head) ==
  [lines |-> {i \in 1 .. n : i > n - CardLines}, head |-> head]

CommandsInit ==
  /\ Init
  /\ ClientInit
  /\ StreamInit
  /\ cmd \in [Requests -> Commands]
  /\ \A r \in Requests : cmd[r] \in Offers[r]
  /\ pc \in [Requests -> {"sent", "unsent"}]
  /\ failed = [r \in Requests |-> {}]
  /\ shown = [r \in Requests |-> {}]
  /\ card = [r \in Requests |-> NoCard]
  /\ text = [r \in Requests |-> 0]

-----------------------------------------------------------------------------
(* Admission and the handlers up to their first call.                      *)

Goto(r, s) == pc' = [pc EXCEPT ![r] = s]

HandlerStart(r) == IF cmd[r] \in RunsFirst THEN "run"
                   ELSE IF cmd[r] \in Replies \union {"unconfirmed"} THEN "text"
                   ELSE "card"

Still == UNCHANGED <<clientVars, streamVars, cmd, failed, shown, card, text>>

Admit(r) == /\ pc[r] = "sent"
            /\ cmd[r] \notin Clicks
            /\ Grant(Sender[r])
            /\ Goto(r, HandlerStart(r))
            /\ Still

\* The sender is told that he is too fast.
TurnDown(r) == /\ pc[r] = "sent"
               /\ cmd[r] \notin Clicks
               /\ Refuse(Sender[r])
               /\ Goto(r, "text")
               /\ Still

Click(r) == /\ pc[r] = "sent"
            /\ cmd[r] \in Clicks
            /\ Goto(r, HandlerStart(r))
            /\ UNCHANGED vars
            /\ Still

\* A handler that needs its programs to succeed replies with the error.
AfterRun(r) == \/ Goto(r, IF cmd[r] \in Outputs THEN "text" ELSE "card")
               \/ cmd[r] \in Listings \union {"plugin config"} /\ Goto(r, "text")

\* A program exits or is killed at its timeout, a file or the API of a plugin
\* has been read.  Run also waits for those that have inherited the output.
RunEnds(r) == /\ pc[r] = "run"
              /\ AfterRun(r) \/ Goto(r, "held")
              /\ UNCHANGED vars
              /\ Still

\* The last process that has inherited the output of the program ends.
Freed(r) == /\ pc[r] = "held"
            /\ AfterRun(r)
            /\ UNCHANGED vars
            /\ Still

-----------------------------------------------------------------------------
(* Calls of the Feishu API.                                                *)

CallSites == {"card", "text", "progress", "final"}

Call(r) == /\ pc[r] \in CallSites
           /\ Begin(r)
           /\ UNCHANGED <<vars, streamVars, handlers>>

ObtainToken(r) == /\ GetToken(r)
                  /\ UNCHANGED <<vars, streamVars, handlers>>

\* A first card that fails is only logged, as it is for plugins.
ProceedsLogging(r, ok) ==
  Goto(r, CASE pc[r] = "progress" -> "stream"
            [] pc[r] = "card" /\ ok /\ cmd[r] \in Live -> "start"
            [] OTHER -> "done")

\* runLive sends its first card; a handler without a fallback stops at an error.
Proceeds(r, ok) ==
  Goto(r, CASE pc[r] = "progress" -> "stream"
            [] pc[r] = "card" /\ ok /\ cmd[r] \in Live -> "start"
            [] pc[r] = "card" /\ ~ok /\ cmd[r] \in HasFallback -> "text"
            [] OTHER -> "done")

Fails(r) == /\ failed' = [failed EXCEPT ![r] = @ \union {pc[r]}]
            /\ Proceeds(r, FALSE)

Succeeded(r) == errc[r] = "nil"

\* What the call puts in the chat.
Shows(r) ==
  /\ shown' = [shown EXCEPT ![r] = @ \union {IF pc[r] = "text" THEN "text" ELSE "card"}]
  /\ card' = IF cmd[r] \notin Live \/ pc[r] = "text" THEN card
             ELSE [card EXCEPT ![r] =
                    LiveCard(text[r],
                             IF pc[r] # "final" THEN "running"
                             ELSE IF Succeeded(r) THEN "ok" ELSE "failed")]

\* The reply to a click has no message to reply to: MessageID is empty.
Addressless(r) == pc[r] = "text" /\ cmd[r] \in Clicks \ {"unconfirmed"}

\* No token: nothing is sent.
CallDenied(r) == /\ Denied(r)
                 /\ Fails(r)
                 /\ UNCHANGED <<vars, streamVars, cmd, shown, card, text>>

\* The request is carried out, and the handler learns of it or not.
CallCarriedOut(r) ==
  /\ Answered(r)
  /\ ~Addressless(r)
  /\ Shows(r)
  /\ \/ Proceeds(r, TRUE) /\ UNCHANGED failed
     \/ Fails(r)
  /\ UNCHANGED <<vars, streamVars, cmd, text>>

\* The request is lost or refused.
CallRefused(r) == /\ Answered(r)
                  /\ Fails(r)
                  /\ UNCHANGED <<vars, streamVars, cmd, shown, card, text>>

-----------------------------------------------------------------------------
(* runLive and runLiveShell after the first card.                          *)

\* A program that is not on the whitelist is reported on the card.
StartLive(r) ==
  /\ pc[r] = "start"
  /\ \/ StreamLines(r) /\ Goto(r, "stream")
     \/ cmd[r] = "confirmed exec" /\ Goto(r, "final") /\ UNCHANGED streamVars
  /\ UNCHANGED <<vars, clientVars, cmd, failed, shown, card, text>>

TakeLine(r) == /\ pc[r] = "stream"
               /\ Receive(r)
               /\ text' = [text EXCEPT ![r] = @ + 1]
               /\ UNCHANGED <<vars, clientVars, cmd, pc, failed, shown, card>>

\* The ticker; updates are synchronous, so the channel is not read meanwhile.
ShowProgress(r) == /\ pc[r] = "stream"
                   /\ text[r] > 0
                   /\ Goto(r, "progress")
                   /\ UNCHANGED vars
                   /\ Still

\* lines is closed: receive the result and update the card for the last time.
EndStream(r) == /\ pc[r] = "stream"
                /\ Drained(r)
                /\ Goto(r, "final")
                /\ UNCHANGED vars
                /\ Still

Outside(r) == ProcessNext(r) /\ UNCHANGED <<vars, clientVars, handlers>>
Scanning(r) == ScannerNext(r) /\ UNCHANGED <<vars, clientVars, handlers>>

\* MaxTime bounds the limiter's clock only.
Clock == /\ Tick \/ (now = MaxTime /\ UNCHANGED vars)
         /\ ClientTick
         /\ UNCHANGED <<streamVars, handlers>>

-----------------------------------------------------------------------------
CallEnds(r) == CallDenied(r) \/ CallCarriedOut(r) \/ CallRefused(r)

Handle(r) == \/ Admit(r) \/ TurnDown(r) \/ Click(r) \/ RunEnds(r) \/ Freed(r)
             \/ Call(r) \/ ObtainToken(r) \/ CallEnds(r) \/ StartLive(r)
             \/ TakeLine(r) \/ ShowProgress(r) \/ EndStream(r)

CommandsNext == (\E r \in Requests : Handle(r) \/ Scanning(r) \/ Outside(r)) \/ Clock

CommandsSpec == CommandsInit /\ [][CommandsNext]_commandVars

\* Programs and HTTP calls end (their contexts and clients have timeouts), and
\* the scheduler, the mutex of the token and select are fair.  What a program
\* leaves behind need not end.
Fairness ==
  \A r \in Requests :
    /\ WF_commandVars(RunEnds(r) \/ Call(r) \/ CallEnds(r) \/ StartLive(r))
    /\ SF_commandVars(ObtainToken(r))
    /\ SF_commandVars(TakeLine(r) \/ EndStream(r))
    /\ WF_commandVars(Scanning(r))
    /\ WF_commandVars(CutOff(r) /\ UNCHANGED <<vars, clientVars, handlers>>)

FairCommandsSpec == CommandsSpec /\ Fairness

-----------------------------------------------------------------------------
\* The handlers have the types the code gives them, and so has all they use.
CommandsTypeOK ==
  /\ TypeOK
  /\ ClientTypeOK
  /\ StreamTypeOK
  /\ cmd \in [Requests -> Commands]
  /\ pc \in [Requests -> CallSites \union {"sent", "unsent", "run", "held",
                                               "start", "stream", "done"}]
  /\ failed \in [Requests -> SUBSET CallSites]
  /\ shown \in [Requests -> SUBSET {"card", "text"}]
  /\ card \in [Requests -> [lines : SUBSET (1 .. MaxLines),
                            head : {"none", "running", "ok", "failed"}]]
  /\ text \in [Requests -> 0 .. MaxLines]

\* The last live card shows the end of what the process and what it has started
\* have written, as much as there is room for, unless the process was cut off:
\* no line gets lost between the pipe, the bounded channel and updates that
\* block or fail, and what is left out is left out at the front.
LatestLinesShown ==
  \A r \in Requests : card[r].head \in {"ok", "failed"} /\ r \notin timedOut
    => card[r].lines = {i \in 1 .. written[r] : written[r] < i + CardLines}

\* The header says how the process ended; a process that was not cut off and
\* succeeded is not shown as failed.
HeaderTrue ==
  \A r \in Requests :
    /\ card[r].head = "ok" => proc[r] = "zero"
    /\ card[r].head = "failed" => proc[r] # "zero" \/ r \in timedOut

\* A handler with a fallback leaves the chat without an answer only when the
\* text that is its last resort could not be sent either.
SilentOnlyWithoutText ==
  \A r \in Requests : pc[r] = "done" /\ cmd[r] \in HasFallback /\ shown[r] = {}
    => "text" \in failed[r]

\* What a program has left behind holds the pipe the handler waits for.
HeldUp(r) == pc[r] = "held" \/ r \in kept

\* Every message and click that is taken up is dealt with to the end, whatever
\* fails, unless some process that a program has left behind never gives up its
\* pipe: nobody waits for ever for the token, a full channel or a timeout.
EveryRequestEnds ==
  \A r \in Requests : \/ pc[r] \notin {"sent", "unsent"} ~> pc[r] = "done"
                      \/ <>[]HeldUp(r)
=============================================================================
