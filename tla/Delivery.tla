------------------------------ MODULE Delivery ------------------------------
(***************************************************************************)
(* From Feishu to a command handler: the WebSocket reader acknowledges and *)
(* deduplicates event frames (internal/feishu/ws.go), a bounded channel    *)
(* and a dispatcher hand each event to a goroutine (cmd/agent/main.go),    *)
(* and HandleMessage (internal/commands/router.go) drops what is too old,  *)
(* older than the process, or known.  Feishu delivers at least once, under *)
(* the same event id or under another one, as late as it likes, and the    *)
(* process may die and be started again.                                   *)
(***************************************************************************)
EXTENDS Integers, Sequences

CONSTANTS
  Messages, \* message ids
  Events,   \* event ids
  MsgOf,    \* MsgOf[e]: the message e carries, or Card, Stranger or Other
  Handlers, \* goroutines that may be alive at the same time
  QueueCap, \* capacity of WSClient.events: 64
  Grace,    \* 5 s: how much older than the process a message may be
  Stale,    \* 60 s: how old a message may be
  Retain,   \* 30 min: how long ids are remembered
  Skew,     \* how far Feishu's clock and the router's may be apart
  MaxQuick, \* bound on the quick restarts
  MaxTime   \* bound on the clock

Card == "card.action.trigger"
Stranger == "a message of no admin, or one that cannot be parsed"
Other == "another event type"
Never == -1
NoEvent == "no event"

ASSUME TimeAssumption == /\ Grace \in Nat /\ Stale \in Nat /\ Retain \in Nat
                         /\ Skew \in Nat /\ MaxQuick \in Nat /\ MaxTime \in Nat
ASSUME EventAssumption == /\ MsgOf \in [Events -> Messages \union {Card, Stranger, Other}]
                          /\ {Card, Stranger, Other} \intersect Messages = {}
                          /\ NoEvent \notin Events
ASSUME CapAssumption == QueueCap \in Nat

VARIABLES
  now,       \* the router's clock
  up,        \* whether the process runs
  startedAt, \* Router.startedAt
  downAt,    \* when the last process died
  created,   \* created[m]: CreateTime of m, or Never before it is sent
  seenIDs,   \* WSClient.seenIDs: event -> first seen, or Never
  queue,     \* WSClient.events
  job,       \* job[h]: the event goroutine h was started for, or NoEvent
  seenMsg,   \* Router.seenMsgIDs: message -> first seen, or Never
  handled,   \* history: handled[m] counts the command runs for m
  quick,     \* history: counts the restarts that were quick
  dropped    \* history: events this process dropped at a full channel

clock == <<now, created>>
process == <<up, startedAt, downAt>>
histories == <<handled, quick, dropped>>
vars == <<clock, process, seenIDs, queue, job, seenMsg, histories>>

Init ==
  /\ now = 0
  /\ up = TRUE
  /\ startedAt = 0
  /\ downAt = 0
  /\ created = [m \in Messages |-> Never]
  /\ seenIDs = [e \in Events |-> Never]
  /\ queue = <<>>
  /\ job = [h \in Handlers |-> NoEvent]
  /\ seenMsg = [m \in Messages |-> Never]
  /\ handled = [m \in Messages |-> 0]
  /\ quick = 0
  /\ dropped = {}

-----------------------------------------------------------------------------
(* Feishu.                                                                 *)

Send(m, stamp) ==
  /\ created[m] = Never
  /\ stamp >= 0
  /\ created' = [created EXCEPT ![m] = stamp]
  /\ UNCHANGED <<now, process, seenIDs, queue, job, seenMsg, histories>>

\* Feishu may deliver e: it is no message event, or its message was sent.
Sent(e) == MsgOf[e] \in Messages => created[MsgOf[e]] # Never

-----------------------------------------------------------------------------
(* The WebSocket reader.                                                   *)

\* Both isDuplicate functions first forget what is older than the retention.
Evict(seen) ==
  [x \in DOMAIN seen |-> IF seen[x] < now - Retain THEN Never ELSE seen[x]]

\* handleDataFrame: a duplicate is acknowledged and ignored; a new event is
\* remembered, and dropped if the channel is full.  It is acknowledged then too.
Deliver(e) ==
  /\ up
  /\ Sent(e)
  /\ LET known == Evict(seenIDs)
         new == known[e] = Never
         room == Len(queue) < QueueCap
     IN /\ seenIDs' = IF new THEN [known EXCEPT ![e] = now] ELSE known
        /\ queue' = IF new /\ room THEN Append(queue, e) ELSE queue
        /\ dropped' = IF new /\ ~room THEN dropped \union {e} ELSE dropped
  /\ UNCHANGED <<clock, process, job, seenMsg, handled, quick>>

-----------------------------------------------------------------------------
(* The dispatcher and the goroutines it starts.                            *)

\* A dispatcher that gives up on the first event type it does not know.
DispatchUntilUnknown(h) ==
  /\ queue # <<>>
  /\ job[h] = NoEvent
  /\ MsgOf[Head(queue)] # Other
  /\ queue' = Tail(queue)
  /\ job' = [job EXCEPT ![h] = Head(queue)]
  /\ UNCHANGED <<clock, process, seenIDs, seenMsg, histories>>

\* A pool of workers that discards an event when no worker is free.
DispatchOrDiscard(h) ==
  /\ queue # <<>>
  /\ queue' = Tail(queue)
  /\ job' = IF job[h] # NoEvent \/ MsgOf[Head(queue)] = Other THEN job
            ELSE [job EXCEPT ![h] = Head(queue)]
  /\ UNCHANGED <<clock, process, seenIDs, seenMsg, histories>>

\* One goroutine per message or click; unknown types are logged and dropped.
Dispatch(h) ==
  /\ queue # <<>>
  /\ job[h] = NoEvent
  /\ queue' = Tail(queue)
  /\ job' = IF MsgOf[Head(queue)] = Other THEN job
            ELSE [job EXCEPT ![h] = Head(queue)]
  /\ UNCHANGED <<clock, process, seenIDs, seenMsg, histories>>

\* HandleCardAction knows neither age nor repetition of a click: what it does
\* is module Confirm's.
HandleCard(h) ==
  /\ job[h] # NoEvent
  /\ MsgOf[job[h]] = Card
  /\ job' = [job EXCEPT ![h] = NoEvent]
  /\ UNCHANGED <<clock, process, seenIDs, queue, seenMsg, histories>>

\* HandleMessage ignores who is no administrator, and what it cannot parse.
IgnoreStranger(h) ==
  /\ job[h] # NoEvent
  /\ MsgOf[job[h]] = Stranger
  /\ job' = [job EXCEPT ![h] = NoEvent]
  /\ UNCHANGED <<clock, process, seenIDs, queue, seenMsg, histories>>

TooOld(m) == created[m] < startedAt - Grace \/ now - created[m] > Stale

\* HandleMessage returns before it looks at seenMsgIDs.
DropOld(h) ==
  /\ job[h] # NoEvent
  /\ MsgOf[job[h]] \in Messages
  /\ TooOld(MsgOf[job[h]])
  /\ job' = [job EXCEPT ![h] = NoEvent]
  /\ UNCHANGED <<clock, process, seenIDs, queue, seenMsg, histories>>

\* A handler that remembers only the messages it has finished.
HandleUnrecorded(h, runs) ==
  /\ job[h] # NoEvent
  /\ MsgOf[job[h]] \in Messages
  /\ ~TooOld(MsgOf[job[h]])
  /\ seenMsg' = Evict(seenMsg)
  /\ handled' = IF runs THEN [handled EXCEPT ![MsgOf[job[h]]] = @ + 1]
                ELSE handled
  /\ job' = [job EXCEPT ![h] = NoEvent]
  /\ UNCHANGED <<clock, process, seenIDs, queue, quick, dropped>>

\* HandleMessage up to the call of the command's handler.  The checks before
\* the lock of seenMsgIDs read nothing another goroutine writes, so they and
\* the critical section are one step.  runs is FALSE for an empty text, a user
\* above the rate limit or an unknown command: those are remembered all the
\* same.
Handle(h, runs) ==
  /\ job[h] # NoEvent
  /\ MsgOf[job[h]] \in Messages
  /\ ~TooOld(MsgOf[job[h]])
  /\ LET m == MsgOf[job[h]]
         known == Evict(seenMsg)
         new == known[m] = Never
     IN /\ seenMsg' = IF new THEN [known EXCEPT ![m] = now] ELSE known
        /\ handled' = IF new /\ runs THEN [handled EXCEPT ![m] = @ + 1]
                      ELSE handled
  /\ job' = [job EXCEPT ![h] = NoEvent]
  /\ UNCHANGED <<clock, process, seenIDs, queue, quick, dropped>>

-----------------------------------------------------------------------------
(* Time and the process.                                                   *)

Tick ==
  /\ now < MaxTime
  /\ now' = now + 1
  /\ UNCHANGED <<created, process, seenIDs, queue, job, seenMsg, histories>>

\* Everything the process knew is in memory.  The bounds leave room for another
\* start.
Crash ==
  /\ up
  /\ quick < MaxQuick \/ now + Grace + Skew < MaxTime
  /\ up' = FALSE
  /\ downAt' = now
  /\ seenIDs' = [e \in Events |-> Never]
  /\ queue' = <<>>
  /\ job' = [h \in Handlers |-> NoEvent]
  /\ seenMsg' = [m \in Messages |-> Never]
  /\ dropped' = {}
  /\ UNCHANGED <<clock, startedAt, handled, quick>>

\* The process has not been down for longer than the grace period and the
\* difference of the clocks.
Quick == now <= downAt + Grace + Skew

\* procd starts the agent again after 5 s, an administrator at once.
Start ==
  /\ ~up
  /\ up' = TRUE
  /\ startedAt' = now
  /\ quick' = IF Quick THEN quick + 1 ELSE quick
  /\ quick' <= MaxQuick
  /\ UNCHANGED <<clock, downAt, seenIDs, queue, job, seenMsg, handled, dropped>>

-----------------------------------------------------------------------------
Goroutine(h) == \/ Dispatch(h)
                \/ HandleCard(h)
                \/ IgnoreStranger(h)
                \/ DropOld(h)
                \/ \E runs \in BOOLEAN : Handle(h, runs)

Next == \/ \E m \in Messages, d \in -Skew .. Skew : Send(m, now + d)
        \/ \E e \in Events : Deliver(e)
        \/ \E h \in Handlers : Goroutine(h)
        \/ Tick
        \/ Crash
        \/ Start

Spec == Init /\ [][Next]_vars

\* The dispatcher and its goroutines are scheduled.
Fairness == \A h \in Handlers : WF_vars(Goroutine(h))

FairSpec == Spec /\ Fairness

-----------------------------------------------------------------------------
Times == 0 .. MaxTime + Skew

\* Every variable has the type the code gives it.
TypeOK ==
  /\ now \in 0 .. MaxTime
  /\ up \in BOOLEAN
  /\ startedAt \in 0 .. MaxTime
  /\ downAt \in 0 .. MaxTime
  /\ created \in [Messages -> Times \union {Never}]
  /\ seenIDs \in [Events -> 0 .. MaxTime \union {Never}]
  /\ queue \in Seq(Events)
  /\ Len(queue) <= QueueCap
  /\ job \in [Handlers -> Events \union {NoEvent}]
  /\ seenMsg \in [Messages -> 0 .. MaxTime \union {Never}]
  /\ handled \in [Messages -> Nat]
  /\ quick \in 0 .. MaxQuick
  /\ dropped \in SUBSET Events

\* A command runs once, and once more at most for every restart that was quick,
\* although Feishu repeats its message under the same or another event id and
\* ids are forgotten after Retain and at every restart: what is forgotten is by
\* then too old for HandleMessage, or older than the process.
RunsAtMostOnce == \A m \in Messages : handled[m] <= 1 + quick

\* The reader acknowledges an event and refuses it from then on, so losing it
\* would be final.  The message of an event it remembers is on its way, or known
\* to HandleMessage, or too old for it, unless the channel was full.
Waiting(e) == \E i \in DOMAIN queue : queue[i] = e
Running(e) == \E h \in Handlers : job[h] = e
LostOnlyWhenFull ==
  \A e \in Events :
    MsgOf[e] \in Messages /\ seenIDs[e] # Never =>
      \/ Waiting(e) \/ Running(e) \/ e \in dropped
      \/ seenMsg[MsgOf[e]] # Never
      \/ TooOld(MsgOf[e])

\* The comment on the pre-startup check: a freshly started agent rejects the
\* commands its predecessor has been given.
NoReplayAfterRestart ==
  [][\A m \in Messages : startedAt > 0 /\ handled[m] > 0 => handled'[m] = handled[m]]_vars

\* The dispatcher gets to every event the reader has put in the channel,
\* whatever the events before it are.
EveryEventDispatched == \A e \in Events : Waiting(e) ~> ~Waiting(e)
=============================================================================
