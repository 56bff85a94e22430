------------------------------ MODULE Confirm ------------------------------
(***************************************************************************)
(* The confirmation flow of internal/commands/router.go.  A dangerous      *)
(* command registers a PendingAction under a fresh token, sends a card     *)
(* with two buttons and arms a timer that deletes the entry.  Each button  *)
(* click is a goroutine of its own (cmd/agent/main.go), so clicks of       *)
(* several admins, the initiating goroutine, the timer and a crash of the  *)
(* process interleave at every lock boundary.                              *)
(***************************************************************************)
EXTENDS Admin, Integers, FiniteSets

CONSTANTS Tokens,   \* newToken() results; 128 random bits, so all different
          Handlers, \* goroutines that may handle clicks at the same time
          TTL       \* ExpiresAt and AfterFunc: 60 s, in ticks

ASSUME TTLAssumption == TTL \in Nat \ {0}

VARIABLES
  stage,     \* stage[t]: how far the goroutine that made t has come
  owner,     \* owner[t]: PendingAction.UserID
  kind,      \* kind[t]: "oneshot" (Execute) or "live" (LiveExecute)
  age,       \* age[t]: ticks since ExpiresAt - TTL, saturating at TTL + 1
  timer,     \* timer[t]: ticks until the AfterFunc of t is due
  pending,   \* keys of Router.pending
  card,      \* tokens whose card is on screen in the chat
  pc,        \* pc[h]: where click handler h is
  tok,       \* tok[h]: the token in its click
  who,       \* who[h]: its resolved sender
  runs,      \* history: how many times the action of t was started
  executor,  \* history: who started it
  okAge,     \* history: age[t] when the last check let it through
  cancelled  \* history: tokens for which a cancel click was answered

agent == <<stage, owner, kind, age, timer, pending>>
clicks == <<pc, tok, who>>
history == <<runs, executor, okAge, cancelled>>
vars == <<agent, card, clicks, history>>

Stages == {"unused", "made", "registered", "armed", "over"}
Kinds == {"oneshot", "live"}
NoOne == "nobody"
Ids == {SenderID(s) : s \in {x \in Senders : Authorised(x)}}
Idle == "no click"

Expired(t) == age[t] > TTL
Holds(h, t) == pc[h] \in {"taken", "approved"} /\ tok[h] = t

Init ==
  /\ stage = [t \in Tokens |-> "unused"]
  /\ owner = [t \in Tokens |-> NoOne]
  /\ kind = [t \in Tokens |-> "oneshot"]
  /\ age = [t \in Tokens |-> 0]
  /\ timer = [t \in Tokens |-> TTL]
  /\ pending = {}
  /\ card = {}
  /\ pc = [h \in Handlers |-> "idle"]
  /\ tok = [h \in Handlers |-> Idle]
  /\ who = [h \in Handlers |-> NoOne]
  /\ runs = [t \in Tokens |-> 0]
  /\ executor = [t \in Tokens |-> NoOne]
  /\ okAge = [t \in Tokens |-> 0]
  /\ cancelled = {}

-----------------------------------------------------------------------------
(* The goroutine of the command: initiateConfirm and initiateConfirmLive.  *)

\* Remembering the user_id of the event instead of the id that was authorised.
InitiateByUserID(t, s, k) ==
  /\ stage[t] = "unused"
  /\ Authorised(s)
  /\ stage' = [stage EXCEPT ![t] = "made"]
  /\ owner' = [owner EXCEPT ![t] = s.user_id]
  /\ kind' = [kind EXCEPT ![t] = k]
  /\ UNCHANGED <<age, timer, pending, card, clicks, history>>

Initiate(t, s, k) ==
  /\ stage[t] = "unused"
  /\ Authorised(s)
  /\ stage' = [stage EXCEPT ![t] = "made"]
  /\ owner' = [owner EXCEPT ![t] = SenderID(s)]
  /\ kind' = [kind EXCEPT ![t] = k]
  /\ UNCHANGED <<age, timer, pending, card, clicks, history>>

Register(t) ==
  /\ stage[t] = "made"
  /\ stage' = [stage EXCEPT ![t] = "registered"]
  /\ pending' = pending \union {t}
  /\ UNCHANGED <<owner, kind, age, timer, card, clicks, history>>

\* Feishu shows the card during SendCard, or later when the call timed out
\* after the request had been accepted, or never.
CardArrives(t) ==
  /\ stage[t] \in {"registered", "armed", "over"}
  /\ t \notin card
  /\ card' = card \union {t}
  /\ UNCHANGED <<agent, clicks, history>>

\* A handler that returns early when SendCard fails never arms the timer.
ArmUnlessSendFails(t) ==
  /\ stage[t] = "registered"
  /\ stage' = [stage EXCEPT ![t] = IF t \in card THEN "armed" ELSE "over"]
  /\ timer' = [timer EXCEPT ![t] = TTL]
  /\ UNCHANGED <<owner, kind, age, pending, card, clicks, history>>

\* SendCard returns, with or without an error, and AfterFunc starts to count.
Arm(t) ==
  /\ stage[t] = "registered"
  /\ stage' = [stage EXCEPT ![t] = "armed"]
  /\ timer' = [timer EXCEPT ![t] = TTL]
  /\ UNCHANGED <<owner, kind, age, pending, card, clicks, history>>

TimerFires(t) ==
  /\ stage[t] = "armed"
  /\ timer[t] = 0
  /\ stage' = [stage EXCEPT ![t] = "over"]
  /\ timer' = [timer EXCEPT ![t] = TTL]
  /\ pending' = pending \ {t}
  /\ UNCHANGED <<owner, kind, age, card, clicks, history>>

-----------------------------------------------------------------------------
(* The goroutine of a click: HandleCardAction, executeConfirm and          *)
(* cancelConfirm.  Stale clicks are not filtered: a card stays clickable.  *)

Click(h, s, t, button) ==
  /\ pc[h] = "idle"
  /\ t \in card
  /\ Authorised(s)
  /\ pc' = [pc EXCEPT ![h] = button]
  /\ tok' = [tok EXCEPT ![h] = t]
  /\ who' = [who EXCEPT ![h] = SenderID(s)]
  /\ UNCHANGED <<agent, card, history>>

\* Looking the entry up and deleting it later lets two clicks have it.
TakeWithoutDelete(h) ==
  /\ pc[h] = "confirm"
  /\ tok[h] \in pending
  /\ pc' = [pc EXCEPT ![h] = "taken"]
  /\ UNCHANGED <<agent, card, tok, who, history>>

\* Lookup and delete under one lock.
Take(h) ==
  /\ pc[h] = "confirm"
  /\ tok[h] \in pending
  /\ pending' = pending \ {tok[h]}
  /\ pc' = [pc EXCEPT ![h] = "taken"]
  /\ UNCHANGED <<stage, owner, kind, age, timer, card, tok, who, history>>

Return(h) ==
  /\ pc' = [pc EXCEPT ![h] = "idle"]
  /\ tok' = [tok EXCEPT ![h] = Idle]
  /\ who' = [who EXCEPT ![h] = NoOne]

\* The entry expired, was used, was cancelled or died with the process.
Gone(h) ==
  /\ pc[h] = "confirm"
  /\ tok[h] \notin pending
  /\ Return(h)
  /\ UNCHANGED <<agent, card, history>>

\* Giving the entry back to its owner after a click by somebody else.
RefuseAndPutBack(h) ==
  /\ pc[h] = "taken"
  /\ who[h] # owner[tok[h]] \/ Expired(tok[h])
  /\ pending' = pending \union {tok[h]}
  /\ Return(h)
  /\ UNCHANGED <<stage, owner, kind, age, timer, card, history>>

\* Another admin's click, or a late one.  The entry is gone all the same.
Refuse(h) ==
  /\ pc[h] = "taken"
  /\ who[h] # owner[tok[h]] \/ Expired(tok[h])
  /\ Return(h)
  /\ UNCHANGED <<agent, card, history>>

\* Trusting the timer alone to enforce the deadline.
ApproveAtAnyAge(h) ==
  /\ pc[h] = "taken"
  /\ who[h] = owner[tok[h]]
  /\ pc' = [pc EXCEPT ![h] = "approved"]
  /\ okAge' = [okAge EXCEPT ![tok[h]] = age[tok[h]]]
  /\ UNCHANGED <<agent, card, tok, who, runs, executor, cancelled>>

\* Any admin may confirm.
ApproveAnyAdmin(h) ==
  /\ pc[h] = "taken"
  /\ ~Expired(tok[h])
  /\ pc' = [pc EXCEPT ![h] = "approved"]
  /\ okAge' = [okAge EXCEPT ![tok[h]] = age[tok[h]]]
  /\ UNCHANGED <<agent, card, tok, who, runs, executor, cancelled>>

\* The last two checks of executeConfirm pass.
Approve(h) ==
  /\ pc[h] = "taken"
  /\ who[h] = owner[tok[h]]
  /\ ~Expired(tok[h])
  /\ pc' = [pc EXCEPT ![h] = "approved"]
  /\ okAge' = [okAge EXCEPT ![tok[h]] = age[tok[h]]]
  /\ UNCHANGED <<agent, card, tok, who, runs, executor, cancelled>>

Start(h) ==
  /\ runs' = [runs EXCEPT ![tok[h]] = @ + 1]
  /\ executor' = [executor EXCEPT ![tok[h]] = who[h]]
  /\ Return(h)
  /\ UNCHANGED <<agent, card, okAge, cancelled>>

Execute(h) ==
  /\ pc[h] = "approved"
  /\ kind[tok[h]] = "oneshot"
  /\ Start(h)

\* runLiveShell starts the command only once its live card has been sent.
LiveExecute(h) ==
  /\ pc[h] = "approved"
  /\ kind[tok[h]] = "live"
  /\ Start(h)

LiveCardFails(h) ==
  /\ pc[h] = "approved"
  /\ kind[tok[h]] = "live"
  /\ Return(h)
  /\ UNCHANGED <<agent, card, history>>

\* Deletes whatever is there, whoever asks, and always reports success.
Cancel(h) ==
  /\ pc[h] = "cancel"
  /\ pending' = pending \ {tok[h]}
  /\ cancelled' = cancelled \union {tok[h]}
  /\ Return(h)
  /\ UNCHANGED <<stage, owner, kind, age, timer, card, runs, executor, okAge>>

-----------------------------------------------------------------------------
(* Time and the process.                                                   *)

Older(t) == IF stage[t] = "unused" \/ Expired(t) THEN age[t] ELSE age[t] + 1
Nearer(t) == IF stage[t] = "armed" /\ timer[t] > 0 THEN timer[t] - 1 ELSE timer[t]

Tick ==
  /\ age' = [t \in Tokens |-> Older(t)]
  /\ timer' = [t \in Tokens |-> Nearer(t)]
  /\ UNCHANGED <<stage, owner, kind, pending, card, clicks, history>>

\* An agent that restored its pending entries but not their timers.
CrashKeepingPending ==
  /\ stage' = [t \in Tokens |-> IF stage[t] = "unused" THEN "unused" ELSE "over"]
  /\ pc' = [h \in Handlers |-> "idle"]
  /\ tok' = [h \in Handlers |-> Idle]
  /\ who' = [h \in Handlers |-> NoOne]
  /\ timer' = [t \in Tokens |-> TTL]
  /\ UNCHANGED <<owner, kind, age, pending, card, history>>

\* The map, the goroutines and the timers go; the cards stay in the chat.
Crash ==
  /\ stage' = [t \in Tokens |-> IF stage[t] = "unused" THEN "unused" ELSE "over"]
  /\ pending' = {}
  /\ pc' = [h \in Handlers |-> "idle"]
  /\ tok' = [h \in Handlers |-> Idle]
  /\ who' = [h \in Handlers |-> NoOne]
  /\ timer' = [t \in Tokens |-> TTL]
  /\ UNCHANGED <<owner, kind, age, card, history>>

-----------------------------------------------------------------------------
InitiatorStep(t) == Register(t) \/ Arm(t) \/ TimerFires(t)

HandlerStep(h) == \/ Take(h) \/ Gone(h) \/ Refuse(h) \/ Approve(h)
                  \/ Execute(h) \/ LiveExecute(h) \/ LiveCardFails(h)
                  \/ Cancel(h)

Next ==
  \/ \E t \in Tokens : \/ InitiatorStep(t)
                       \/ CardArrives(t)
                       \/ \E s \in Senders, k \in Kinds : Initiate(t, s, k)
  \/ \E h \in Handlers : \/ HandlerStep(h)
                         \/ \E s \in Senders, t \in Tokens :
                              \E button \in {"confirm", "cancel"} :
                                Click(h, s, t, button)
  \/ Tick
  \/ Crash

Spec == Init /\ [][Next]_vars

\* The Go scheduler runs every goroutine, every HTTP call returns within the
\* client's ten second timeout, and time passes.
FairSpec == /\ Spec
            /\ \A t \in Tokens : WF_vars(InitiatorStep(t))
            /\ \A h \in Handlers : WF_vars(HandlerStep(h))
            /\ WF_vars(Tick)

-----------------------------------------------------------------------------
\* Every variable has the type the code gives it.
TypeOK ==
  /\ stage \in [Tokens -> Stages]
  /\ owner \in [Tokens -> Ids \union {NoOne}]
  /\ kind \in [Tokens -> Kinds]
  /\ age \in [Tokens -> 0 .. TTL + 1]
  /\ timer \in [Tokens -> 0 .. TTL]
  /\ pending \in SUBSET Tokens
  /\ card \in SUBSET Tokens
  /\ pc \in [Handlers -> {"idle", "confirm", "cancel", "taken", "approved"}]
  /\ tok \in [Handlers -> Tokens \union {Idle}]
  /\ who \in [Handlers -> Ids \union {NoOne}]
  /\ runs \in [Tokens -> Nat]
  /\ executor \in [Tokens -> Ids \union {NoOne}]
  /\ okAge \in [Tokens -> 0 .. TTL + 1]
  /\ cancelled \in SUBSET Tokens

\* However many confirm clicks of however many admins race, a confirmed
\* operation is started at most once: the lookup and the delete of
\* executeConfirm share one critical section.
AtMostOnce == \A t \in Tokens : runs[t] <= 1

\* An operation that was started was confirmed by the admin who asked for it,
\* while its 60 seconds had not passed, even though the owner and the deadline
\* are compared after the lock is released.
OnlyOwnerInTime ==
  \A t \in Tokens : runs[t] > 0 => executor[t] = owner[t] /\ okAge[t] <= TTL

\* Once a cancel click has been answered, no confirm click finds the entry any
\* more: nothing puts an entry back after it was removed.
CancelIsFinal == cancelled \intersect pending = {}

\* Every entry of Router.pending still has somebody who will delete it: the
\* goroutine that is about to arm its timer, or the armed timer.  Otherwise an
\* abandoned confirmation would stay confirmable in the map for ever.
PendingHasReaper == \A t \in pending : stage[t] \in {"registered", "armed"}

\* The verdict of the abstract specification.  A request that a click handler
\* has taken out of the map is still open until the handler decides.
IsOpen(t) == \/ stage[t] = "made"
             \/ t \in pending
             \/ \E h \in Handlers : Holds(h, t)

Verdict(t) == IF stage[t] = "unused" THEN "none"
              ELSE IF runs[t] > 0 THEN "run"
              ELSE IF IsOpen(t) THEN "open" ELSE "void"

Promise == INSTANCE Approval WITH verdict <- [t \in Tokens |-> Verdict(t)],
                                  requester <- owner

\* The flow implements Approval: a request is decided once, by its requester
\* or by being voided, and a decision never changes.
ImplementsApproval == Promise!Spec

\* Every request is decided, whether or not anybody clicks and even if its card
\* never reaches the chat: the timer of initiateConfirm sees to it.
EveryRequestDecided == \A t \in Tokens : IsOpen(t) ~> ~IsOpen(t)
=============================================================================
