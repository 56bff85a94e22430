--------------------------- MODULE DeliveryProof ---------------------------
(***************************************************************************)
(* At-most-once execution of commands, for any number of messages, events  *)
(* and goroutines.                                                         *)
(*                                                                         *)
(* The agent cannot remember every message: it forgets ids after Retain    *)
(* and everything at a restart.  The invariant says that each time it      *)
(* forgets a message that ran, the age checks have taken over.             *)
(***************************************************************************)
EXTENDS Delivery, TLAPS

LEMMA InitType == Init => TypeOK
BY TimeAssumption, CapAssumption DEF Init, TypeOK, Times, Never

\* The channel's first event and the others.
LEMMA HeadAndTail ==
  ASSUME TypeOK, queue # <<>>
  PROVE  /\ Head(queue) \in Events /\ Tail(queue) \in Seq(Events)
         /\ Len(Tail(queue)) <= QueueCap
         /\ Head(queue) = queue[1] /\ 1 \in DOMAIN queue
         /\ \A i \in DOMAIN Tail(queue) :
              i + 1 \in DOMAIN queue /\ Tail(queue)[i] = queue[i + 1]
<1>1. Head(queue) \in Events /\ Tail(queue) \in Seq(Events)
  BY DEF TypeOK
<1> QED
  BY <1>1, CapAssumption DEF TypeOK

\* Forgetting ids leaves a table of times.
LEMMA EvictType ==
  ASSUME TypeOK
  PROVE  Evict(seenMsg) \in [Messages -> 0 .. MaxTime \union {Never}]
BY DEF TypeOK, Evict

LEMMA NextType == TypeOK /\ [Next]_vars => TypeOK'
<1> SUFFICES ASSUME TypeOK, [Next]_vars PROVE TypeOK'
  OBVIOUS
<1> USE TimeAssumption, CapAssumption, EventAssumption
<1> USE DEF clock, process, histories
<1>1. ASSUME NEW m \in Messages, NEW d \in -Skew .. Skew, Send(m, now + d)
      PROVE  TypeOK'
  BY <1>1 DEF Send, TypeOK, Times
<1>2. ASSUME NEW e \in Events, Deliver(e) PROVE TypeOK'
  BY <1>2 DEF Deliver, TypeOK, Evict, Never
<1>3. ASSUME NEW h \in Handlers, Dispatch(h) PROVE TypeOK'
  BY <1>3, HeadAndTail DEF Dispatch, TypeOK
<1>4. ASSUME NEW h \in Handlers, HandleCard(h) \/ IgnoreStranger(h) \/ DropOld(h) PROVE TypeOK'
  BY <1>4 DEF HandleCard, IgnoreStranger, DropOld, TypeOK
<1>5. ASSUME NEW h \in Handlers, NEW runs \in BOOLEAN, Handle(h, runs)
      PROVE  TypeOK'
  BY <1>5, EvictType DEF Handle, TypeOK
<1>6. CASE Tick
  BY <1>6 DEF Tick, TypeOK
<1>7. CASE Crash
  <2>1. queue' \in Seq(Events) /\ Len(queue') <= QueueCap
    BY <1>7 DEF Crash
  <2>2. UNCHANGED <<now, created, startedAt, handled, quick>>
    BY <1>7 DEF Crash
  <2>3. downAt' \in 0 .. MaxTime /\ up' \in BOOLEAN /\ dropped' \in SUBSET Events
    BY <1>7 DEF Crash, TypeOK
  <2>4. /\ seenIDs' \in [Events -> 0 .. MaxTime \union {Never}]
        /\ seenMsg' \in [Messages -> 0 .. MaxTime \union {Never}]
        /\ job' \in [Handlers -> Events \union {NoEvent}]
    BY <1>7 DEF Crash
  <2> QED
    BY <2>1, <2>2, <2>3, <2>4 DEF TypeOK
<1>8. CASE Start
  BY <1>8 DEF Start, TypeOK
<1>9. CASE UNCHANGED vars
  BY <1>9 DEF vars, TypeOK
<1> QED
  BY <1>1, <1>2, <1>3, <1>4, <1>5, <1>6, <1>7, <1>8, <1>9 DEF Next, Goroutine

\* Every variable keeps the type the code gives it.
THEOREM TypeCorrect == Spec => []TypeOK
BY InitType, NextType, PTL DEF Spec

-----------------------------------------------------------------------------
\* A message is remembered, or too old for the retention to matter, or too old
\* for this process.
StillRefused(m) ==
  \/ ~up /\ created[m] <= downAt + Skew
  \/ up /\ seenMsg[m] # Never /\ created[m] <= seenMsg[m] + Skew
  \/ up /\ created[m] + Retain < now + Skew
  \/ up /\ created[m] < startedAt - Grace

\* A message that ran as often as the quick restarts allow is refused until the
\* next of them.
RanIsRefused == \A m \in Messages :
  handled[m] > quick => created[m] # Never /\ StillRefused(m)

\* Only messages that were sent are on their way.
QueueSent == \A i \in DOMAIN queue : Sent(queue[i])
JobSent == \A h \in Handlers : job[h] # NoEvent => Sent(job[h])

\* A process that is down has no goroutines.
DownIsIdle == ~up => queue = <<>> /\ \A h \in Handlers : job[h] = NoEvent

\* No message is stamped later than Feishu's clock can be.
StampsPast == \A m \in Messages : created[m] <= now + Skew

IInv == /\ TypeOK
        /\ DownIsIdle
        /\ QueueSent
        /\ JobSent
        /\ StampsPast
        /\ RanIsRefused
        /\ RunsAtMostOnce

LEMMA InitIInv == Init => IInv
<1> SUFFICES ASSUME Init PROVE IInv
  OBVIOUS
<1>1. TypeOK
  BY InitType
<1>2. QueueSent /\ JobSent /\ DownIsIdle
  BY DEF Init, QueueSent, JobSent, DownIsIdle
<1>3. StampsPast /\ RanIsRefused /\ RunsAtMostOnce
  BY TimeAssumption DEF Init, StampsPast, RanIsRefused, RunsAtMostOnce, Never
<1> QED
  BY <1>1, <1>2, <1>3 DEF IInv

\* What the arithmetic below needs of the types.
LEMMA Integral ==
  ASSUME TypeOK, NEW m \in Messages
  PROVE  /\ now \in Nat /\ startedAt \in Int /\ downAt \in Int
         /\ created[m] \in Int /\ seenMsg[m] \in Int /\ handled[m] \in Nat
         /\ quick \in Nat
         /\ Evict(seenMsg)[m] =
              IF seenMsg[m] < now - Retain THEN Never ELSE seenMsg[m]
<1>1. /\ now \in Nat /\ startedAt \in Int /\ downAt \in Int
      /\ handled[m] \in Nat /\ quick \in Nat
  BY TimeAssumption DEF TypeOK
<1>2. created[m] \in Int
  BY TimeAssumption DEF TypeOK, Times, Never
<1>3. seenMsg[m] \in Int /\ DOMAIN seenMsg = Messages
  BY TimeAssumption DEF TypeOK, Never
<1> QED
  BY <1>1, <1>2, <1>3 DEF Evict

\* A message that ran does not pass the age checks unless seenMsgIDs holds it.
LEMMA RefusedOrKnown ==
  ASSUME Stale + Skew <= Retain, TypeOK, up, NEW m \in Messages, StillRefused(m), ~TooOld(m)
  PROVE  Evict(seenMsg)[m] # Never
  BY TimeAssumption, Integral DEF StillRefused, TooOld

\* Forgetting ids leaves every message that ran refused.
LEMMA EvictKeepsRefused ==
  ASSUME TypeOK, StampsPast, NEW m \in Messages, up, StillRefused(m),
         UNCHANGED <<clock, process>>,
         \/ seenMsg'[m] = Evict(seenMsg)[m]
         \/ seenMsg'[m] = now
  PROVE  StillRefused(m)'
<1>1. UNCHANGED <<now, created, up, startedAt, downAt>>
  BY DEF clock, process
<1> QED
  BY <1>1, TimeAssumption, Integral DEF StampsPast, StillRefused, Never

LEMMA NextIInv ==
  ASSUME Stale + Skew <= Retain
  PROVE  IInv /\ [Next]_vars => IInv'
<1> SUFFICES ASSUME IInv, [Next]_vars PROVE IInv'
  OBVIOUS
<1> USE TimeAssumption, CapAssumption, EventAssumption
<1> USE DEF IInv, clock, process, histories
<1>0. TypeOK'
  BY NextType
<1>1. ASSUME NEW m \in Messages, NEW d \in -Skew .. Skew, Send(m, now + d)
      PROVE  IInv'
  <2>2. QueueSent' /\ JobSent' /\ DownIsIdle'
    BY <1>1 DEF Send, QueueSent, JobSent, DownIsIdle, Sent, TypeOK, Never
  <2>3. ~(handled[m] > quick)
    BY <1>1 DEF Send, RanIsRefused
  <2>4. StampsPast' /\ RanIsRefused' /\ RunsAtMostOnce'
    BY <1>1, <2>3
    DEF Send, StampsPast, RanIsRefused, StillRefused, RunsAtMostOnce, TypeOK
  <2> QED
    BY <1>0, <2>2, <2>4
<1>2. ASSUME NEW e \in Events, Deliver(e) PROVE IInv'
  <2>2. QueueSent' /\ JobSent' /\ DownIsIdle'
    BY <1>2 DEF Deliver, QueueSent, JobSent, DownIsIdle, Sent, TypeOK
  <2>3. StampsPast' /\ RanIsRefused' /\ RunsAtMostOnce'
    BY <1>2 DEF Deliver, StampsPast, RanIsRefused, StillRefused, RunsAtMostOnce
  <2> QED
    BY <1>0, <2>2, <2>3
<1>3. ASSUME NEW h \in Handlers, Dispatch(h) PROVE IInv'
  <2>4. QueueSent' /\ JobSent' /\ DownIsIdle'
    BY <1>3, HeadAndTail DEF Dispatch, QueueSent, JobSent, DownIsIdle, Sent, TypeOK
  <2>5. StampsPast' /\ RanIsRefused' /\ RunsAtMostOnce'
    BY <1>3 DEF Dispatch, StampsPast, RanIsRefused, StillRefused, RunsAtMostOnce
  <2> QED
    BY <1>0, <2>4, <2>5
<1>4. ASSUME NEW h \in Handlers, HandleCard(h) \/ IgnoreStranger(h) \/ DropOld(h) PROVE IInv'
  <2>2. QueueSent' /\ JobSent' /\ DownIsIdle'
    BY <1>4 DEF HandleCard, IgnoreStranger, DropOld, QueueSent, JobSent, DownIsIdle, Sent, TypeOK
  <2>3. StampsPast' /\ RanIsRefused' /\ RunsAtMostOnce'
    BY <1>4
    DEF HandleCard, IgnoreStranger, DropOld, StampsPast, RanIsRefused, StillRefused,
        RunsAtMostOnce
  <2> QED
    BY <1>0, <2>2, <2>3
<1>5. ASSUME NEW h \in Handlers, NEW runs \in BOOLEAN, Handle(h, runs)
      PROVE  IInv'
  <2> DEFINE known == Evict(seenMsg)
  <2>0. up
    BY <1>5 DEF Handle, DownIsIdle
  <2>1. PICK m \in Messages : m = MsgOf[job[h]] /\ ~TooOld(m)
    BY <1>5 DEF Handle
  <2>2. known \in [Messages -> 0 .. MaxTime \union {Never}]
    BY EvictType
  <2>4. QueueSent' /\ JobSent' /\ DownIsIdle'
    BY <1>5 DEF Handle, QueueSent, JobSent, DownIsIdle, Sent, TypeOK
  <2>5. created[m] # Never
    BY <1>5, <2>1 DEF Handle, JobSent, Sent
  <2>6. handled[m] > quick => known[m] # Never
    BY <1>5, <2>0, <2>1, RefusedOrKnown DEF RanIsRefused
  <2>7. RunsAtMostOnce'
    <3>1. handled' = IF known[m] = Never /\ runs
                     THEN [handled EXCEPT ![m] = handled[m] + 1] ELSE handled
      BY <1>5, <2>1 DEF Handle
    <3>2. handled[m] \in Nat /\ (known[m] = Never => handled[m] <= quick)
      BY <2>1, <2>6, Integral
    <3>3. quick' = quick /\ quick \in Nat
      BY <1>5, Integral DEF Handle
    <3> QED
      BY <3>1, <3>2, <3>3 DEF RunsAtMostOnce, TypeOK
  <2>8. ASSUME NEW u \in Messages, handled'[u] > quick
        PROVE  created'[u] # Never /\ StillRefused(u)'
    <3>1. seenMsg'[u] = known[u] \/ seenMsg'[u] = now
      BY <1>5, <2>1, <2>2 DEF Handle, TypeOK
    <3>2. UNCHANGED <<clock, process>>
      BY <1>5 DEF Handle
    <3>3. CASE handled[u] > quick
      BY <1>5, <2>0, <3>1, <3>2, <3>3, EvictKeepsRefused DEF RanIsRefused
    <3>4. CASE ~(handled[u] > quick)
      <4>1. u = m /\ known[m] = Never
        BY <1>5, <2>1, <2>8, <3>4 DEF Handle, TypeOK
      <4>2. seenMsg'[u] = now
        BY <1>5, <2>1, <2>2, <4>1 DEF Handle
      <4> QED
        BY <1>5, <2>0, <2>5, <3>2, <4>1, <4>2, Integral
        DEF StampsPast, StillRefused, Never, TypeOK
    <3> QED
      BY <3>3, <3>4
  <2>9. StampsPast' /\ quick' = quick
    BY <1>5 DEF Handle, StampsPast
  <2> QED
    BY <1>0, <2>4, <2>7, <2>8, <2>9 DEF RanIsRefused
<1>6. CASE Tick
  <2>1. QueueSent' /\ JobSent' /\ DownIsIdle'
    BY <1>6 DEF Tick, QueueSent, JobSent, DownIsIdle, Sent
  <2>2. StampsPast' /\ RanIsRefused' /\ RunsAtMostOnce'
    BY <1>6, Integral
    DEF Tick, StampsPast, RanIsRefused, StillRefused, RunsAtMostOnce
  <2> QED
    BY <1>0, <2>1, <2>2
<1>7. CASE Crash
  <2>1. QueueSent' /\ JobSent' /\ DownIsIdle'
    BY <1>7 DEF Crash, QueueSent, JobSent, DownIsIdle
  <2>2. StampsPast' /\ RanIsRefused' /\ RunsAtMostOnce'
    BY <1>7 DEF Crash, StampsPast, RanIsRefused, StillRefused, RunsAtMostOnce
  <2> QED
    BY <1>0, <2>1, <2>2
<1>8. CASE Start
  <2>1. QueueSent' /\ JobSent' /\ DownIsIdle' /\ StampsPast'
    BY <1>8 DEF Start, QueueSent, JobSent, DownIsIdle, Sent, StampsPast
  <2>2. CASE Quick
    BY <1>0, <1>8, <2>1, <2>2, Integral
    DEF Start, RanIsRefused, RunsAtMostOnce
  <2>3. CASE ~Quick
    BY <1>0, <1>8, <2>1, <2>3, Integral
    DEF Start, Quick, RanIsRefused, StillRefused, RunsAtMostOnce
  <2> QED
    BY <2>2, <2>3
<1>9. CASE UNCHANGED vars
  BY <1>9
  DEF vars, TypeOK, QueueSent, JobSent, DownIsIdle, Sent, StampsPast, RanIsRefused,
      StillRefused, RunsAtMostOnce
<1> QED
  BY <1>1, <1>2, <1>3, <1>4, <1>5, <1>6, <1>7, <1>8, <1>9
  DEF Next, Goroutine

\* A command is run once, and once more at most for each restart within the
\* grace period and the clocks' difference, however often and under however many
\* event ids Feishu delivers its message and however often the agent restarts,
\* when ids are kept for as long as a message can pass the age check.
THEOREM CommandRunsAtMostOnce ==
  ASSUME Stale + Skew <= Retain
  PROVE  Spec => []RunsAtMostOnce
<1>1. Init => IInv
  BY InitIInv
<1>2. IInv /\ [Next]_vars => IInv'
  BY NextIInv
<1>3. IInv => RunsAtMostOnce
  BY DEF IInv
<1> QED
  BY <1>1, <1>2, <1>3, PTL DEF Spec

-----------------------------------------------------------------------------
(* What the reader remembers is not lost.                                  *)

\* Ids that are remembered belong to events and messages that were sent, and
\* no message was seen before its stamp, but for the clocks' difference.
IDsSent == \A e \in Events : seenIDs[e] # Never => Sent(e)
SeenSent == \A m \in Messages :
  seenMsg[m] # Never => created[m] # Never /\ created[m] <= seenMsg[m] + Skew
DownForgot == ~up => \A e \in Events : seenIDs[e] = Never

Accounted(e) == \/ Waiting(e) \/ Running(e) \/ e \in dropped
                \/ seenMsg[MsgOf[e]] # Never
                \/ TooOld(MsgOf[e])

LInv == /\ TypeOK
        /\ QueueSent /\ JobSent /\ StampsPast
        /\ IDsSent /\ SeenSent /\ DownForgot
        /\ LostOnlyWhenFull

LEMMA InitLInv == Init => LInv
<1> SUFFICES ASSUME Init PROVE LInv
  OBVIOUS
<1>1. TypeOK
  BY InitType
<1> QED
  BY <1>1, TimeAssumption
  DEF Init, LInv, QueueSent, JobSent, StampsPast, IDsSent, SeenSent, DownForgot,
      LostOnlyWhenFull, Never

LEMMA NextLInv ==
  ASSUME Stale + Skew <= Retain
  PROVE  LInv /\ [Next]_vars => LInv'
<1> SUFFICES ASSUME LInv, [Next]_vars PROVE LInv'
  OBVIOUS
<1> USE TimeAssumption, CapAssumption, EventAssumption
<1> USE DEF LInv, clock, process, histories
<1>0. TypeOK'
  BY NextType
<1>1. ASSUME NEW m \in Messages, NEW d \in -Skew .. Skew, Send(m, now + d)
      PROVE  LInv'
  <2>1. QueueSent' /\ JobSent' /\ IDsSent' /\ DownForgot'
    BY <1>1 DEF Send, QueueSent, JobSent, IDsSent, DownForgot, Sent, TypeOK, Never
  <2>2. StampsPast' /\ SeenSent'
    BY <1>1 DEF Send, StampsPast, SeenSent, TypeOK
  <2>3. ASSUME NEW e \in Events, MsgOf[e] \in Messages, seenIDs'[e] # Never
        PROVE  Accounted(e)'
    <3>1. MsgOf[e] # m
      BY <1>1, <2>3 DEF Send, IDsSent, Sent
    <3>2. created'[MsgOf[e]] = created[MsgOf[e]]
      BY <1>1, <3>1 DEF Send, TypeOK
    <3> QED
      BY <1>1, <2>3, <3>2
      DEF Send, LostOnlyWhenFull, Accounted, Waiting, Running, TooOld
  <2> QED
    BY <1>0, <2>1, <2>2, <2>3 DEF LostOnlyWhenFull, Accounted
<1>2. ASSUME NEW e \in Events, Deliver(e) PROVE LInv'
  <2>1. QueueSent' /\ JobSent' /\ StampsPast' /\ SeenSent'
    BY <1>2 DEF Deliver, QueueSent, JobSent, StampsPast, SeenSent, Sent, TypeOK
  <2>2. \A f \in Events : seenIDs'[f] # Never => f = e \/ seenIDs[f] # Never
    BY <1>2 DEF Deliver, Evict, TypeOK
  <2>3. IDsSent' /\ DownForgot'
    BY <1>2, <2>2 DEF Deliver, IDsSent, DownForgot, Sent
  <2>4. ASSUME NEW f \in Events, Waiting(f)
        PROVE  Waiting(f)'
    <3>1. PICK i \in DOMAIN queue : queue[i] = f
      BY <2>4 DEF Waiting
    <3>2. queue' = queue \/ queue' = Append(queue, e)
      BY <1>2 DEF Deliver
    <3>3. i \in DOMAIN queue' /\ queue'[i] = f
      <4>1. CASE queue' = Append(queue, e)
        BY <3>1, <4>1 DEF TypeOK
      <4> QED
        BY <3>1, <3>2, <4>1
    <3> QED
      BY <3>3 DEF Waiting
  <2>5. ASSUME NEW f \in Events, MsgOf[f] \in Messages, seenIDs'[f] # Never
        PROVE  Accounted(f)'
    <3>1. CASE f = e /\ Evict(seenIDs)[e] = Never
      <4>1. CASE Len(queue) < QueueCap
        <5>1. queue' = Append(queue, e)
          BY <1>2, <3>1, <4>1 DEF Deliver
        <5>2. Len(queue) + 1 \in DOMAIN queue' /\ queue'[Len(queue) + 1] = e
          BY <5>1 DEF TypeOK
        <5> QED
          BY <3>1, <5>2 DEF Accounted, Waiting
      <4>2. CASE ~(Len(queue) < QueueCap)
        BY <1>2, <3>1, <4>2 DEF Deliver, Accounted
      <4> QED
        BY <4>1, <4>2
    <3>2. CASE ~(f = e /\ Evict(seenIDs)[e] = Never)
      <4>1. seenIDs[f] # Never
        BY <1>2, <2>5, <3>2 DEF Deliver, Evict, TypeOK
      <4> QED
        BY <1>2, <2>4, <2>5, <4>1
        DEF Deliver, LostOnlyWhenFull, Accounted, Running, TooOld
    <3> QED
      BY <3>1, <3>2
  <2> QED
    BY <1>0, <2>1, <2>3, <2>5 DEF LostOnlyWhenFull, Accounted
<1>3. ASSUME NEW h \in Handlers, Dispatch(h) PROVE LInv'
  <2>1. QueueSent' /\ JobSent' /\ StampsPast' /\ SeenSent' /\ IDsSent' /\ DownForgot'
    BY <1>3, HeadAndTail
    DEF Dispatch, QueueSent, JobSent, StampsPast, SeenSent, IDsSent, DownForgot, Sent, TypeOK
  <2>2. ASSUME NEW e \in Events, MsgOf[e] \in Messages, Waiting(e)
        PROVE  Waiting(e)' \/ Running(e)'
    <3>1. PICK i \in DOMAIN queue : queue[i] = e
      BY <2>2 DEF Waiting
    <3>2. CASE i = 1
      <4>1. job' = [job EXCEPT ![h] = e]
        BY <1>3, <2>2, <3>1, <3>2, HeadAndTail DEF Dispatch
      <4> QED
        BY <4>1 DEF Running, TypeOK
    <3>3. CASE i # 1
      <4>1. i - 1 \in DOMAIN Tail(queue) /\ Tail(queue)[i - 1] = e
        BY <3>1, <3>3 DEF TypeOK
      <4> QED
        BY <1>3, <4>1 DEF Dispatch, Waiting
    <3> QED
      BY <3>2, <3>3
  <2>3. \A e \in Events : Running(e) => Running(e)'
    BY <1>3 DEF Dispatch, Running, TypeOK
  <2> QED
    BY <1>0, <1>3, <2>1, <2>2, <2>3 DEF Dispatch, LostOnlyWhenFull, TooOld
<1>4. ASSUME NEW h \in Handlers, HandleCard(h) \/ IgnoreStranger(h) \/ DropOld(h) PROVE LInv'
  <2>1. QueueSent' /\ JobSent' /\ StampsPast' /\ SeenSent' /\ IDsSent' /\ DownForgot'
    BY <1>4
    DEF HandleCard, IgnoreStranger, DropOld, QueueSent, JobSent, StampsPast, SeenSent, IDsSent, DownForgot,
        Sent, TypeOK
  <2>2. ASSUME NEW e \in Events, MsgOf[e] \in Messages, Running(e)
        PROVE  Running(e)' \/ TooOld(MsgOf[e])
    BY <1>4, <2>2 DEF HandleCard, IgnoreStranger, DropOld, Running, TypeOK
  <2> QED
    BY <1>0, <1>4, <2>1, <2>2
    DEF HandleCard, IgnoreStranger, DropOld, LostOnlyWhenFull, Waiting, TooOld
<1>5. ASSUME NEW h \in Handlers, NEW runs \in BOOLEAN, Handle(h, runs)
      PROVE  LInv'
  <2> DEFINE m == MsgOf[job[h]]
  <2>1. QueueSent' /\ JobSent' /\ StampsPast' /\ IDsSent' /\ DownForgot'
    BY <1>5
    DEF Handle, QueueSent, JobSent, StampsPast, IDsSent, DownForgot, Sent, TypeOK
  <2>2. /\ seenMsg'[m] # Never
        /\ \A n \in Messages : \/ seenMsg'[n] = Evict(seenMsg)[n]
                               \/ n = m /\ seenMsg'[n] = now
    BY <1>5, EvictType DEF Handle, TypeOK, Never
  <2>3. SeenSent'
    <3> SUFFICES ASSUME NEW n \in Messages, seenMsg'[n] # Never
                 PROVE  created[n] # Never /\ created[n] <= seenMsg'[n] + Skew
      BY <1>5 DEF Handle, SeenSent
    <3>1. CASE n = m /\ seenMsg'[n] = now
      BY <1>5, <3>1 DEF Handle, StampsPast, JobSent, Sent
    <3>2. CASE seenMsg'[n] = Evict(seenMsg)[n]
      BY <3>2, Integral DEF SeenSent
    <3> QED
      BY <2>2, <3>1, <3>2
  <2>4. ASSUME NEW n \in Messages, seenMsg[n] # Never
        PROVE  seenMsg'[n] # Never \/ TooOld(n)
    <3>1. CASE seenMsg[n] < now - Retain
      BY <2>4, <3>1, Integral DEF SeenSent, TooOld
    <3>2. CASE ~(seenMsg[n] < now - Retain)
      BY <2>2, <2>4, <3>2, Integral DEF Never
    <3> QED
      BY <3>1, <3>2
  <2>5. ASSUME NEW e \in Events, MsgOf[e] \in Messages, Running(e)
        PROVE  Running(e)' \/ seenMsg'[MsgOf[e]] # Never
    BY <1>5, <2>2, <2>5 DEF Handle, Running, TypeOK
  <2>6. \A n \in Messages : TooOld(n)' = TooOld(n)
    BY <1>5 DEF Handle, TooOld
  <2>7. \A e \in Events : Waiting(e)' = Waiting(e)
    BY <1>5 DEF Handle, Waiting
  <2>8. UNCHANGED <<seenIDs, dropped>>
    BY <1>5 DEF Handle
  <2> QED
    BY <1>0, <2>1, <2>3, <2>4, <2>5, <2>6, <2>7, <2>8 DEF LostOnlyWhenFull
<1>6. CASE Tick
  <2>1. /\ QueueSent' /\ JobSent' /\ StampsPast' /\ SeenSent' /\ IDsSent' /\ DownForgot'
        /\ \A n \in Messages : TooOld(n) => TooOld(n)'
    BY <1>6, Integral
    DEF Tick, QueueSent, JobSent, StampsPast, SeenSent, IDsSent, DownForgot, Sent, TooOld
  <2> QED
    BY <1>0, <1>6, <2>1 DEF Tick, LostOnlyWhenFull, Waiting, Running
<1>7. CASE Crash
  BY <1>0, <1>7
  DEF Crash, QueueSent, JobSent, StampsPast, SeenSent, IDsSent, DownForgot, LostOnlyWhenFull
<1>8. CASE Start
  BY <1>0, <1>8
  DEF Start, QueueSent, JobSent, StampsPast, SeenSent, IDsSent, DownForgot, Sent,
      LostOnlyWhenFull
<1>9. CASE UNCHANGED vars
  BY <1>0, <1>9
  DEF vars, QueueSent, JobSent, StampsPast, SeenSent, IDsSent, DownForgot, Sent,
      LostOnlyWhenFull, Waiting, Running, TooOld
<1> QED
  BY <1>1, <1>2, <1>3, <1>4, <1>5, <1>6, <1>7, <1>8, <1>9
  DEF Next, Goroutine

\* An event whose id is remembered, so that it would be refused, is lost only at
\* a full channel, however many events, goroutines and restarts there are, when
\* ids are kept for as long as a message can pass the age check.
THEOREM RememberedIsNotLost ==
  ASSUME Stale + Skew <= Retain
  PROVE  Spec => []LostOnlyWhenFull
<1>1. Init => LInv
  BY InitLInv
<1>2. LInv /\ [Next]_vars => LInv'
  BY NextLInv
<1>3. LInv => LostOnlyWhenFull
  BY DEF LInv
<1> QED
  BY <1>1, <1>2, <1>3, PTL DEF Spec
=============================================================================
