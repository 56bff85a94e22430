---------------------------- MODULE ConfirmProof ----------------------------
(***************************************************************************)
(* Safety of the confirmation flow for any number of admins, requests and  *)
(* concurrent clicks.                                                      *)
(*                                                                         *)
(* AtMostOnce is not inductive: it has to be known that an entry is at any *)
(* time either in the map or in the hands of one single click, never both, *)
(* and that neither is possible after the operation was started.           *)
(***************************************************************************)
EXTENDS Confirm, TLAPS

\* A click exists only for a card, and a card only for a registered request.
ClickHasCard == \A h \in Handlers :
  pc[h] # "idle" => tok[h] \in card /\ who[h] \in Ids

CardIsRegistered == \A t \in Tokens :
  stage[t] \in {"unused", "made"} => t \notin pending /\ t \notin card /\ runs[t] = 0

CancelledHasCard == cancelled \subseteq card

\* An entry in the map, or taken from it, has not been used.
PendingUnused == \A t \in pending : runs[t] = 0

HeldUnused == \A h \in Handlers :
  pc[h] \in {"taken", "approved"} => tok[h] \notin pending /\ runs[tok[h]] = 0

HeldOnce == \A g, h \in Handlers :
  /\ pc[g] \in {"taken", "approved"}
  /\ pc[h] \in {"taken", "approved"}
  /\ tok[g] = tok[h]
  => g = h

\* What the checks established still holds when the action is started.
ApprovedByOwner == \A h \in Handlers :
  pc[h] = "approved" => who[h] = owner[tok[h]] /\ okAge[tok[h]] <= TTL

IInv == /\ TypeOK
        /\ ClickHasCard
        /\ CardIsRegistered
        /\ CancelledHasCard
        /\ PendingUnused
        /\ HeldUnused
        /\ HeldOnce
        /\ ApprovedByOwner
        /\ AtMostOnce
        /\ OnlyOwnerInTime
        /\ CancelIsFinal
        /\ PendingHasReaper

\* The identity an authorised sender resolves to is one of Ids.
LEMMA SenderInIds == \A s \in Senders : Authorised(s) => SenderID(s) \in Ids
  BY DEF Ids

LEMMA InitIInv == Init => IInv
  BY TTLAssumption
  DEF Init, IInv, TypeOK, ClickHasCard, CardIsRegistered, CancelledHasCard,
      PendingUnused, HeldUnused, HeldOnce, ApprovedByOwner, AtMostOnce,
      OnlyOwnerInTime, CancelIsFinal, PendingHasReaper, Stages, Kinds

LEMMA NextIInv == IInv /\ [Next]_vars => IInv'
<1> SUFFICES ASSUME IInv, [Next]_vars PROVE IInv'
  OBVIOUS
<1> USE TTLAssumption DEF IInv, TypeOK, ClickHasCard, CardIsRegistered,
      CancelledHasCard, PendingUnused, HeldUnused, HeldOnce, ApprovedByOwner,
      AtMostOnce, OnlyOwnerInTime, CancelIsFinal, PendingHasReaper, Stages,
      Kinds, agent, clicks, history
<1>1. ASSUME NEW t \in Tokens, NEW s \in Senders, NEW k \in Kinds,
             Initiate(t, s, k)
      PROVE  IInv'
  BY <1>1, SenderInIds DEF Initiate
<1>2. ASSUME NEW t \in Tokens, Register(t) PROVE IInv'
  BY <1>2 DEF Register
<1>3. ASSUME NEW t \in Tokens, CardArrives(t) PROVE IInv'
  BY <1>3 DEF CardArrives
<1>4. ASSUME NEW t \in Tokens, Arm(t) PROVE IInv'
  BY <1>4 DEF Arm
<1>5. ASSUME NEW t \in Tokens, TimerFires(t) PROVE IInv'
  BY <1>5 DEF TimerFires
<1>6. ASSUME NEW h \in Handlers, NEW s \in Senders, NEW t \in Tokens,
             NEW button \in {"confirm", "cancel"}, Click(h, s, t, button)
      PROVE  IInv'
  BY <1>6, SenderInIds DEF Click
<1>7. ASSUME NEW h \in Handlers, Take(h) PROVE IInv'
  BY <1>7 DEF Take
<1>8. ASSUME NEW h \in Handlers, Gone(h) PROVE IInv'
  BY <1>8 DEF Gone, Return
<1>9. ASSUME NEW h \in Handlers, Refuse(h) PROVE IInv'
  BY <1>9 DEF Refuse, Return
<1>10. ASSUME NEW h \in Handlers, Approve(h) PROVE IInv'
  BY <1>10 DEF Approve, Expired
<1>11. ASSUME NEW h \in Handlers, pc[h] = "approved", Start(h) PROVE IInv'
  BY <1>11 DEF Start, Return
<1>12. ASSUME NEW h \in Handlers, LiveCardFails(h) PROVE IInv'
  BY <1>12 DEF LiveCardFails, Return
<1>13. ASSUME NEW h \in Handlers, Cancel(h) PROVE IInv'
  BY <1>13 DEF Cancel, Return
<1>14. CASE Tick
  BY <1>14 DEF Tick, Older, Nearer, Expired
<1>15. CASE Crash
  BY <1>15 DEF Crash
<1>16. CASE UNCHANGED vars
  BY <1>16 DEF vars
<1>17. ASSUME NEW h \in Handlers, Execute(h) \/ LiveExecute(h) PROVE IInv'
  BY <1>11, <1>17 DEF Execute, LiveExecute
<1> QED
  BY <1>1, <1>2, <1>3, <1>4, <1>5, <1>6, <1>7, <1>8, <1>9, <1>10, <1>12,
     <1>13, <1>14, <1>15, <1>16, <1>17
  DEF Next, InitiatorStep, HandlerStep

THEOREM Inductive == Spec => []IInv
<1>1. Init => IInv
  BY InitIInv
<1>2. IInv /\ [Next]_vars => IInv'
  BY NextIInv
<1> QED
  BY <1>1, <1>2, PTL DEF Spec

\* Every variable keeps its type.
THEOREM TypeCorrect == Spec => []TypeOK
<1>1. IInv => TypeOK
  BY DEF IInv
<1> QED
  BY <1>1, Inductive, PTL

\* executeConfirm starts a confirmed operation at most once, for any number of
\* racing clicks.
THEOREM StartedAtMostOnce == Spec => []AtMostOnce
<1>1. IInv => AtMostOnce
  BY DEF IInv
<1> QED
  BY <1>1, Inductive, PTL

\* executeConfirm starts an operation only for the admin who requested it and
\* only when confirmed within the deadline.
THEOREM StartedByOwnerInTime == Spec => []OnlyOwnerInTime
<1>1. IInv => OnlyOwnerInTime
  BY DEF IInv
<1> QED
  BY <1>1, Inductive, PTL

\* After cancelConfirm has answered, the entry is not in the map again.
THEOREM CancelStaysFinal == Spec => []CancelIsFinal
<1>1. IInv => CancelIsFinal
  BY DEF IInv
<1> QED
  BY <1>1, Inductive, PTL

\* No entry of Router.pending is ever left without a timer to come.
THEOREM NoEntryLeaks == Spec => []PendingHasReaper
<1>1. IInv => PendingHasReaper
  BY DEF IInv
<1> QED
  BY <1>1, Inductive, PTL

-----------------------------------------------------------------------------
(* The flow implements Approval.  Most steps leave every verdict alone; a  *)
(* request is voided by its timer, a refusal, a cancel, a live card that   *)
(* cannot be sent, or a crash.                                             *)

LEMMA InitSimulates == Init => Promise!Init
  BY DEF Init, Promise!Init, Verdict, NoOne, Promise!NoOne

\* A step that changes neither verdicts nor the record of runs is a stutter.
LEMMA Stutter ==
  ASSUME \A t \in Tokens : Verdict(t)' = Verdict(t),
         UNCHANGED <<owner, executor, runs>>
  PROVE  UNCHANGED Promise!vars
  BY DEF Promise!vars

LEMMA VoidOne ==
  ASSUME NEW t \in Tokens,
         Verdict(t) = "open", Verdict(t)' = "void",
         \A u \in Tokens \ {t} : Verdict(u)' = Verdict(u),
         UNCHANGED <<owner, executor, runs>>
  PROVE  Promise!Next
<1>1. Promise!Void({t})
  BY DEF Promise!Void
<1> QED
  BY <1>1 DEF Promise!Next

LEMMA NextSimulates == IInv /\ [Next]_vars => [Promise!Next]_(Promise!vars)
<1> SUFFICES ASSUME IInv, [Next]_vars
             PROVE  Promise!Next \/ UNCHANGED Promise!vars
  OBVIOUS
<1> USE DEF agent, clicks, history
<1>t. TypeOK
  BY DEF IInv
<1>h. \A h \in Handlers : pc[h] # "idle" => tok[h] \in Tokens
  BY <1>t DEF IInv, ClickHasCard, TypeOK
<1>1. ASSUME NEW t \in Tokens, NEW s \in Senders, NEW k \in Kinds,
             Initiate(t, s, k)
      PROVE  Promise!Next
  <2>1. \A u \in Tokens : Verdict(u)' = IF u = t THEN "open" ELSE Verdict(u)
    BY <1>1, <1>t
    DEF IInv, CardIsRegistered, Initiate, Verdict, IsOpen, Holds, TypeOK
  <2>2. Verdict(t) = "none"
    BY <1>1 DEF Initiate, Verdict
  <2>3. Promise!Request(t, SenderID(s))
    BY <1>1, <2>1, <2>2 DEF Initiate, Promise!Request
  <2> QED
    BY <1>1, <2>3, SenderInIds DEF Promise!Next, Initiate
<1>2. ASSUME NEW t \in Tokens,
             Register(t) \/ CardArrives(t) \/ Arm(t)
      PROVE  UNCHANGED Promise!vars
  <2>1. \A u \in Tokens : Verdict(u)' = Verdict(u)
    BY <1>2, <1>t
    DEF IInv, PendingHasReaper, Register, CardArrives, Arm, Verdict, IsOpen,
        Holds, TypeOK
  <2> QED
    BY <1>2, <2>1, Stutter DEF Register, CardArrives, Arm
<1>3. ASSUME NEW t \in Tokens, TimerFires(t)
      PROVE  Promise!Next \/ UNCHANGED Promise!vars
  <2>1. \A u \in Tokens \ {t} : Verdict(u)' = Verdict(u)
    BY <1>3, <1>t DEF TimerFires, Verdict, IsOpen, Holds, TypeOK
  <2>2. UNCHANGED <<owner, executor, runs>>
    BY <1>3 DEF TimerFires
  <2>3. CASE t \in pending
    <3>1. Verdict(t) = "open" /\ Verdict(t)' = "void"
      BY <1>3, <1>t, <2>3
      DEF IInv, PendingUnused, HeldUnused, TimerFires, Verdict, IsOpen, Holds,
          TypeOK
    <3> QED
      BY <2>1, <2>2, <3>1, VoidOne
  <2>4. CASE t \notin pending
    <3>1. Verdict(t)' = Verdict(t)
      BY <1>3, <1>t, <2>4 DEF TimerFires, Verdict, IsOpen, Holds, TypeOK
    <3> QED
      BY <2>1, <2>2, <3>1, Stutter
  <2> QED
    BY <2>3, <2>4
<1>4. ASSUME NEW h \in Handlers,
             \/ Take(h) \/ Gone(h) \/ Approve(h)
             \/ \E s \in Senders, t \in Tokens, b \in {"confirm", "cancel"} :
                  Click(h, s, t, b)
      PROVE  UNCHANGED Promise!vars
  <2>1. \A u \in Tokens : Verdict(u)' = Verdict(u)
    BY <1>4, <1>t
    DEF Take, Gone, Return, Approve, Click, Verdict, IsOpen, Holds, TypeOK
  <2> QED
    BY <1>4, <2>1, Stutter DEF Take, Gone, Approve, Click
<1>5. ASSUME NEW h \in Handlers, NEW t \in Tokens, t = tok[h],
             Refuse(h) \/ LiveCardFails(h)
      PROVE  Promise!Next
  <2>1. t \in card
    BY <1>5, <1>t DEF IInv, ClickHasCard, Refuse, LiveCardFails, TypeOK
  <2>2. Verdict(t) = "open" /\ Verdict(t)' = "void"
    BY <1>5, <1>t, <2>1
    DEF IInv, CardIsRegistered, HeldUnused, HeldOnce, Refuse, LiveCardFails,
        Return, Verdict, IsOpen, Holds, TypeOK
  <2>3. \A u \in Tokens \ {t} : Verdict(u)' = Verdict(u)
    BY <1>5, <1>t
    DEF Refuse, LiveCardFails, Return, Verdict, IsOpen, Holds, TypeOK
  <2>4. UNCHANGED <<owner, executor, runs>>
    BY <1>5 DEF Refuse, LiveCardFails
  <2> QED
    BY <2>1, <2>2, <2>3, <2>4, VoidOne
<1>6. ASSUME NEW h \in Handlers, NEW t \in Tokens, t = tok[h],
             Execute(h) \/ LiveExecute(h)
      PROVE  Promise!Next
  <2>1. pc[h] = "approved" /\ tok[h] = t /\ Start(h)
    BY <1>6 DEF Execute, LiveExecute
  <2>2. t \in card /\ runs[t] = 0 /\ who[h] = owner[t]
    BY <2>1, <1>t DEF IInv, ClickHasCard, HeldUnused, ApprovedByOwner, TypeOK
  <2>3. Verdict(t) = "open" /\ Verdict(t)' = "run"
    BY <2>1, <2>2, <1>t
    DEF IInv, CardIsRegistered, Start, Return, Verdict, IsOpen, Holds, TypeOK
  <2>4. \A u \in Tokens \ {t} : Verdict(u)' = Verdict(u)
    BY <2>1, <1>t DEF Start, Return, Verdict, IsOpen, Holds, TypeOK
  <2>5. \A u \in Tokens : Verdict(u)' = IF u = t THEN "run" ELSE Verdict(u)
    BY <2>3, <2>4
  <2>6. runs' = [runs EXCEPT ![t] = 1]
    BY <2>1, <2>2, <1>t DEF Start, TypeOK
  <2>7. executor' = [executor EXCEPT ![t] = owner[t]] /\ UNCHANGED owner
    BY <2>1, <2>2 DEF Start
  <2>8. Promise!Run(t)
    BY <2>3, <2>5, <2>6, <2>7 DEF Promise!Run
  <2> QED
    BY <2>8 DEF Promise!Next
<1>7. ASSUME NEW h \in Handlers, NEW t \in Tokens, t = tok[h],
             Cancel(h)
      PROVE  Promise!Next \/ UNCHANGED Promise!vars
  <2>1. t \in card
    BY <1>7, <1>t DEF IInv, ClickHasCard, Cancel, TypeOK
  <2>2. \A u \in Tokens \ {t} : Verdict(u)' = Verdict(u)
    BY <1>7, <1>t DEF Cancel, Return, Verdict, IsOpen, Holds, TypeOK
  <2>3. UNCHANGED <<owner, executor, runs>>
    BY <1>7 DEF Cancel
  <2>4. CASE t \in pending
    <3>1. Verdict(t) = "open" /\ Verdict(t)' = "void"
      BY <1>7, <1>t, <2>1, <2>4
      DEF IInv, CardIsRegistered, PendingUnused, HeldUnused, Cancel, Return,
          Verdict, IsOpen, Holds, TypeOK
    <3> QED
      BY <2>1, <2>2, <2>3, <3>1, VoidOne
  <2>5. CASE t \notin pending
    <3>1. Verdict(t)' = Verdict(t)
      BY <1>7, <1>t, <2>1, <2>5
      DEF Cancel, Return, Verdict, IsOpen, Holds, TypeOK
    <3> QED
      BY <2>2, <2>3, <3>1, Stutter
  <2> QED
    BY <2>4, <2>5
<1>8. CASE Tick
  <2>1. \A u \in Tokens : Verdict(u)' = Verdict(u)
    BY <1>8 DEF Tick, Verdict, IsOpen, Holds
  <2> QED
    BY <1>8, <2>1, Stutter DEF Tick
<1>9. CASE Crash
  <2> DEFINE S == {t \in Tokens : Verdict(t) = "open"}
  <2>1. \A t \in Tokens : Verdict(t)' = IF t \in S THEN "void" ELSE Verdict(t)
    BY <1>9, <1>t
    DEF IInv, AtMostOnce, CardIsRegistered, Crash, Verdict, IsOpen, Holds,
        TypeOK, Stages
  <2>2. Promise!Void(S)
    BY <1>9, <2>1 DEF Crash, Promise!Void
  <2> QED
    BY <2>2 DEF Promise!Next
<1>10. CASE UNCHANGED vars
  <2>1. \A u \in Tokens : Verdict(u)' = Verdict(u)
    BY <1>10 DEF vars, Verdict, IsOpen, Holds
  <2> QED
    BY <1>10, <2>1, Stutter DEF vars
<1>11. ASSUME NEW h \in Handlers, HandlerStep(h)
      PROVE  Promise!Next \/ UNCHANGED Promise!vars
  <2>1. pc[h] # "idle"
    BY <1>11
    DEF HandlerStep, Take, Gone, Refuse, Approve, Execute, LiveExecute,
        LiveCardFails, Cancel
  <2> QED
    BY <1>4, <1>5, <1>6, <1>7, <1>11, <1>h, <2>1 DEF HandlerStep
<1> QED
  BY <1>1, <1>2, <1>3, <1>4, <1>8, <1>9, <1>10, <1>11
  DEF Next, InitiatorStep

\* Every behaviour of the confirmation flow is one of Approval: a request is
\* decided once, run once at most, and run by its requester or by nobody.
THEOREM FlowImplementsApproval == Spec => ImplementsApproval
<1>1. Init => Promise!Init
  BY InitSimulates
<1>2. IInv /\ [Next]_vars => [Promise!Next]_(Promise!vars)
  BY NextSimulates
<1> QED
  BY <1>1, <1>2, Inductive, PTL DEF Spec, Promise!Spec, ImplementsApproval
=============================================================================
