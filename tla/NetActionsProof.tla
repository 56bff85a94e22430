--------------------------- MODULE NetActionsProof ---------------------------
(***************************************************************************)
(* Theorems about NetActions, for any number of clicks, bands and          *)
(* services, any names and any bound on the chains.                        *)
(***************************************************************************)
EXTENDS NetActions, TLAPS

\* Deleting a rule leaves a sequence of rules.
LEMMA WithoutFirstType ==
  ASSUME NEW chain \in Seq(Rules), NEW rule
  PROVE  WithoutFirst(rule, chain) \subseteq Seq(Rules)
<1> SUFFICES ASSUME NEW i \in DOMAIN chain
             PROVE  SubSeq(chain, 1, i - 1) \o SubSeq(chain, i + 1, Len(chain)) \in Seq(Rules)
  BY DEF WithoutFirst, First, Hits
<1>1. SubSeq(chain, 1, i - 1) \in Seq(Rules)
  OBVIOUS
<1>2. SubSeq(chain, i + 1, Len(chain)) \in Seq(Rules)
  OBVIOUS
<1> QED
  BY <1>1, <1>2

\* An inserted rule is the first of a sequence of rules.
LEMMA InsertType ==
  ASSUME NEW chain \in Seq(Rules), NEW rule \in Rules
  PROVE  /\ Insert(rule, chain) \in Seq(Rules)
         /\ Insert(rule, chain) # <<>>
         /\ Head(Insert(rule, chain)) = rule
BY DEF Insert

\* What is reported of a rush.
LEMMA ResultType ==
  ASSUME NEW action \in {"allow", "block"}, NEW ok \in BOOLEAN
  PROVE  Result(action, ok) \in [action : {"allow", "block"}, ok : BOOLEAN]
BY DEF Result

\* A further success adds its action to those that succeeded.
LEMMA SucceededGrows ==
  ASSUME NEW action, reports' = reports \union {Result(action, TRUE)}
  PROVE  Succeeded' = Succeeded \union {action}
<1>1. ASSUME NEW a \in Succeeded'
      PROVE  a \in Succeeded \union {action}
  <2>1. PICK r \in reports' : r.ok /\ a = r.action
    BY <1>1 DEF Succeeded
  <2> QED
    BY <2>1 DEF Succeeded, Result
<1>2. ASSUME NEW a \in Succeeded \union {action}
      PROVE  a \in Succeeded'
  <2>1. Result(action, TRUE).ok /\ Result(action, TRUE).action = action
    BY DEF Result
  <2> QED
    BY <1>2, <2>1 DEF Succeeded
<1> QED
  BY <1>1, <1>2

LEMMA InitType == Init => TypeOK
<1> SUFFICES ASSUME Init PROVE TypeOK
  OBVIOUS
<1>1. pc \in [Clicks -> {"idle", "allow", "block", "fallback"}]
  BY DEF Init
<1>2. input \in Seq(Rules) /\ forward \in Seq(Rules)
  BY DEF Init
<1> QED
  BY <1>1, <1>2 DEF Init, TypeOK

LEMMA NextType == TypeOK /\ [Next]_vars => TypeOK'
<1> SUFFICES ASSUME TypeOK, [Next]_vars
             PROVE  TypeOK'
  OBVIOUS
<1> USE DEF TypeOK, rules, system, Idle, Goto, Earlier
<1>1. ASSUME NEW c \in Clicks, AllowDelete(c)
      PROVE  TypeOK'
  <2>1. input' \in Seq(Rules)
    BY <1>1, WithoutFirstType DEF AllowDelete
  <2> QED
    BY <1>1, <2>1 DEF AllowDelete
<1>2. ASSUME NEW c \in Clicks, AllowInsert(c)
      PROVE  TypeOK'
  <2>1. input' \in Seq(Rules)
    BY <1>2, InsertType DEF AllowInsert, Rules
  <2> QED
    BY <1>2, <2>1, ResultType DEF AllowInsert
<1>3. ASSUME NEW c \in Clicks, BlockInput(c)
      PROVE  TypeOK'
  <2>1. input' \in Seq(Rules)
    BY <1>3, InsertType DEF BlockInput, Rules
  <2> QED
    BY <1>3, <2>1, ResultType DEF BlockInput
<1>4. ASSUME NEW c \in Clicks, BlockForward(c)
      PROVE  TypeOK'
  <2>1. forward' \in Seq(Rules)
    BY <1>4, InsertType DEF BlockForward, Rules
  <2> QED
    BY <1>4, <2>1, ResultType DEF BlockForward
<1>5. ASSUME NEW c \in Clicks, Ifup(c) \/ Fallback(c)
      PROVE  TypeOK'
  BY <1>5 DEF Ifup, Fallback
<1>6. ASSUME NEW c \in Clicks, Wifi(c)
      PROVE  TypeOK'
  BY <1>6 DEF Wifi
<1>7. ASSUME NEW c \in Clicks, NEW s \in Services, Service(c, s)
      PROVE  TypeOK'
  BY <1>7 DEF Service
<1>8. ASSUME NEW c \in Clicks, Reboot(c)
      PROVE  TypeOK'
  BY <1>8 DEF Reboot
<1>9. CASE RebootRuns
  <2>1. CASE UNCHANGED <<rules, system, pc, reports>>
    BY <1>9, <2>1 DEF RebootRuns
  <2>2. CASE /\ input' = <<>> /\ forward' = <<>> /\ reports' = {}
             /\ pc' = [d \in Clicks |-> "idle"]
    <3>1. input' \in Seq(Rules) /\ forward' \in Seq(Rules)
      BY <2>2
    <3>2. wan' \in BOOLEAN /\ radio' \in SUBSET Bands /\ running' \in SUBSET Services
      BY <1>9 DEF RebootRuns
    <3>3. rebooting' \in BOOLEAN
      BY <1>9 DEF RebootRuns
    <3> QED
      BY <2>2, <3>1, <3>2, <3>3
  <2> QED
    BY <1>9, <2>1, <2>2 DEF RebootRuns
<1>10. CASE Outside
  <2>1. input' \in Seq(Rules) /\ forward' \in Seq(Rules)
    <3>1. CASE UNCHANGED rules
      BY <3>1
    <3>2. CASE input' = <<>> /\ forward' = <<>>
      BY <3>2
    <3> QED
      BY <1>10, <3>1, <3>2 DEF Outside
  <2> QED
    BY <1>10, <2>1 DEF Outside
<1>11. CASE UNCHANGED vars
  BY <1>11 DEF vars
<1> QED
  BY <1>1, <1>2, <1>3, <1>4, <1>5, <1>6, <1>7, <1>8, <1>9, <1>10, <1>11 DEF Next, Firewall

\* The rules and interfaces keep their types, whatever fails and overlaps.
THEOREM TypeCorrect == Spec => []TypeOK
BY InitType, NextType, PTL DEF Spec

-----------------------------------------------------------------------------
Blocking == \E c \in Clicks : pc[c] = "block"
Allowing == \E c \in Clicks : pc[c] = "allow"

\* While no allow is between its commands, and none has failed, the first rule
\* is that of a block under way or of an action of the rush that has ended.
HeadOfRush ==
  ~Allowing /\ Result("allow", FALSE) \notin reports /\ (Succeeded # {} \/ Blocking)
    => /\ input # <<>>
       /\ \/ Blocking /\ Head(input) = "DROP"
          \/ \E r \in reports : Head(input) = RuleOf(r.action)

LEMMA HeadOfRushInit == Init => HeadOfRush
BY DEF Init, HeadOfRush, Succeeded, Blocking

LEMMA HeadOfRushNext == TypeOK /\ HeadOfRush /\ [Next]_vars => HeadOfRush'
<1> SUFFICES ASSUME TypeOK, HeadOfRush, [Next]_vars
             PROVE  HeadOfRush'
  OBVIOUS
<1> USE DEF TypeOK, Idle, Goto
<1>1. ASSUME NEW c \in Clicks, AllowDelete(c)
      PROVE  HeadOfRush'
  <2>1. Allowing'
    BY <1>1 DEF AllowDelete, Allowing
  <2> QED
    BY <2>1 DEF HeadOfRush
<1>2. ASSUME NEW c \in Clicks, AllowInsert(c)
      PROVE  HeadOfRush'
  <2>1. CASE reports' = reports \union {Result("allow", FALSE)}
    BY <2>1 DEF HeadOfRush
  <2>2. CASE /\ input' = Insert("ACCEPT", input)
             /\ reports' = reports \union {Result("allow", TRUE)}
    <3>1. Result("allow", TRUE) \in reports' /\ Result("allow", TRUE).action = "allow"
      BY <2>2 DEF Result
    <3>2. input' # <<>> /\ Head(input') = RuleOf("allow")
      BY <2>2, InsertType DEF RuleOf, Rules
    <3> QED
      BY <3>1, <3>2 DEF HeadOfRush
  <2> QED
    BY <1>2, <2>1, <2>2 DEF AllowInsert
<1>3. ASSUME NEW c \in Clicks, BlockInput(c)
      PROVE  HeadOfRush'
  <2>1. CASE input' = Insert("DROP", input) /\ pc' = [pc EXCEPT ![c] = "block"]
    <3>1. input' # <<>> /\ Head(input') = "DROP"
      BY <2>1, InsertType DEF Rules
    <3>2. Blocking'
      BY <2>1 DEF Blocking
    <3> QED
      BY <3>1, <3>2 DEF HeadOfRush
  <2>2. CASE /\ input' \in {input, Insert("DROP", input)}
             /\ reports' = Earlier \union {Result("block", FALSE)}
             /\ UNCHANGED pc
    <3>1. CASE Calm
      <4>1. Succeeded' = {} /\ ~Blocking'
        BY <2>2, <3>1 DEF Succeeded, Earlier, Result, Calm, Blocking
      <4> QED
        BY <4>1 DEF HeadOfRush
    <3>2. CASE ~Calm
      <4>1. Succeeded' = Succeeded /\ Blocking' = Blocking /\ Allowing' = Allowing
        BY <2>2, <3>2 DEF Succeeded, Earlier, Result, Blocking, Allowing
      <4>2. reports' = reports \union {Result("block", FALSE)}
        BY <2>2, <3>2 DEF Earlier
      <4>3. CASE input' = input
        BY <4>1, <4>2, <4>3 DEF HeadOfRush
      <4>4. CASE input' = Insert("DROP", input)
        <5>1. input' # <<>> /\ Head(input') = "DROP"
          BY <4>4, InsertType DEF Rules
        <5>2. RuleOf(Result("block", FALSE).action) = "DROP"
          BY DEF Result, RuleOf
        <5> QED
          BY <4>2, <5>1, <5>2 DEF HeadOfRush
      <4> QED
        BY <2>2, <4>3, <4>4
    <3> QED
      BY <3>1, <3>2
  <2> QED
    BY <1>3, <2>1, <2>2 DEF BlockInput
<1>4. ASSUME NEW c \in Clicks, BlockForward(c)
      PROVE  HeadOfRush'
  <2>1. Blocking /\ (Allowing' = Allowing) /\ input' = input
    BY <1>4 DEF BlockForward, Blocking, Allowing
  <2>2. reports' = reports \union {Result("block", TRUE)}
    BY <1>4 DEF BlockForward
  <2>3. Succeeded' = Succeeded \union {"block"}
    BY <2>2, SucceededGrows
  <2>4. RuleOf(Result("block", TRUE).action) = "DROP"
    BY DEF RuleOf, Result
  <2> QED
    BY <2>1, <2>2, <2>3, <2>4 DEF HeadOfRush
<1>5. ASSUME UNCHANGED <<input, reports>>,
             \A c \in Clicks : pc'[c] = "allow" <=> pc[c] = "allow",
             \A c \in Clicks : pc'[c] = "block" <=> pc[c] = "block"
      PROVE  HeadOfRush'
  <2>1. Blocking' = Blocking /\ Allowing' = Allowing /\ Succeeded' = Succeeded
    BY <1>5 DEF Blocking, Allowing, Succeeded
  <2> QED
    BY <1>5, <2>1 DEF HeadOfRush
<1>6. ASSUME NEW c \in Clicks,
             Ifup(c) \/ Fallback(c) \/ Wifi(c) \/ Reboot(c) \/ \E s \in Services : Service(c, s)
      PROVE  HeadOfRush'
  BY <1>5, <1>6 DEF Ifup, Fallback, Wifi, Reboot, Service, rules, system
<1>7. ASSUME reports' = {}, ~Blocking'
      PROVE  HeadOfRush'
  BY <1>7 DEF HeadOfRush, Succeeded
<1>8. CASE RebootRuns
  BY <1>5, <1>7, <1>8 DEF RebootRuns, rules, Blocking
<1>9. CASE Outside
  BY <1>5, <1>7, <1>9 DEF Outside, rules, Blocking, Calm
<1>10. CASE UNCHANGED vars
  BY <1>5, <1>10 DEF vars, rules
<1> QED
  BY <1>1, <1>2, <1>3, <1>4, <1>6, <1>8, <1>9, <1>10 DEF Next, Firewall

LEMMA HeadOfRushSuffices == HeadOfRush => InputFollowsReport
<1> SUFFICES ASSUME HeadOfRush, Calm, Succeeded # {}, Result("allow", FALSE) \notin reports
             PROVE  input # <<>> /\ \E r \in reports : Head(input) = RuleOf(r.action)
  BY DEF InputFollowsReport
<1>1. ~Blocking /\ ~Allowing
  BY DEF Calm, Blocking, Allowing
<1> QED
  BY <1>1 DEF HeadOfRush

\* However many /fw actions overlap or fail half way, if one of a rush succeeds
\* and no allow fails, the router treats the address as one of them asks.
THEOREM ReportIsTrue == Spec => []InputFollowsReport
<1>1. Init => TypeOK /\ HeadOfRush
  BY InitType, HeadOfRushInit
<1>2. TypeOK /\ HeadOfRush /\ [Next]_vars => (TypeOK /\ HeadOfRush)'
  BY NextType, HeadOfRushNext
<1> QED
  BY <1>1, <1>2, HeadOfRushSuffices, PTL DEF Spec
=============================================================================
