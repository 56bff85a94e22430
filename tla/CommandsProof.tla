--------------------------- MODULE CommandsProof ---------------------------
(***************************************************************************)
(* Theorems about the limiter, the access token, and the commands that     *)
(* share them, for any requests, users and bounds: the rate limit holds    *)
(* for every window; a token outlives the requests it is used for, from    *)
(* two inequalities: the margin of refresh (60 s) and the life of a token  *)
(* are at least two HTTP timeouts (10 s); the commands implement both; and *)
(* a live card says in the end what the process has written and how it     *)
(* ended.                                                                  *)
(***************************************************************************)
EXTENDS Commands, FiniteSetTheorems, TLAPS

-----------------------------------------------------------------------------
(* The limiter.  It only remembers what its buckets hold.  The invariant   *)
(* says what they may have forgotten: grants that no window ending now or  *)
(* later can contain.                                                      *)

BucketsGranted == \A u \in Users : buckets[u] \subseteq granted[u]

\* A grant that a bucket no longer holds is at least a window old.
ForgottenIsOld == \A u \in Users : \A g \in granted[u] :
  g \notin buckets[u] => g.at <= now - Window

GrantsPast == \A u \in Users : \A g \in granted[u] : g.at <= now

\* Numbers tell the grants to a user apart.
GrantsNumbered == \A u \in Users :
  /\ IsFiniteSet(granted[u])
  /\ \A g \in granted[u] : g.n < Cardinality(granted[u])

RefusedPast == \A u \in Users : refusedAt[u] <= now

IInv == /\ TypeOK
        /\ BucketsGranted
        /\ ForgottenIsOld
        /\ GrantsPast
        /\ GrantsNumbered
        /\ RefusedPast
        /\ NeverAboveLimit
        /\ RefusedOnlyAtLimit

LEMMA LimitPositive == Limit \in Nat \ {0}
  BY LimitAssumption DEF Limit

\* The fresh part of a bucket is exactly what the window ending now contains.
LEMMA FreshIsWindow ==
  ASSUME TypeOK, BucketsGranted, ForgottenIsOld, GrantsPast, NEW u \in Users
  PROVE  Fresh(u) = InWindow(u, now)
<1>1. \A g \in granted[u] : g.at \in Int
  BY DEF TypeOK, Grants
<1>2. now \in Int /\ Window \in Int
  BY WindowAssumption DEF TypeOK
<1> QED
  BY <1>1, <1>2
  DEF BucketsGranted, ForgottenIsOld, GrantsPast, Fresh, InWindow

LEMMA WindowFinite ==
  ASSUME GrantsNumbered, NEW u \in Users, NEW x \in Int
  PROVE  /\ IsFiniteSet(InWindow(u, x))
         /\ Cardinality(InWindow(u, x)) \in Nat
<1>1. InWindow(u, x) \subseteq granted[u] /\ IsFiniteSet(granted[u])
  BY DEF InWindow, GrantsNumbered
<1> QED
  BY <1>1, FS_Subset, FS_CardinalityType

\* A window that ends after a grant has been given loses nothing by pruning.
LEMMA LaterWindows ==
  ASSUME TypeOK, GrantsPast, NEW u \in Users, NEW x \in Int, x >= now
  PROVE  InWindow(u, x) \subseteq InWindow(u, now)
<1>1. \A g \in granted[u] : g.at \in Int
  BY DEF TypeOK, Grants
<1> QED
  BY <1>1, WindowAssumption DEF TypeOK, GrantsPast, InWindow

LEMMA InitIInv == Init => IInv
<1> SUFFICES ASSUME Init PROVE IInv
  OBVIOUS
<1>1. \A u \in Users, x \in 0 .. MaxTime : InWindow(u, x) = {}
  BY DEF Init, InWindow
<1>2. NeverAboveLimit
  BY <1>1, FS_EmptySet, LimitPositive DEF NeverAboveLimit
<1>3. GrantsNumbered
  BY FS_EmptySet DEF Init, GrantsNumbered
<1> QED
  BY <1>2, <1>3, WindowAssumption
  DEF Init, IInv, TypeOK, BucketsGranted, ForgottenIsOld, GrantsPast,
      RefusedPast, RefusedOnlyAtLimit, Never

LEMMA GrantIInv ==
  ASSUME IInv, NEW u \in Users, Grant(u)
  PROVE  IInv'
<1> USE WindowAssumption DEF IInv
<1> DEFINE g == [at |-> now, n |-> Cardinality(granted[u])]
<1>1. /\ UNCHANGED <<now, refusedAt>>
      /\ buckets' = [buckets EXCEPT ![u] = Fresh(u) \union {g}]
      /\ granted' = [granted EXCEPT ![u] = granted[u] \union {g}]
  BY DEF Grant
<1>2. /\ IsFiniteSet(granted[u])
      /\ Cardinality(granted[u]) \in Nat
      /\ g \in Grants
      /\ g \notin granted[u]
  <2>1. Cardinality(granted[u]) \in Nat
    BY FS_CardinalityType DEF GrantsNumbered
  <2> QED
    BY <2>1 DEF GrantsNumbered, TypeOK, Grants
<1>3. /\ IsFiniteSet(granted[u] \union {g})
      /\ Cardinality(granted[u] \union {g}) = Cardinality(granted[u]) + 1
  BY <1>2, FS_AddElement
<1>4. TypeOK'
  BY <1>1, <1>2 DEF TypeOK, Fresh
<1>5. BucketsGranted' /\ ForgottenIsOld' /\ GrantsPast' /\ RefusedPast'
  <2>1. \A h \in granted[u] : h.at \in Int
    BY DEF TypeOK, Grants
  <2> QED
    BY <1>1, <1>2, <2>1
    DEF TypeOK, BucketsGranted, ForgottenIsOld, GrantsPast, RefusedPast, Fresh
<1>6. GrantsNumbered'
  <2>1. \A h \in granted[u] : h.n \in Nat /\ h.n < Cardinality(granted[u])
    BY DEF TypeOK, Grants, GrantsNumbered
  <2>2. Cardinality(granted[u]) \in Nat
    BY <1>2
  <2>3. \A h \in granted[u] \union {g} : h.n < Cardinality(granted[u] \union {g})
    BY <1>3, <2>1, <2>2
  <2>4. granted'[u] = granted[u] \union {g}
        /\ \A v \in Users \ {u} : granted'[v] = granted[v]
    BY <1>1 DEF TypeOK
  <2> QED
    BY <1>3, <2>3, <2>4 DEF GrantsNumbered
<1>7. \A v \in Users \ {u}, x \in Int : InWindow(v, x)' = InWindow(v, x)
  BY <1>1 DEF InWindow, TypeOK
<1>8. \A x \in Int :
        InWindow(u, x)' = IF x - Window < now /\ now <= x
                          THEN InWindow(u, x) \union {g} ELSE InWindow(u, x)
  BY <1>1 DEF InWindow, TypeOK
<1>9. ASSUME NEW x \in 0 .. MaxTime
      PROVE  /\ Cardinality(InWindow(u, x)) \in Nat
             /\ Cardinality(InWindow(u, x)') \in Nat
             /\ Cardinality(InWindow(u, x)') <= Limit
             /\ Cardinality(InWindow(u, x)') >= Cardinality(InWindow(u, x))
  <2>1. /\ IsFiniteSet(InWindow(u, x))
        /\ Cardinality(InWindow(u, x)) \in Nat
        /\ g \notin InWindow(u, x)
    BY <1>2, WindowFinite DEF InWindow
  <2>2. Cardinality(InWindow(u, x)) <= Limit
    BY DEF NeverAboveLimit
  <2>3. CASE x - Window < now /\ now <= x
    <3>1. InWindow(u, x) \subseteq InWindow(u, now) /\ now \in Int
      BY <2>3, LaterWindows DEF TypeOK
    <3>2. IsFiniteSet(InWindow(u, now)) /\ Cardinality(InWindow(u, now)) < Limit
      BY <3>1, FreshIsWindow, WindowFinite DEF Grant
    <3>3. /\ Cardinality(InWindow(u, x)) <= Cardinality(InWindow(u, now))
          /\ Cardinality(InWindow(u, now)) \in Nat
      BY <3>1, <3>2, FS_Subset, FS_CardinalityType
    <3>4. Cardinality(InWindow(u, x) \union {g}) = Cardinality(InWindow(u, x)) + 1
      BY <2>1, FS_AddElement
    <3>5. InWindow(u, x)' = InWindow(u, x) \union {g}
      BY <1>8, <2>3
    <3> QED
      BY <2>1, <3>2, <3>3, <3>4, <3>5, LimitPositive
  <2>4. CASE ~(x - Window < now /\ now <= x)
    <3>1. InWindow(u, x)' = InWindow(u, x)
      BY <1>8, <2>4
    <3> QED
      BY <2>1, <2>2, <3>1
  <2> QED
    BY <2>3, <2>4
<1>10. NeverAboveLimit'
  BY <1>7, <1>9 DEF NeverAboveLimit
<1>11. RefusedOnlyAtLimit'
  <2> SUFFICES ASSUME NEW v \in Users, refusedAt[v] # Never,
                      NEW x \in 0 .. MaxTime, x = refusedAt[v]
               PROVE  Cardinality(InWindow(v, x)') >= Limit
    BY <1>1 DEF RefusedOnlyAtLimit, InWindow, TypeOK
  <2>1. Cardinality(InWindow(v, x)) >= Limit
    BY DEF RefusedOnlyAtLimit
  <2>2. CASE v = u
    BY <1>9, <2>1, <2>2, LimitPositive
  <2>3. CASE v # u
    BY <1>7, <2>1, <2>3
  <2> QED
    BY <2>2, <2>3
<1> QED
  BY <1>4, <1>5, <1>6, <1>10, <1>11

LEMMA RefuseIInv ==
  ASSUME IInv, NEW u \in Users, Refuse(u)
  PROVE  IInv'
<1> USE WindowAssumption DEF IInv
<1>1. /\ UNCHANGED <<now, granted>>
      /\ buckets' = [buckets EXCEPT ![u] = Fresh(u)]
      /\ refusedAt' = [refusedAt EXCEPT ![u] = now]
  BY DEF Refuse
<1>2. TypeOK' /\ GrantsPast' /\ GrantsNumbered' /\ RefusedPast'
  BY <1>1 DEF TypeOK, GrantsPast, GrantsNumbered, RefusedPast, Fresh
<1>3. BucketsGranted' /\ ForgottenIsOld'
  <2>1. \A g \in granted[u] : g.at \in Int
    BY DEF TypeOK, Grants
  <2> QED
    BY <1>1, <2>1 DEF TypeOK, BucketsGranted, ForgottenIsOld, Fresh
<1>4. \A v \in Users, x \in Int : InWindow(v, x)' = InWindow(v, x)
  BY <1>1 DEF InWindow
<1>5. NeverAboveLimit'
  BY <1>4 DEF NeverAboveLimit
<1>6. RefusedOnlyAtLimit'
  <2>1. Cardinality(InWindow(u, now)) >= Limit
    BY FreshIsWindow DEF Refuse
  <2>3. \A v \in Users : InWindow(v, refusedAt[v])' = InWindow(v, refusedAt'[v])
    BY <1>1 DEF InWindow
  <2>4. refusedAt'[u] = now /\ \A v \in Users \ {u} : refusedAt'[v] = refusedAt[v]
    BY <1>1 DEF TypeOK
  <2> QED
    BY <2>1, <2>3, <2>4 DEF RefusedOnlyAtLimit
<1> QED
  BY <1>2, <1>3, <1>5, <1>6

LEMMA NextIInv == IInv /\ [Next]_vars => IInv'
<1> SUFFICES ASSUME IInv, [Next]_vars PROVE IInv'
  OBVIOUS
<1> USE WindowAssumption
<1>1. CASE Tick
  <2>1. /\ now \in Nat /\ now' = now + 1 /\ now' \in 0 .. MaxTime
        /\ UNCHANGED <<buckets, granted, refusedAt>>
    BY <1>1 DEF Tick, IInv, TypeOK
  <2>2. \A u \in Users : \A g \in granted[u] : g.at \in Int
    BY DEF IInv, TypeOK, Grants
  <2>3. \A u \in Users : refusedAt[u] \in Int
    BY DEF IInv, TypeOK, Never
  <2>4. NeverAboveLimit' /\ RefusedOnlyAtLimit'
    BY <2>1 DEF IInv, NeverAboveLimit, RefusedOnlyAtLimit, InWindow
  <2> QED
    BY <2>1, <2>2, <2>3, <2>4
    DEF IInv, TypeOK, BucketsGranted, ForgottenIsOld, GrantsPast,
        GrantsNumbered, RefusedPast
<1>2. CASE UNCHANGED vars
  BY <1>2
  DEF vars, IInv, TypeOK, BucketsGranted, ForgottenIsOld, GrantsPast,
      GrantsNumbered, RefusedPast, NeverAboveLimit, RefusedOnlyAtLimit, InWindow
<1> QED
  BY <1>1, <1>2, GrantIInv, RefuseIInv DEF Next

THEOREM Inductive == Spec => []IInv
<1>1. Init => IInv
  BY InitIInv
<1>2. IInv /\ [Next]_vars => IInv'
  BY NextIInv
<1> QED
  BY <1>1, <1>2, PTL DEF Spec

\* Allow never lets a user above the configured rate, in any window.
THEOREM RateLimited == Spec => []NeverAboveLimit
<1>1. IInv => NeverAboveLimit
  BY DEF IInv
<1> QED
  BY <1>1, Inductive, PTL

\* Allow refuses a user only when the window that ends then is full.
THEOREM RefusalJustified == Spec => []RefusedOnlyAtLimit
<1>1. IInv => RefusedOnlyAtLimit
  BY DEF IInv
<1> QED
  BY <1>1, Inductive, PTL

-----------------------------------------------------------------------------
(* The access token.                                                       *)

\* Only the holder of the write lock asks for a token.
AskerHoldsLock == \A c \in Callers : stage[c] = "auth" => lock = c

\* Feishu has counted the life of the cached token for at most one request
\* longer than the program.
CacheIsClose == left > 0 => real + Timeout >= left

\* A token that was taken outlives the request it was taken for.
RequestCovered == \A c \in Callers :
  stage[c] = "http" => usable[c] + waited[c] >= Timeout

CInv == /\ ClientTypeOK
        /\ AskerHoldsLock
        /\ CacheIsClose
        /\ RequestCovered
        /\ AskedOnlyWhenDue

LEMMA ClientInitInv == ClientInit => CInv
BY TimeAssumption
DEF ClientInit, CInv, ClientTypeOK, AskerHoldsLock, CacheIsClose, RequestCovered,
    AskedOnlyWhenDue, Gone

\* Taking a token that lasts long enough and sending the request with it.
LEMMA PostInv ==
  ASSUME ClientTypeOK, RequestCovered, NEW c \in Callers, NEW valid \in Nat,
         valid >= Timeout, Post(c, valid)
  PROVE  /\ stage' \in [Callers -> {"none", "get", "lock", "auth", "http"}]
         /\ waited' \in [Callers -> 0 .. Timeout]
         /\ usable' \in [Callers -> Nat \union {Gone}]
         /\ RequestCovered'
         /\ stage'[c] = "http"
         /\ \A d \in Callers \ {c} : stage'[d] = stage[d]
BY TimeAssumption DEF ClientTypeOK, RequestCovered, Post

\* A cached token that is not due is good for a request.
LEMMA CachedIsGood ==
  ASSUME ClientTypeOK, CacheIsClose, Lasting
  PROVE  real \in Nat /\ real >= Timeout
BY TimeAssumption DEF ClientTypeOK, CacheIsClose, Lasting, Gone

LEMMA ClientNextInv == CInv /\ [ClientNext]_clientVars => CInv'
<1> SUFFICES ASSUME CInv, [ClientNext]_clientVars
             PROVE  CInv'
  OBVIOUS
<1> USE TimeAssumption, CallerAssumption
<1> USE DEF CInv, cache, calls
<1>1. ASSUME NEW c \in Callers, Begin(c)
      PROVE  CInv'
  BY <1>1
  DEF Begin, ClientTypeOK, AskerHoldsLock, CacheIsClose, RequestCovered, AskedOnlyWhenDue
<1>2. ASSUME NEW c \in Callers, GetCached(c)
      PROVE  CInv'
  <2>1. CASE Lasting
    <3>1. Post(c, real) /\ UNCHANGED <<left, real, lock>>
      BY <1>2, <2>1 DEF GetCached
    <3> QED
      BY <2>1, <3>1, CachedIsGood, PostInv
      DEF ClientTypeOK, AskerHoldsLock, CacheIsClose, AskedOnlyWhenDue
  <2>2. CASE ~Lasting
    BY <1>2, <2>2
    DEF GetCached, ClientTypeOK, AskerHoldsLock, CacheIsClose, RequestCovered,
        AskedOnlyWhenDue
  <2> QED
    BY <2>1, <2>2
<1>3. ASSUME NEW c \in Callers, Refresh(c)
      PROVE  CInv'
  <2>1. CASE Lasting
    <3>1. Post(c, real) /\ UNCHANGED <<left, real, lock>>
      BY <1>3, <2>1 DEF Refresh
    <3> QED
      BY <2>1, <3>1, CachedIsGood, PostInv
      DEF ClientTypeOK, AskerHoldsLock, CacheIsClose, AskedOnlyWhenDue
  <2>2. CASE ~Lasting
    <3>1. \A d \in Callers : stage[d] # "auth"
      BY <1>3 DEF Refresh, AskerHoldsLock
    <3>2. left <= Margin
      BY <2>2 DEF Lasting, ClientTypeOK
    <3> QED
      BY <1>3, <2>2, <3>1, <3>2
      DEF Refresh, ClientTypeOK, AskerHoldsLock, CacheIsClose, RequestCovered,
          AskedOnlyWhenDue
  <2> QED
    BY <2>1, <2>2
<1>4. ASSUME NEW c \in Callers, Granted(c)
      PROVE  CInv'
  <2>1. PICK life \in Lives, ago \in 0 .. waited[c] :
          left' = life /\ real' = life - ago /\ Post(c, life - ago)
    BY <1>4 DEF Granted
  <2>2. /\ life \in Nat /\ life >= 2 * Timeout
        /\ ago \in Nat /\ ago <= Timeout
    BY <2>1, LivesAssumption DEF ClientTypeOK
  <2>3. life - ago \in Nat /\ life - ago >= Timeout
    BY <2>2
  <2>4. \A d \in Callers \ {c} : stage[d] # "auth"
    BY <1>4 DEF Granted, AskerHoldsLock
  <2>5. lock' = "free"
    BY <1>4 DEF Granted
  <2>6. \A d \in Callers : stage'[d] # "auth"
    BY <2>1, <2>3, <2>4, PostInv
  <2>7. ClientTypeOK' /\ RequestCovered'
    BY <2>1, <2>2, <2>3, <2>5, PostInv DEF ClientTypeOK
  <2>8. CacheIsClose'
    BY <2>1, <2>2 DEF CacheIsClose
  <2> QED
    BY <2>6, <2>7, <2>8 DEF AskerHoldsLock, AskedOnlyWhenDue
<1>5. ASSUME NEW c \in Callers, Denied(c)
      PROVE  CInv'
  <2>1. \A d \in Callers \ {c} : stage[d] # "auth"
    BY <1>5 DEF Denied, AskerHoldsLock
  <2> QED
    BY <1>5, <2>1
    DEF Denied, Return, ClientTypeOK, AskerHoldsLock, CacheIsClose, RequestCovered,
        AskedOnlyWhenDue
<1>6. ASSUME NEW c \in Callers, Answered(c)
      PROVE  CInv'
  BY <1>6
  DEF Answered, Return, ClientTypeOK, AskerHoldsLock, CacheIsClose, RequestCovered,
      AskedOnlyWhenDue
<1>7. CASE ClientTick
  <2>1. ClientTypeOK'
    BY <1>7 DEF ClientTick, ClientTypeOK, Less, Gone
  <2>2. AskerHoldsLock' /\ CacheIsClose' /\ AskedOnlyWhenDue'
    BY <1>7
    DEF ClientTick, ClientTypeOK, AskerHoldsLock, CacheIsClose, AskedOnlyWhenDue, Less, Gone
  <2>3. ASSUME NEW c \in Callers, stage'[c] = "http"
        PROVE  usable'[c] + waited'[c] >= Timeout
    <3>1. stage[c] = "http" /\ waited[c] < Timeout
      BY <1>7, <2>3 DEF ClientTick, UnderWay
    <3>2. waited'[c] = waited[c] + 1 /\ usable'[c] = Less(usable[c], Gone)
      BY <1>7, <3>1 DEF ClientTick, UnderWay
    <3> QED
      BY <3>1, <3>2 DEF RequestCovered, ClientTypeOK, Less, Gone
  <2> QED
    BY <2>1, <2>2, <2>3 DEF RequestCovered
<1>8. CASE UNCHANGED clientVars
  BY <1>8
  DEF clientVars, ClientTypeOK, AskerHoldsLock, CacheIsClose, RequestCovered,
      AskedOnlyWhenDue
<1> QED
  BY <1>1, <1>2, <1>3, <1>4, <1>5, <1>6, <1>7, <1>8 DEF ClientNext, GetToken

LEMMA CInvSuffices == CInv => NoExpiredToken
BY TimeAssumption DEF CInv, ClientTypeOK, RequestCovered, NoExpiredToken, Gone

LEMMA ClientInvariant == ClientSpec => []CInv
BY ClientInitInv, ClientNextInv, PTL DEF ClientSpec

\* The token, the lock and the calls keep the types the code gives them.
THEOREM ClientTypeCorrect == ClientSpec => []ClientTypeOK
<1>1. CInv => ClientTypeOK
  BY DEF CInv
<1> QED
  BY <1>1, ClientInvariant, PTL

\* No request is under way with a token Feishu has forgotten.
THEOREM TokenOutlivesRequest == ClientSpec => []NoExpiredToken
BY CInvSuffices, ClientInvariant, PTL

\* However many callers find the token due at once, one of them refreshes it.
THEOREM RefreshedOnce == ClientSpec => []AskedOnlyWhenDue
<1>1. CInv => AskedOnlyWhenDue
  BY DEF CInv
<1> QED
  BY <1>1, ClientInvariant, PTL

-----------------------------------------------------------------------------
(* The limiter and the token, used by handlers.                            *)

LEMMA LimiterStep == [CommandsNext]_commandVars => [Next]_vars
<1> SUFFICES ASSUME [CommandsNext]_commandVars PROVE [Next]_vars
  OBVIOUS
<1>1. ASSUME NEW r \in Requests, Handle(r)
      PROVE  [Next]_vars
  <2>1. Sender[r] \in Users
    BY RequestAssumption
  <2>2. CASE Admit(r) \/ TurnDown(r)
    BY <2>1, <2>2 DEF Admit, TurnDown, Next
  <2>3. CASE \/ Click(r) \/ RunEnds(r) \/ Freed(r) \/ Call(r)
             \/ ObtainToken(r) \/ CallEnds(r) \/ StartLive(r) \/ TakeLine(r) \/ ShowProgress(r) \/ EndStream(r)
    BY <2>3
    DEF Click, RunEnds, Freed, Call, ObtainToken, CallEnds, CallDenied, CallCarriedOut,
        CallRefused, StartLive, TakeLine, ShowProgress, EndStream
  <2> QED
    BY <1>1, <2>2, <2>3 DEF Handle
<1>2. ASSUME NEW r \in Requests, Scanning(r) \/ Outside(r)
      PROVE  [Next]_vars
  BY <1>2 DEF Scanning, Outside
<1>3. CASE Clock
  BY <1>3 DEF Clock, Next
<1>4. CASE UNCHANGED commandVars
  BY <1>4 DEF commandVars
<1> QED
  BY <1>1, <1>2, <1>3, <1>4 DEF CommandsNext

LEMMA ClientStep == [CommandsNext]_commandVars => [ClientNext]_clientVars
<1> SUFFICES ASSUME [CommandsNext]_commandVars PROVE [ClientNext]_clientVars
  OBVIOUS
<1>1. ASSUME NEW r \in Requests, Handle(r)
      PROVE  [ClientNext]_clientVars
  <2>1. r \in Callers
    BY RequestAssumption
  <2>2. CASE Call(r) \/ ObtainToken(r) \/ CallEnds(r)
    BY <2>1, <2>2
    DEF Call, ObtainToken, CallEnds, CallDenied, CallCarriedOut, CallRefused, ClientNext
  <2>3. CASE \/ Admit(r) \/ TurnDown(r) \/ Click(r) \/ RunEnds(r) \/ Freed(r)
             \/ StartLive(r) \/ TakeLine(r) \/ ShowProgress(r) \/ EndStream(r)
    BY <2>3
    DEF Admit, TurnDown, Click, RunEnds, Freed, StartLive, TakeLine, ShowProgress, EndStream,
        Still
  <2> QED
    BY <1>1, <2>2, <2>3 DEF Handle
<1>2. ASSUME NEW r \in Requests, Scanning(r) \/ Outside(r)
      PROVE  [ClientNext]_clientVars
  BY <1>2 DEF Scanning, Outside
<1>3. CASE Clock
  BY <1>3 DEF Clock, ClientNext
<1>4. CASE UNCHANGED commandVars
  BY <1>4 DEF commandVars
<1> QED
  BY <1>1, <1>2, <1>3, <1>4 DEF CommandsNext

\* Whatever handlers do, the limiter they share behaves as module Limiter says.
THEOREM LimiterOfCommands == CommandsSpec => Spec
<1>1. CommandsInit => Init
  BY DEF CommandsInit
<1> QED
  BY <1>1, LimiterStep, PTL DEF CommandsSpec, Spec

\* Whatever handlers do, the token they share behaves as module Client says.
THEOREM ClientOfCommands == CommandsSpec => ClientSpec
<1>1. CommandsInit => ClientInit
  BY DEF CommandsInit
<1> QED
  BY <1>1, ClientStep, PTL DEF CommandsSpec, ClientSpec

\* The handlers of a user get no more commands through than the limit, and none
\* is turned down below it.
THEOREM CommandsRateLimited == CommandsSpec => [](NeverAboveLimit /\ RefusedOnlyAtLimit)
BY LimiterOfCommands, RateLimited, RefusalJustified, PTL

\* No handler, however many there are, sends a request with an expired token or
\* refreshes one that another handler has just refreshed.
THEOREM CommandsShareToken == CommandsSpec => [](NoExpiredToken /\ AskedOnlyWhenDue)
BY ClientOfCommands, TokenOutlivesRequest, RefreshedOnce, PTL

-----------------------------------------------------------------------------
(* A live command from the pipe to the card.                               *)

HandlersTyped ==
  /\ cmd \in [Requests -> Commands]
  /\ pc \in [Requests -> CallSites \union {"sent", "unsent", "run", "held",
                                               "start", "stream", "done"}]
  /\ stage \in [Requests -> {"none", "get", "lock", "auth", "http"}]
  /\ failed \in [Requests -> SUBSET CallSites]
  /\ shown \in [Requests -> SUBSET {"card", "text"}]
  /\ card \in [Requests -> [lines : SUBSET Nat, head : {"none", "running", "ok", "failed"}]]
  /\ text \in [Requests -> Nat]
  /\ proc \in [Requests -> {"none", "running", "zero", "nonzero"}]
  /\ kept \subseteq Requests
  /\ written \in [Requests -> 0 .. MaxLines]
  /\ scanned \in [Requests -> Nat]
  /\ queued \in [Requests -> 0 .. QueueCap]
  /\ scanner \in [Requests -> {"none", "scan", "closed"}]
  /\ errc \in [Requests -> {"none", "nil", "error"}]
  /\ timedOut \subseteq Requests

\* A handler makes calls where it says so, and runs a process only between its
\* first card and its last.
Flow(r) ==
  /\ stage[r] # "none" => pc[r] \in CallSites
  /\ scanner[r] # "none" => pc[r] \in {"stream", "progress", "final", "done"}
  /\ pc[r] \in {"stream", "progress"} => scanner[r] # "none"
  /\ pc[r] \in {"start", "stream", "progress", "final"} =>
       cmd[r] \in Live /\ "card" \in shown[r]
  /\ pc[r] = "final" => Drained(r) \/ scanner[r] = "none"

\* Nothing is scanned before the process starts or written after its pipe is
\* closed, and no line is lost on the way to the text unless time ran out.
Output(r) ==
  /\ scanner[r] = "none" =>
       /\ proc[r] = "none" /\ r \notin kept /\ r \notin timedOut
       /\ written[r] = 0 /\ scanned[r] = 0
  /\ scanner[r] # "closed" <=> errc[r] = "none"
  /\ scanner[r] = "closed" =>
       proc[r] # "running" /\ r \notin kept /\ scanned[r] = written[r]
  /\ scanned[r] <= written[r]
  /\ text[r] + queued[r] <= scanned[r]
  /\ r \notin timedOut => text[r] + queued[r] = scanned[r]

\* The result of Wait is that of the process.
Result(r) ==
  /\ errc[r] = "nil" => proc[r] = "zero"
  /\ errc[r] = "error" => proc[r] # "zero" \/ r \in timedOut

\* The last card is made when all is over.
LastCard(r) ==
  /\ card[r].lines \subseteq 1 .. text[r]
  /\ card[r].head \in {"ok", "failed"} =>
       /\ pc[r] = "done"
       /\ Drained(r) \/ scanner[r] = "none"
       /\ card[r].lines = {i \in 1 .. text[r] : i > text[r] - CardLines}
       /\ card[r].head = "ok" <=> errc[r] = "nil"

\* A handler with a fallback has shown a card, or will send or has tried a text.
Answering(r) ==
  pc[r] = "done" /\ cmd[r] \in HasFallback /\ shown[r] = {} => "text" \in failed[r]

Sound(r) == Flow(r) /\ Output(r) /\ Result(r) /\ LastCard(r) /\ Answering(r)

HInv == HandlersTyped /\ \A r \in Requests : Sound(r)

LEMMA InitHInv == CommandsInit => HInv
<1> SUFFICES ASSUME CommandsInit PROVE HInv
  OBVIOUS
<1> USE RequestAssumption, QueueAssumption
<1>1. HandlersTyped
  BY DEF CommandsInit, ClientInit, StreamInit, HandlersTyped, NoCard
<1>2. ASSUME NEW r \in Requests PROVE Sound(r)
  BY DEF CommandsInit, ClientInit, StreamInit, NoCard, Sound, Flow, Output, Result,
     LastCard, Answering, CallSites
<1> QED
  BY <1>1, <1>2 DEF HInv

\* What another request's step does not touch.
LEMMA OthersSound ==
  ASSUME NEW r, Sound(r),
         /\ cmd'[r] = cmd[r] /\ pc'[r] = pc[r] /\ stage'[r] = stage[r]
         /\ failed'[r] = failed[r] /\ shown'[r] = shown[r] /\ card'[r] = card[r]
         /\ text'[r] = text[r] /\ proc'[r] = proc[r] /\ written'[r] = written[r]
         /\ scanned'[r] = scanned[r] /\ queued'[r] = queued[r]
         /\ scanner'[r] = scanner[r] /\ errc'[r] = errc[r],
         r \in kept' <=> r \in kept, r \in timedOut' <=> r \in timedOut
  PROVE  Sound(r)'
BY DEF Sound, Flow, Output, Result, LastCard, Answering, Drained

\* Where a handler begins, and where it goes after a call.
LEMMA StartsAt ==
  ASSUME NEW r, pc' = [pc EXCEPT ![r] = HandlerStart(r)]
  PROVE  \E p \in {"run", "text", "card"} : pc' = [pc EXCEPT ![r] = p]
BY DEF HandlerStart

LEMMA GoesOn ==
  ASSUME NEW r, NEW ok \in BOOLEAN, Proceeds(r, ok)
  PROVE  \E p \in {"stream", "start", "text", "done"} :
           /\ pc' = [pc EXCEPT ![r] = p]
           /\ p = "stream" <=> pc[r] = "progress"
           /\ p = "text" => pc[r] = "card"
           /\ p = "start" => pc[r] = "card" /\ ok /\ cmd[r] \in Live
           /\ p = "done" /\ cmd[r] \in HasFallback => ok \/ pc[r] # "card"
<1>1. CASE pc[r] = "progress"
  BY <1>1 DEF Proceeds, Goto
<1>2. CASE pc[r] = "card" /\ ok /\ cmd[r] \in Live
  BY <1>2 DEF Proceeds, Goto
<1>3. CASE pc[r] = "card" /\ ~ok /\ cmd[r] \in HasFallback
  BY <1>3 DEF Proceeds, Goto
<1>4. CASE /\ pc[r] # "progress"
           /\ ~(pc[r] = "card" /\ ok /\ cmd[r] \in Live)
           /\ ~(pc[r] = "card" /\ ~ok /\ cmd[r] \in HasFallback)
  BY <1>4 DEF Proceeds, Goto
<1> QED
  BY <1>1, <1>2, <1>3, <1>4

\* A handler goes from pc[r] to another place, and nothing but pc, stage, failed
\* and shown changes.
LEMMA MoveSound ==
  ASSUME NEW r, Sound(r), pc[r] # "done", stage'[r] = "none",
         UNCHANGED <<streamVars, cmd, card, text>>, shown[r] \subseteq shown'[r],
         scanner[r] # "none" => pc'[r] \in {"stream", "progress", "final", "done"},
         pc'[r] \in {"stream", "progress"} => scanner[r] # "none",
         pc'[r] \in {"start", "stream", "progress", "final"} =>
           cmd[r] \in Live /\ "card" \in shown'[r],
         pc'[r] = "final" => Drained(r) \/ scanner[r] = "none",
         Answering(r)'
  PROVE  Sound(r)'
<1> USE DEF streamVars, process
<1>1. Flow(r)'
  BY DEF Flow, Drained
<1>2. Output(r)' /\ Result(r)'
  BY DEF Sound, Output, Result
<1>3. LastCard(r)'
  BY DEF Sound, LastCard
<1> QED
  BY <1>1, <1>2, <1>3 DEF Sound

LEMMA NextHInv == HInv /\ [CommandsNext]_commandVars => HInv'
<1> SUFFICES ASSUME HInv, [CommandsNext]_commandVars PROVE HInv'
  OBVIOUS
<1> USE RequestAssumption, QueueAssumption
<1> USE DEF HInv, clientVars, cache, calls, streamVars, process, handlers
<1>1. ASSUME NEW r \in Requests, Admit(r)
      PROVE  HInv'
  <2>1. PICK p \in {"run", "text", "card"} : pc' = [pc EXCEPT ![r] = p]
    BY <1>1, StartsAt DEF Admit, Goto
  <2>2. HandlersTyped'
    BY <1>1, <2>1 DEF Admit, Still, HandlersTyped, CallSites
  <2>3. Sound(r)'
    <3>a. pc[r] = "sent" /\ pc'[r] = p /\ stage' = stage
      BY <1>1, <2>1 DEF Admit, Still, HandlersTyped
    <3>b. Flow(r) /\ stage \in [Requests -> {"none", "get", "lock", "auth", "http"}]
      BY DEF Sound, HandlersTyped
    <3>1. pc[r] = "sent" /\ pc'[r] = p /\ stage'[r] = "none" /\ scanner[r] = "none"
      BY <3>a, <3>b DEF Flow, CallSites
    <3> QED
      BY <1>1, <3>1, MoveSound DEF Admit, Still, Answering
  <2>4. ASSUME NEW s \in Requests \ {r}
        PROVE  Sound(s)'
    BY <1>1, <2>1, OthersSound DEF Admit, Still, HandlersTyped
  <2> QED
    BY <2>2, <2>3, <2>4
<1>2. ASSUME NEW r \in Requests, TurnDown(r)
      PROVE  HInv'
  <2>1. HandlersTyped'
    BY <1>2 DEF TurnDown, Goto, Still, HandlersTyped, CallSites
  <2>2. Sound(r)'
    BY <1>2 DEF TurnDown, Goto, Still, CallSites, HandlersTyped, Sound, Flow, Output, Result, LastCard, Answering, Drained
  <2>3. ASSUME NEW s \in Requests \ {r}
        PROVE  Sound(s)'
    BY <1>2, OthersSound DEF TurnDown, Goto, Still, HandlersTyped
  <2> QED
    BY <2>1, <2>2, <2>3
<1>3. ASSUME NEW r \in Requests, Click(r)
      PROVE  HInv'
  <2>1. PICK p \in {"run", "text", "card"} : pc' = [pc EXCEPT ![r] = p]
    BY <1>3, StartsAt DEF Click, Goto
  <2>2. HandlersTyped'
    BY <1>3, <2>1 DEF Click, Still, HandlersTyped, CallSites
  <2>3. Sound(r)'
    <3>1. pc[r] = "sent" /\ pc'[r] = p /\ stage'[r] = "none" /\ scanner[r] = "none"
      BY <1>3, <2>1 DEF Click, Still, HandlersTyped, Sound, Flow, CallSites
    <3> QED
      BY <1>3, <3>1, MoveSound DEF Click, Still, Answering
  <2>4. ASSUME NEW s \in Requests \ {r}
        PROVE  Sound(s)'
    BY <1>3, <2>1, OthersSound DEF Click, Still, HandlersTyped
  <2> QED
    BY <2>2, <2>3, <2>4
<1>4. ASSUME NEW r \in Requests, RunEnds(r) \/ Freed(r)
      PROVE  HInv'
  <2>1. PICK p \in {"text", "card", "held"} : pc' = [pc EXCEPT ![r] = p]
    BY <1>4 DEF RunEnds, Freed, AfterRun, Goto
  <2>2. HandlersTyped'
    BY <1>4, <2>1 DEF RunEnds, Freed, Still, HandlersTyped, CallSites
  <2>3. Sound(r)'
    <3>1. /\ pc[r] \in {"run", "held"} /\ pc'[r] = p
          /\ stage'[r] = "none" /\ scanner[r] = "none"
      BY <1>4, <2>1 DEF RunEnds, Freed, Still, HandlersTyped, Sound, Flow, CallSites
    <3> QED
      BY <1>4, <3>1, MoveSound DEF RunEnds, Freed, Still, Answering
  <2>4. ASSUME NEW s \in Requests \ {r}
        PROVE  Sound(s)'
    BY <1>4, <2>1, OthersSound DEF RunEnds, Freed, Still, HandlersTyped
  <2> QED
    BY <2>2, <2>3, <2>4
<1>5. ASSUME NEW r \in Requests, Call(r)
      PROVE  HInv'
  <2>1. HandlersTyped'
    BY <1>5 DEF Call, Begin, HandlersTyped, CallSites
  <2>2. Sound(r)'
    BY <1>5 DEF Call, Begin, CallSites, HandlersTyped, Sound, Flow, Output, Result, LastCard, Answering, Drained
  <2>3. ASSUME NEW s \in Requests \ {r}
        PROVE  Sound(s)'
    BY <1>5, OthersSound DEF Call, Begin, HandlersTyped
  <2> QED
    BY <2>1, <2>2, <2>3
<1>6. ASSUME NEW r \in Requests, ObtainToken(r)
      PROVE  HInv'
  <2>1. HandlersTyped'
    BY <1>6 DEF ObtainToken, GetToken, GetCached, Refresh, Granted, Post, HandlersTyped, CallSites
  <2>2. Sound(r)'
    BY <1>6 DEF ObtainToken, GetToken, GetCached, Refresh, Granted, Post, CallSites, HandlersTyped, Sound, Flow, Output, Result, LastCard, Answering, Drained
  <2>3. ASSUME NEW s \in Requests \ {r}
        PROVE  Sound(s)'
    BY <1>6, OthersSound DEF ObtainToken, GetToken, GetCached, Refresh, Granted, Post, HandlersTyped
  <2> QED
    BY <2>1, <2>2, <2>3
<1>7. ASSUME NEW r \in Requests, CallDenied(r)
      PROVE  HInv'
  <2>1. /\ pc[r] \in CallSites
        /\ stage' = [stage EXCEPT ![r] = "none"]
        /\ failed' = [failed EXCEPT ![r] = @ \union {pc[r]}]
        /\ UNCHANGED <<streamVars, cmd, shown, card, text>>
    BY <1>7 DEF CallDenied, Denied, Return, Fails, HandlersTyped, Sound, Flow
  <2>2. PICK p \in {"stream", "start", "text", "done"} :
          /\ pc' = [pc EXCEPT ![r] = p]
          /\ p = "stream" <=> pc[r] = "progress"
          /\ p = "text" => pc[r] = "card"
          /\ p # "start"
          /\ p = "done" /\ cmd[r] \in HasFallback => pc[r] # "card"
    BY <1>7, GoesOn DEF CallDenied, Fails
  <2>3. HandlersTyped'
    BY <2>1, <2>2 DEF HandlersTyped, CallSites
  <2>4. Sound(r)'
    <3>1. /\ pc'[r] = p /\ stage'[r] = "none"
          /\ failed'[r] = failed[r] \union {pc[r]}
      BY <2>1, <2>2 DEF HandlersTyped
    <3>2. pc[r] \in {"card", "text", "progress", "final"} /\ p # "final"
      BY <2>1, <2>2 DEF CallSites
    <3>3. Flow(r) /\ Answering(r)'
      BY <2>1, <2>2, <3>1, <3>2 DEF Sound, Flow, Answering
    <3> QED
      BY <2>1, <2>2, <3>1, <3>2, <3>3, MoveSound DEF Flow
  <2>5. ASSUME NEW s \in Requests \ {r}
        PROVE  Sound(s)'
    BY <2>1, <2>2, OthersSound DEF HandlersTyped
  <2> QED
    BY <2>3, <2>4, <2>5
<1>8. ASSUME NEW r \in Requests, CallCarriedOut(r)
      PROVE  HInv'
  <2>1. /\ pc[r] \in CallSites
        /\ stage' = [stage EXCEPT ![r] = "none"]
        /\ failed' \in {failed, [failed EXCEPT ![r] = @ \union {pc[r]}]}
        /\ UNCHANGED <<streamVars, cmd, text>>
    BY <1>8 DEF CallCarriedOut, Answered, Return, Fails, HandlersTyped, Sound, Flow
  <2>2. PICK p \in {"stream", "start", "text", "done"} :
          /\ pc' = [pc EXCEPT ![r] = p]
          /\ p = "stream" <=> pc[r] = "progress"
          /\ p = "text" => pc[r] = "card"
          /\ p = "start" => pc[r] = "card" /\ cmd[r] \in Live
    BY <1>8, GoesOn DEF CallCarriedOut, Fails
  <2>3. PICK c \in {"card", "text"} :
          /\ shown' = [shown EXCEPT ![r] = @ \union {c}]
          /\ c = "text" <=> pc[r] = "text"
    BY <1>8 DEF CallCarriedOut, Shows
  <2>4. CASE cmd[r] \notin Live \/ pc[r] = "text"
    <3>1. card' = card
      BY <1>8, <2>4 DEF CallCarriedOut, Shows
    <3>2. HandlersTyped'
      <4>1. shown' \in [Requests -> SUBSET {"card", "text"}]
        BY <2>3 DEF HandlersTyped
      <4>2. failed' \in [Requests -> SUBSET CallSites]
        BY <2>1 DEF HandlersTyped
      <4> QED
        BY <2>1, <2>2, <3>1, <4>1, <4>2 DEF HandlersTyped, CallSites
    <3>3. Sound(r)'
      <4>1. /\ pc'[r] = p /\ stage'[r] = "none"
            /\ shown'[r] = shown[r] \union {c}
        BY <2>1, <2>2, <2>3 DEF HandlersTyped
      <4>2. pc[r] \in {"card", "text", "progress", "final"} /\ p # "final"
        BY <2>1 DEF CallSites
      <4>3. Flow(r) /\ Answering(r)'
        BY <2>1, <4>1 DEF Sound, Flow, Answering
      <4> QED
        BY <2>1, <2>2, <2>3, <3>1, <4>1, <4>2, <4>3, MoveSound DEF Flow
    <3>4. ASSUME NEW s \in Requests \ {r}
          PROVE  Sound(s)'
      BY <2>1, <2>2, <2>3, <3>1, OthersSound DEF HandlersTyped
    <3> QED
      BY <3>2, <3>3, <3>4
  <2>5. CASE cmd[r] \in Live /\ pc[r] # "text"
    <3>1. PICK h \in {"running", "ok", "failed"} :
            /\ card' = [card EXCEPT ![r] = LiveCard(text[r], h)]
            /\ h = "running" <=> pc[r] # "final"
            /\ h = "ok" <=> pc[r] = "final" /\ errc[r] = "nil"
      <4> DEFINE head == IF pc[r] # "final" THEN "running"
                         ELSE IF Succeeded(r) THEN "ok" ELSE "failed"
      <4>1. card' = [card EXCEPT ![r] = LiveCard(text[r], head)]
        BY <1>8, <2>5 DEF CallCarriedOut, Shows
      <4>2. /\ head \in {"running", "ok", "failed"}
            /\ head = "running" <=> pc[r] # "final"
            /\ head = "ok" <=> pc[r] = "final" /\ errc[r] = "nil"
        BY DEF Succeeded
      <4> QED
        BY <4>1, <4>2
    <3>2. HandlersTyped'
      <4>1. card' \in [Requests -> [lines : SUBSET Nat,
                                     head : {"none", "running", "ok", "failed"}]]
        <5>1. LiveCard(text[r], h) \in [lines : SUBSET Nat,
                                        head : {"none", "running", "ok", "failed"}]
          BY DEF LiveCard, HandlersTyped
        <5> QED
          BY <3>1, <5>1 DEF HandlersTyped
      <4>2. shown' \in [Requests -> SUBSET {"card", "text"}]
        BY <2>3 DEF HandlersTyped
      <4>3. failed' \in [Requests -> SUBSET CallSites]
        BY <2>1 DEF HandlersTyped
      <4> QED
        BY <2>1, <2>2, <4>1, <4>2, <4>3 DEF HandlersTyped, CallSites
    <3>3. p = "done" \/ h = "running"
      BY <1>8, <2>2, <3>1 DEF CallCarriedOut, Fails, Proceeds, Goto, HandlersTyped
    <3>4. Sound(r)'
      <4>1. pc'[r] = p /\ shown'[r] = shown[r] \union {"card"}
        BY <2>2, <2>3, <2>5 DEF HandlersTyped
      <4>2. /\ card'[r].lines = {i \in 1 .. text[r] : i > text[r] - CardLines}
            /\ card'[r].head = h
        BY <3>1 DEF HandlersTyped, LiveCard
      <4>3. /\ pc[r] \in {"card", "progress", "final"} /\ p \in {"stream", "start", "text", "done"}
            /\ stage'[r] = "none" /\ text[r] \in Nat
        BY <2>1, <2>2, <2>5, <3>3 DEF CallSites, HandlersTyped
      <4>4. Flow(r)'
        BY <2>1, <2>2, <2>5, <4>1, <4>3 DEF Sound, Flow, Drained
      <4>5. Output(r)' /\ Result(r)'
        BY <2>1 DEF Sound, Output, Result
      <4>6. Answering(r)'
        BY <4>1 DEF Answering
      <4>7. h # "running" => errc[r] # "none" \/ scanner[r] = "none"
        BY <3>1 DEF Sound, Flow, Output, Drained
      <4>8. LastCard(r)'
        BY <2>1, <3>1, <3>3, <4>1, <4>2, <4>3 DEF Sound, Flow, LastCard, Drained
      <4> QED
        BY <4>4, <4>5, <4>6, <4>8 DEF Sound
    <3>5. ASSUME NEW s \in Requests \ {r}
          PROVE  Sound(s)'
      BY <2>1, <2>2, <2>3, <3>1, OthersSound DEF HandlersTyped
    <3> QED
      BY <3>2, <3>4, <3>5
  <2> QED
    BY <2>4, <2>5
<1>9. ASSUME NEW r \in Requests, CallRefused(r)
      PROVE  HInv'
  <2>1. /\ pc[r] \in CallSites
        /\ stage' = [stage EXCEPT ![r] = "none"]
        /\ failed' = [failed EXCEPT ![r] = @ \union {pc[r]}]
        /\ UNCHANGED <<streamVars, cmd, shown, card, text>>
    BY <1>9 DEF CallRefused, Answered, Return, Fails, HandlersTyped, Sound, Flow
  <2>2. PICK p \in {"stream", "start", "text", "done"} :
          /\ pc' = [pc EXCEPT ![r] = p]
          /\ p = "stream" <=> pc[r] = "progress"
          /\ p = "text" => pc[r] = "card"
          /\ p # "start"
          /\ p = "done" /\ cmd[r] \in HasFallback => pc[r] # "card"
    BY <1>9, GoesOn DEF CallRefused, Fails
  <2>3. HandlersTyped'
    BY <2>1, <2>2 DEF HandlersTyped, CallSites
  <2>4. Sound(r)'
    <3>1. /\ pc'[r] = p /\ stage'[r] = "none"
          /\ failed'[r] = failed[r] \union {pc[r]}
      BY <2>1, <2>2 DEF HandlersTyped
    <3>2. pc[r] \in {"card", "text", "progress", "final"} /\ p # "final"
      BY <2>1, <2>2 DEF CallSites
    <3>3. Flow(r) /\ Answering(r)'
      BY <2>1, <2>2, <3>1, <3>2 DEF Sound, Flow, Answering
    <3> QED
      BY <2>1, <2>2, <3>1, <3>2, <3>3, MoveSound DEF Flow
  <2>5. ASSUME NEW s \in Requests \ {r}
        PROVE  Sound(s)'
    BY <2>1, <2>2, OthersSound DEF HandlersTyped
  <2> QED
    BY <2>3, <2>4, <2>5
<1>10. ASSUME NEW r \in Requests, StartLive(r)
      PROVE  HInv'
  <2>1. UNCHANGED <<kept, written, scanned, queued, timedOut, stage,
                    cmd, failed, shown, card, text>>
    BY <1>10 DEF StartLive, StreamLines
  <2>2. CASE StreamLines(r) /\ Goto(r, "stream")
    <3>1. PICK p \in {"none", "running"}, q \in {"scan", "closed"}, e \in {"none", "error"} :
            /\ proc' = [proc EXCEPT ![r] = p] /\ scanner' = [scanner EXCEPT ![r] = q]
            /\ errc' = [errc EXCEPT ![r] = e] /\ pc' = [pc EXCEPT ![r] = "stream"]
            /\ p = "running" <=> q = "scan"
            /\ e = "error" <=> q = "closed"
      <4>1. CASE Closed(r, "error") /\ UNCHANGED proc
        <5>1. proc' = [proc EXCEPT ![r] = "none"]
          BY <4>1, <1>10 DEF StartLive, HandlersTyped, Sound, Flow, Output
        <5> QED
          BY <2>2, <4>1, <5>1 DEF Goto, Closed
      <4>2. CASE /\ proc' = [proc EXCEPT ![r] = "running"]
                 /\ scanner' = [scanner EXCEPT ![r] = "scan"]
                 /\ UNCHANGED errc
        <5>1. errc' = [errc EXCEPT ![r] = "none"]
          BY <4>2, <1>10 DEF StartLive, HandlersTyped, Sound, Flow, Output
        <5> QED
          BY <2>2, <4>2, <5>1 DEF Goto
      <4> QED
        BY <2>2, <4>1, <4>2 DEF StreamLines
    <3>2. HandlersTyped'
      BY <2>1, <3>1 DEF HandlersTyped, CallSites
    <3>3. pc[r] = "start" /\ scanner[r] = "none"
      BY <1>10, <2>2 DEF StartLive, StreamLines
    <3>4. Sound(r)'
      <4>1. /\ pc'[r] = "stream" /\ proc'[r] = p /\ scanner'[r] = q /\ errc'[r] = e
            /\ stage'[r] = stage[r]
        BY <2>1, <3>1 DEF HandlersTyped
      <4>2. Flow(r)'
        BY <2>1, <3>3, <4>1 DEF Sound, Flow, CallSites
      <4>3. Output(r)' /\ Result(r)'
        BY <2>1, <3>1, <3>3, <4>1 DEF Sound, Output, Result
      <4>4. LastCard(r)' /\ Answering(r)'
        BY <2>1, <3>3, <4>1 DEF Sound, LastCard, Answering
      <4> QED
        BY <4>2, <4>3, <4>4 DEF Sound
    <3>5. ASSUME NEW s \in Requests \ {r}
          PROVE  Sound(s)'
      BY <2>1, <3>1, OthersSound DEF HandlersTyped
    <3> QED
      BY <3>2, <3>4, <3>5
  <2>3. CASE Goto(r, "final") /\ UNCHANGED streamVars
    <3>1. HandlersTyped'
      BY <2>1, <2>3 DEF Goto, HandlersTyped, CallSites
    <3>2. Sound(r)'
      <4>1. pc[r] = "start" /\ pc'[r] = "final"
        BY <1>10, <2>3 DEF StartLive, Goto, HandlersTyped
      <4>2. stage'[r] = "none" /\ scanner[r] = "none" /\ Flow(r)
        BY <2>1, <4>1 DEF Sound, Flow, CallSites, HandlersTyped
      <4> QED
        BY <2>1, <2>3, <4>1, <4>2, MoveSound DEF Flow, Answering
    <3>3. ASSUME NEW s \in Requests \ {r}
          PROVE  Sound(s)'
      BY <2>1, <2>3, OthersSound DEF Goto, HandlersTyped
    <3> QED
      BY <3>1, <3>2, <3>3
  <2> QED
    BY <1>10, <2>2, <2>3 DEF StartLive
<1>11. ASSUME NEW r \in Requests, TakeLine(r)
      PROVE  HInv'
  <2>1. HandlersTyped'
    BY <1>11 DEF TakeLine, Receive, HandlersTyped
  <2>2. /\ pc[r] = "stream"
        /\ queued[r] \in Nat /\ text[r] \in Nat /\ scanned[r] \in Nat
        /\ queued[r] > 0
        /\ text'[r] = text[r] + 1 /\ queued'[r] = queued[r] - 1
        /\ UNCHANGED <<cmd, pc, stage, failed, shown, card, process, scanned, scanner, errc>>
    BY <1>11 DEF TakeLine, Receive, HandlersTyped
  <2>3. Flow(r)' /\ Result(r)' /\ Answering(r)'
    BY <2>2 DEF Sound, Flow, Result, Answering
  <2>4. Output(r)'
    BY <2>2 DEF Sound, Output
  <2>5. 1 .. text[r] \subseteq 1 .. text[r] + 1
    BY <2>2
  <2>6. LastCard(r)'
    BY <2>2, <2>5 DEF Sound, LastCard
  <2>7. ASSUME NEW s \in Requests \ {r}
        PROVE  Sound(s)'
    BY <1>11, OthersSound DEF TakeLine, Receive, HandlersTyped
  <2> QED
    BY <2>1, <2>3, <2>4, <2>6, <2>7 DEF Sound
<1>12. ASSUME NEW r \in Requests, ShowProgress(r)
      PROVE  HInv'
  <2>1. HandlersTyped'
    BY <1>12 DEF ShowProgress, Goto, Still, HandlersTyped, CallSites
  <2>2. Sound(r)'
    BY <1>12 DEF ShowProgress, Goto, Still, CallSites, HandlersTyped, Sound, Flow, Output, Result, LastCard, Answering, Drained
  <2>3. ASSUME NEW s \in Requests \ {r}
        PROVE  Sound(s)'
    BY <1>12, OthersSound DEF ShowProgress, Goto, Still, HandlersTyped
  <2> QED
    BY <2>1, <2>2, <2>3
<1>13. ASSUME NEW r \in Requests, EndStream(r)
      PROVE  HInv'
  <2>1. HandlersTyped'
    BY <1>13 DEF EndStream, Goto, Still, HandlersTyped, CallSites
  <2>2. Sound(r)'
    BY <1>13 DEF EndStream, Goto, Still, CallSites, HandlersTyped, Sound, Flow, Output, Result, LastCard, Answering, Drained
  <2>3. ASSUME NEW s \in Requests \ {r}
        PROVE  Sound(s)'
    BY <1>13, OthersSound DEF EndStream, Goto, Still, HandlersTyped
  <2> QED
    BY <2>1, <2>2, <2>3
<1>14. ASSUME NEW r \in Requests, WriteLine(r) /\ UNCHANGED <<vars, clientVars, handlers>>
      PROVE  HInv'
  <2>1. HandlersTyped'
    BY <1>14 DEF WriteLine, HandlersTyped, CallSites
  <2>2. Sound(r)'
    BY <1>14 DEF WriteLine, CallSites, HandlersTyped, Sound, Flow, Output, Result, LastCard, Answering, Drained
  <2>3. ASSUME NEW s \in Requests \ {r}
        PROVE  Sound(s)'
    BY <1>14, OthersSound DEF WriteLine, HandlersTyped
  <2> QED
    BY <2>1, <2>2, <2>3
<1>15. ASSUME NEW r \in Requests, NEW how \in {"zero", "nonzero"}, Ends(r, how), UNCHANGED <<vars, clientVars, handlers>>
      PROVE  HInv'
  <2>1. HandlersTyped'
    BY <1>15 DEF Ends, HandlersTyped, CallSites
  <2>2. Sound(r)'
    BY <1>15 DEF Ends, CallSites, HandlersTyped, Sound, Flow, Output, Result, LastCard, Answering, Drained
  <2>3. ASSUME NEW s \in Requests \ {r}
        PROVE  Sound(s)'
    BY <1>15, OthersSound DEF Ends, HandlersTyped
  <2> QED
    BY <2>1, <2>2, <2>3
<1>16. ASSUME NEW r \in Requests, Release(r) /\ UNCHANGED <<vars, clientVars, handlers>>
      PROVE  HInv'
  <2>1. HandlersTyped'
    BY <1>16 DEF Release, HandlersTyped, CallSites
  <2>2. Sound(r)'
    BY <1>16 DEF Release, CallSites, HandlersTyped, Sound, Flow, Output, Result, LastCard, Answering, Drained
  <2>3. ASSUME NEW s \in Requests \ {r}
        PROVE  Sound(s)'
    BY <1>16, OthersSound DEF Release, HandlersTyped
  <2> QED
    BY <2>1, <2>2, <2>3
<1>17. ASSUME NEW r \in Requests, Expire(r) /\ UNCHANGED <<vars, clientVars, handlers>>
      PROVE  HInv'
  <2>1. HandlersTyped'
    BY <1>17 DEF Expire, HandlersTyped, CallSites
  <2>2. Sound(r)'
    BY <1>17 DEF Expire, CallSites, HandlersTyped, Sound, Flow, Output, Result, LastCard, Answering, Drained
  <2>3. ASSUME NEW s \in Requests \ {r}
        PROVE  Sound(s)'
    BY <1>17, OthersSound DEF Expire, HandlersTyped
  <2> QED
    BY <2>1, <2>2, <2>3
<1>18. ASSUME NEW r \in Requests, Scan(r) /\ UNCHANGED <<vars, clientVars, handlers>>
      PROVE  HInv'
  <2>1. HandlersTyped'
    BY <1>18 DEF Scan, HandlersTyped, CallSites
  <2>2. Sound(r)'
    BY <1>18 DEF Scan, CallSites, HandlersTyped, Sound, Flow, Output, Result, LastCard, Answering, Drained
  <2>3. ASSUME NEW s \in Requests \ {r}
        PROVE  Sound(s)'
    BY <1>18, OthersSound DEF Scan, HandlersTyped
  <2> QED
    BY <2>1, <2>2, <2>3
<1>19. ASSUME NEW r \in Requests, Finish(r) /\ UNCHANGED <<vars, clientVars, handlers>>
      PROVE  HInv'
  <2>1. HandlersTyped'
    BY <1>19 DEF Finish, Closed, WaitResults, HandlersTyped, CallSites
  <2>2. Sound(r)'
    BY <1>19 DEF Finish, Closed, WaitResults, CallSites, HandlersTyped, Sound, Flow, Output, Result, LastCard, Answering, Drained
  <2>3. ASSUME NEW s \in Requests \ {r}
        PROVE  Sound(s)'
    BY <1>19, OthersSound DEF Finish, Closed, WaitResults, HandlersTyped
  <2> QED
    BY <2>1, <2>2, <2>3
<1>20. ASSUME UNCHANGED <<streamVars, handlers, stage>>
      PROVE  HInv'
  <2>1. HandlersTyped'
    BY <1>20 DEF HandlersTyped
  <2>2. ASSUME NEW s \in Requests
        PROVE  Sound(s)'
    BY <1>20, OthersSound
  <2> QED
    BY <2>1, <2>2
<1>21. CASE Clock
  BY <1>20, <1>21 DEF Clock, ClientTick
<1>22. CASE UNCHANGED commandVars
  BY <1>20, <1>22 DEF commandVars
<1>23. ASSUME NEW r \in Requests, Handle(r)
      PROVE  HInv'
  BY <1>23, <1>1, <1>2, <1>3, <1>4, <1>5, <1>6, <1>7, <1>8, <1>9, <1>10, <1>11, <1>12, <1>13 DEF Handle, CallEnds
<1>24. ASSUME NEW r \in Requests, Outside(r)
      PROVE  HInv'
  BY <1>24, <1>14, <1>15, <1>16, <1>17 DEF Outside, ProcessNext, Exit, CutOff, Kill
<1>25. ASSUME NEW r \in Requests, Scanning(r)
      PROVE  HInv'
  BY <1>25, <1>18, <1>19 DEF Scanning, ScannerNext
<1> QED
  BY <1>21, <1>22, <1>23, <1>24, <1>25 DEF CommandsNext

LEMMA CommandsInvariant == CommandsSpec => []HInv
BY InitHInv, NextHInv, PTL DEF CommandsSpec

\* A live card that says how the process ended shows the end of what it has
\* written, as much as there is room for, unless time ran out, however lines,
\* updates and failing calls interleave.
THEOREM LiveCardShowsLatest == CommandsSpec => []LatestLinesShown
<1>1. HInv => LatestLinesShown
  <2> SUFFICES ASSUME HInv, NEW r \in Requests, card[r].head \in {"ok", "failed"},
                      r \notin timedOut
               PROVE  card[r].lines = {i \in 1 .. written[r] : written[r] < i + CardLines}
    BY DEF LatestLinesShown
  <2>1. Sound(r) /\ HandlersTyped
    BY DEF HInv
  <2>2. text[r] = written[r] /\ written[r] \in Nat
    BY <2>1, RequestAssumption, QueueAssumption
    DEF HandlersTyped, Sound, Output, LastCard, Drained
  <2>3. card[r].lines = {i \in 1 .. text[r] : i > text[r] - CardLines}
    BY <2>1 DEF Sound, LastCard
  <2>4. \A i \in 1 .. text[r] : i > text[r] - CardLines <=> text[r] < i + CardLines
    BY <2>2, RequestAssumption
  <2> QED
    BY <2>2, <2>3, <2>4
<1> QED
  BY <1>1, CommandsInvariant, PTL

\* The last card says how the process ended.
THEOREM LiveCardIsTrue == CommandsSpec => []HeaderTrue
<1>1. HInv => HeaderTrue
  <2> SUFFICES ASSUME HInv, NEW r \in Requests
               PROVE  /\ card[r].head = "ok" => proc[r] = "zero"
                      /\ card[r].head = "failed" => proc[r] # "zero" \/ r \in timedOut
    BY DEF HeaderTrue
  <2>1. Sound(r) /\ HandlersTyped
    BY DEF HInv
  <2> QED
    BY <2>1, RequestAssumption DEF HandlersTyped, Sound, Output, Result, LastCard, Drained
<1> QED
  BY <1>1, CommandsInvariant, PTL

\* A handler with a fallback is silent only when its text failed.
THEOREM FallbackIsTried == CommandsSpec => []SilentOnlyWithoutText
<1>1. HInv => SilentOnlyWithoutText
  BY DEF HInv, Sound, Answering, SilentOnlyWithoutText
<1> QED
  BY <1>1, CommandsInvariant, PTL

\* Handlers, streams, limiter and token keep their types: nothing is counted
\* beyond what the process has written or the channel can hold.
THEOREM CommandsTypeCorrect == CommandsSpec => []CommandsTypeOK
<1>1. HInv /\ IInv /\ ClientTypeOK => CommandsTypeOK
  <2> SUFFICES ASSUME HInv, IInv, ClientTypeOK PROVE CommandsTypeOK
    OBVIOUS
  <2> USE RequestAssumption, QueueAssumption
  <2>1. HandlersTyped
    BY DEF HInv
  <2>2. ASSUME NEW r \in Requests
        PROVE  /\ scanned[r] \in 0 .. MaxLines /\ text[r] \in 0 .. MaxLines
               /\ card[r] \in [lines : SUBSET (1 .. MaxLines),
                               head : {"none", "running", "ok", "failed"}]
    <3> DEFINE s == scanned[r]
               t == text[r]
               n == card[r].lines
               q == queued[r]
    <3>1. s \in Nat /\ t \in Nat /\ q \in Nat /\ written[r] \in 0 .. MaxLines
      BY <2>1 DEF HandlersTyped
    <3>2. s <= written[r] /\ t + q <= s /\ n \subseteq 1 .. t
      BY DEF HInv, Sound, Output, LastCard
    <3> HIDE DEF s, t, n, q
    <3>3. s \in 0 .. MaxLines /\ t \in 0 .. MaxLines /\ n \subseteq 1 .. MaxLines
      BY <3>1, <3>2
    <3>4. card[r] \in [lines : SUBSET (1 .. MaxLines), head : {"none", "running", "ok", "failed"}]
      BY <2>1, <3>3 DEF HandlersTyped, n
    <3> QED BY <3>3, <3>4 DEF s, t
  <2>3. /\ scanned \in [Requests -> 0 .. MaxLines] /\ text \in [Requests -> 0 .. MaxLines]
        /\ card \in [Requests -> [lines : SUBSET (1 .. MaxLines),
                                  head : {"none", "running", "ok", "failed"}]]
    BY <2>1, <2>2 DEF HandlersTyped
  <2>4. StreamTypeOK
    BY <2>1, <2>3 DEF HandlersTyped, StreamTypeOK
  <2>5. TypeOK /\ ClientTypeOK
    BY DEF IInv
  <2> QED BY <2>1, <2>3, <2>4, <2>5 DEF HandlersTyped, CommandsTypeOK
<1> QED
  BY <1>1, CommandsInvariant, LimiterOfCommands, Inductive, ClientOfCommands,
     ClientTypeCorrect, PTL
=============================================================================
