------------------------------- MODULE Client -------------------------------
(***************************************************************************)
(* The HTTP client of internal/feishu/client.go and the access token of    *)
(* internal/feishu/token.go that all of its callers share.  Times are      *)
(* relative: what is left of the token, and how long a request has been    *)
(* under way, which the clients' Timeout bounds.                           *)
(***************************************************************************)
EXTENDS Integers

CONSTANTS Callers, \* goroutines that send, reply to or update messages
          Margin,  \* 60 s: a token closer to its end is replaced
          Timeout, \* 10 s, of both HTTP clients
          Lives    \* Expire of the tokens Feishu gives

ASSUME CallerAssumption == "free" \notin Callers
ASSUME TimeAssumption == /\ Timeout \in Nat \ {0}
                         /\ Margin \in Nat
                         /\ Margin >= 2 * Timeout
ASSUME LivesAssumption == /\ Lives \subseteq Nat
                          /\ \A n \in Lives : n >= 2 * Timeout

VARIABLES
  left,   \* time until expiresAt; 0 when it has passed or there is no token
  real,   \* time until Feishu forgets the token in the cache, or Gone
  lock,   \* who holds TokenManager.mu for writing, or "free"
  stage,  \* stage[c]: where c is in its call
  waited, \* waited[c]: how long its request has been under way
  usable  \* usable[c]: time until Feishu forgets the token c sends, or Gone

cache == <<left, real>>
calls == <<stage, waited, usable>>
clientVars == <<cache, lock, calls>>

Gone == -1
UnderWay(c) == stage[c] \in {"auth", "http"}

\* Any token that has not expired would do.
LastingAtAll == left > 0

\* The token is good for another minute.
Lasting == left > Margin

ClientInit == /\ left = 0
              /\ real = Gone
              /\ lock = "free"
              /\ stage = [c \in Callers |-> "none"]
              /\ waited = [c \in Callers |-> 0]
              /\ usable = [c \in Callers |-> Gone]

-----------------------------------------------------------------------------
(* TokenManager.Get and refresh.                                           *)

\* sendMessage, replyMessage and patchJSON begin with Get.
Begin(c) == /\ stage[c] = "none"
            /\ stage' = [stage EXCEPT ![c] = "get"]
            /\ UNCHANGED <<cache, lock, waited, usable>>

\* The token is taken and the request sent with it.
Post(c, valid) == /\ stage' = [stage EXCEPT ![c] = "http"]
                  /\ waited' = [waited EXCEPT ![c] = 0]
                  /\ usable' = [usable EXCEPT ![c] = valid]

\* Under the read lock, which has to wait for a refresh.
GetCached(c) ==
  /\ stage[c] = "get"
  /\ lock = "free"
  /\ IF Lasting
     THEN Post(c, real)
     ELSE /\ stage' = [stage EXCEPT ![c] = "lock"]
          /\ UNCHANGED <<waited, usable>>
  /\ UNCHANGED <<cache, lock>>

\* Whoever had to wait for the write lock asks Feishu again.
RefreshUnchecked(c) ==
  /\ stage[c] = "lock"
  /\ lock = "free"
  /\ lock' = c
  /\ stage' = [stage EXCEPT ![c] = "auth"]
  /\ waited' = [waited EXCEPT ![c] = 0]
  /\ UNCHANGED <<cache, usable>>

\* Under the write lock: another caller may have refreshed it meanwhile.
Refresh(c) ==
  /\ stage[c] = "lock"
  /\ lock = "free"
  /\ IF Lasting
     THEN Post(c, real) /\ UNCHANGED lock
     ELSE /\ lock' = c
          /\ stage' = [stage EXCEPT ![c] = "auth"]
          /\ waited' = [waited EXCEPT ![c] = 0]
          /\ UNCHANGED usable
  /\ UNCHANGED cache

\* Feishu has made the token at some moment since the request was sent; its
\* Expire is counted from the answer.
Granted(c) ==
  /\ stage[c] = "auth"
  /\ \E life \in Lives, ago \in 0 .. waited[c] :
       /\ left' = life
       /\ real' = life - ago
       /\ Post(c, life - ago)
  /\ lock' = "free"

Return(c) == /\ stage' = [stage EXCEPT ![c] = "none"]
             /\ waited' = [waited EXCEPT ![c] = 0]
             /\ usable' = [usable EXCEPT ![c] = Gone]

\* An early return on an error that keeps the lock.
DeniedLocked(c) == /\ stage[c] = "auth"
                   /\ Return(c)
                   /\ UNCHANGED <<cache, lock>>

\* No answer, no JSON or a code: the call fails, the old token stays.
Denied(c) == /\ stage[c] = "auth"
             /\ Return(c)
             /\ lock' = "free"
             /\ UNCHANGED cache

\* The call ends with an answer, or without one at the Timeout.
Answered(c) == /\ stage[c] = "http"
               /\ Return(c)
               /\ UNCHANGED <<cache, lock>>

-----------------------------------------------------------------------------
Less(n, floor) == IF n > floor THEN n - 1 ELSE floor

ClientTick ==
  /\ \A c \in Callers : UnderWay(c) => waited[c] < Timeout
  /\ left' = Less(left, 0)
  /\ real' = Less(real, Gone)
  /\ waited' = [c \in Callers |-> IF UnderWay(c) THEN waited[c] + 1 ELSE 0]
  /\ usable' = [c \in Callers |-> Less(usable[c], Gone)]
  /\ UNCHANGED <<lock, stage>>

GetToken(c) == GetCached(c) \/ Refresh(c) \/ Granted(c)

ClientNext == \/ \E c \in Callers : \/ Begin(c) \/ GetToken(c)
                                    \/ Denied(c) \/ Answered(c)
              \/ ClientTick

ClientSpec == ClientInit /\ [][ClientNext]_clientVars

-----------------------------------------------------------------------------
\* The token, the lock and the calls have the types the code gives them.
ClientTypeOK ==
  /\ left \in Nat
  /\ real \in Nat \union {Gone}
  /\ lock \in Callers \union {"free"}
  /\ stage \in [Callers -> {"none", "get", "lock", "auth", "http"}]
  /\ waited \in [Callers -> 0 .. Timeout]
  /\ usable \in [Callers -> Nat \union {Gone}]

\* No request is under way with a token that Feishu has already forgotten: the
\* margin covers the answer in which the token came and the request it is for.
NoExpiredToken == \A c \in Callers : stage[c] = "http" => usable[c] # Gone

\* However many callers find the token expired at once, a new one is asked for
\* only while the cached one is due: those who waited take what they find.
AskedOnlyWhenDue == \A c \in Callers : stage[c] = "auth" => left <= Margin
=============================================================================
