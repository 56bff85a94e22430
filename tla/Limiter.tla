------------------------------ MODULE Limiter ------------------------------
(***************************************************************************)
(* The sliding-window rate limiter of internal/commands/ratelimit.go.      *)
(* Goroutines of HandleMessage call Allow under its mutex, so a call is    *)
(* one step.  A slice of times is the set of the grants that made it: two  *)
(* grants at the same instant differ in their number.                      *)
(***************************************************************************)
EXTENDS Integers, FiniteSets

CONSTANTS Users,        \* resolved sender ids
          CmdRateLimit, \* security.cmd_rate_limit of the configuration
          Window,       \* time.Minute
          MaxTime       \* bound on the clock

ASSUME LimitAssumption == CmdRateLimit \in Int
ASSUME WindowAssumption == Window \in Nat \ {0} /\ MaxTime \in Nat

\* NewRouter replaces a limit that is not positive.
Limit == IF CmdRateLimit <= 0 THEN 20 ELSE CmdRateLimit

VARIABLES now,      \* time.Now()
          buckets,  \* buckets[u]: the grants limiter.buckets[u] holds
          granted,  \* history: every grant to u
          refusedAt \* history: when u was last refused, or Never

vars == <<now, buckets, granted, refusedAt>>

Never == -1
Grants == [at : 0 .. MaxTime, n : Nat]

Init == /\ now = 0
        /\ buckets = [u \in Users |-> {}]
        /\ granted = [u \in Users |-> {}]
        /\ refusedAt = [u \in Users |-> Never]

\* time.Before instead of time.After: a grant leaves one instant too late.
FreshUntilAfter(u) == {g \in buckets[u] : g.at >= now - Window}

Fresh(u) == {g \in buckets[u] : g.at > now - Window}

\* A comparison that lets one command too many through.
GrantOneMore(u) ==
  /\ Cardinality(Fresh(u)) <= Limit
  /\ LET g == [at |-> now, n |-> Cardinality(granted[u])]
     IN /\ buckets' = [buckets EXCEPT ![u] = Fresh(u) \union {g}]
        /\ granted' = [granted EXCEPT ![u] = @ \union {g}]
  /\ UNCHANGED <<now, refusedAt>>

\* Storing when a grant expires instead of when it was given.
GrantUntil(u) ==
  /\ Cardinality(Fresh(u)) < Limit
  /\ LET g == [at |-> now + Window, n |-> Cardinality(granted[u])]
     IN /\ buckets' = [buckets EXCEPT ![u] = Fresh(u) \union {g}]
        /\ granted' = [granted EXCEPT ![u] = @ \union {g}]
  /\ UNCHANGED <<now, refusedAt>>

Grant(u) ==
  /\ Cardinality(Fresh(u)) < Limit
  /\ LET g == [at |-> now, n |-> Cardinality(granted[u])]
     IN /\ buckets' = [buckets EXCEPT ![u] = Fresh(u) \union {g}]
        /\ granted' = [granted EXCEPT ![u] = @ \union {g}]
  /\ UNCHANGED <<now, refusedAt>>

Refuse(u) ==
  /\ Cardinality(Fresh(u)) >= Limit
  /\ buckets' = [buckets EXCEPT ![u] = Fresh(u)]
  /\ refusedAt' = [refusedAt EXCEPT ![u] = now]
  /\ UNCHANGED <<now, granted>>

Tick == /\ now < MaxTime
        /\ now' = now + 1
        /\ UNCHANGED <<buckets, granted, refusedAt>>

Next == (\E u \in Users : Grant(u) \/ Refuse(u)) \/ Tick

Spec == Init /\ [][Next]_vars

-----------------------------------------------------------------------------
\* Every variable has the type the code gives it.
TypeOK == /\ now \in 0 .. MaxTime
          /\ buckets \in [Users -> SUBSET Grants]
          /\ granted \in [Users -> SUBSET Grants]
          /\ refusedAt \in [Users -> 0 .. MaxTime \union {Never}]

InWindow(u, x) == {g \in granted[u] : x - Window < g.at /\ g.at <= x}

\* In no minute, wherever it starts, does a user get more commands through than
\* the limit, although a refused call prunes the bucket too.
NeverAboveLimit ==
  \A u \in Users, x \in 0 .. MaxTime : Cardinality(InWindow(u, x)) <= Limit

\* A user is refused only when the minute that ends then is used up: refused
\* calls themselves do not count, so retrying does not lock a user out.
RefusedOnlyAtLimit ==
  \A u \in Users : refusedAt[u] # Never =>
    Cardinality(InWindow(u, refusedAt[u])) >= Limit
=============================================================================
