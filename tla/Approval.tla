------------------------------ MODULE Approval ------------------------------
(***************************************************************************)
(* What the confirmation flow promises, without tokens in maps, timers,    *)
(* goroutines or restarts: a dangerous operation is requested once, and    *)
(* then either its requester runs it, once, or it is void for good.        *)
(***************************************************************************)
EXTENDS Naturals

CONSTANTS Tokens,  \* one per request
          Ids      \* identities of the admins

VARIABLES verdict,   \* verdict[t]: "none", "open", "run" or "void"
          requester, \* requester[t]: who asked
          executor,  \* executor[t]: who ran it
          runs       \* runs[t]: how many times it ran

vars == <<verdict, requester, executor, runs>>

NoOne == "nobody"

Init == /\ verdict = [t \in Tokens |-> "none"]
        /\ requester = [t \in Tokens |-> NoOne]
        /\ executor = [t \in Tokens |-> NoOne]
        /\ runs = [t \in Tokens |-> 0]

Request(t, u) == /\ verdict[t] = "none"
                 /\ verdict' = [verdict EXCEPT ![t] = "open"]
                 /\ requester' = [requester EXCEPT ![t] = u]
                 /\ UNCHANGED <<executor, runs>>

Run(t) == /\ verdict[t] = "open"
          /\ verdict' = [verdict EXCEPT ![t] = "run"]
          /\ executor' = [executor EXCEPT ![t] = requester[t]]
          /\ runs' = [runs EXCEPT ![t] = 1]
          /\ UNCHANGED requester

\* A timeout, a cancel or a refusal voids one request; a crash voids all.
Void(S) == /\ \A t \in S : verdict[t] = "open"
           /\ verdict' = [t \in Tokens |-> IF t \in S THEN "void" ELSE verdict[t]]
           /\ UNCHANGED <<requester, executor, runs>>

Next == \/ \E t \in Tokens : Run(t) \/ \E u \in Ids : Request(t, u)
        \/ \E S \in SUBSET Tokens : Void(S)

Spec == Init /\ [][Next]_vars
=============================================================================
