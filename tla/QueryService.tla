---------------------------- MODULE QueryService ----------------------------
(***************************************************************************)
(* What start-query-engine promises its clients (README, "Querying"): each *)
(* query is answered, once and with what the indexes hold for it, whoever  *)
(* else asks.  QueryDispatch implements it.                                *)
(***************************************************************************)
CONSTANTS
    Clients,    \* processes that run queries
    Queries,
    Answer,     \* query -> its answer
    None

VARIABLES
    asked,      \* client -> the query it waits for, None: it is not waiting
    got         \* client -> the last answer it had, None at first

vars == <<asked, got>>

Init ==
    /\ asked = [c \in Clients |-> None]
    /\ got = [c \in Clients |-> None]

Ask(c, q) ==
    /\ asked[c] = None
    /\ asked' = [asked EXCEPT ![c] = q]
    /\ UNCHANGED got

Reply(c) ==
    /\ asked[c] # None
    /\ got' = [got EXCEPT ![c] = Answer[asked[c]]]
    /\ asked' = [asked EXCEPT ![c] = None]

Next == \E c \in Clients : Reply(c) \/ \E q \in Queries : Ask(c, q)

Spec == Init /\ [][Next]_vars

\* Who asks is answered.
Fairness == \A c \in Clients : WF_vars(Reply(c))
=============================================================================
