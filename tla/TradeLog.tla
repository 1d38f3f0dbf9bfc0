------------------------------- MODULE TradeLog -------------------------------
(***************************************************************************)
(* What the fills and decisions tables promise about the exchange orders of *)
(* the agent, whoever sends them: an actor has one order in flight at a     *)
(* time, every order gets at most one fill row and at most one decision,    *)
(* a decision covers all the orders of its run and comes when each of them  *)
(* has its fill row, and only the death of a run loses an order's row.      *)
(* AgentServer implements this specification.                               *)
(***************************************************************************)
CONSTANTS Actors, Orders

VARIABLES status,   \* what the tables say of each order
          pending   \* per actor: the orders of its run, not yet decided

Statuses == {"none", "sent", "recorded", "decided", "lost", "orphaned"}

Init ==
    /\ status = [o \in Orders |-> "none"]
    /\ pending = [a \in Actors |-> {}]

InFlight(a) == {o \in pending[a] : status[o] = "sent"}

Send(a, o) ==
    /\ InFlight(a) = {}
    /\ status[o] = "none"
    /\ status' = [status EXCEPT ![o] = "sent"]
    /\ pending' = [pending EXCEPT ![a] = @ \cup {o}]

Record(a, o) ==
    /\ o \in InFlight(a)
    /\ status' = [status EXCEPT ![o] = "recorded"]
    /\ UNCHANGED pending

Decide(a) ==
    /\ pending[a] # {} /\ InFlight(a) = {}
    /\ status' = [o \in Orders |-> IF o \in pending[a] THEN "decided" ELSE status[o]]
    /\ pending' = [pending EXCEPT ![a] = {}]

(* The runs of the actors in dead end where they stand.                      *)
Lose(dead) ==
    LET Of == UNION {pending[a] : a \in dead}
    IN  /\ status' = [o \in Orders |->
                        IF o \notin Of THEN status[o]
                        ELSE IF status[o] = "sent" THEN "lost" ELSE "orphaned"]
        /\ pending' = [a \in Actors |-> IF a \in dead THEN {} ELSE pending[a]]

Next ==
    \/ \E a \in Actors : Decide(a) \/ \E o \in Orders : Send(a, o) \/ Record(a, o)
    \/ \E dead \in SUBSET Actors : Lose(dead)

Spec == Init /\ [][Next]_<<status, pending>>
===============================================================================
