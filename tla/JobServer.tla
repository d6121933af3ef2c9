----------------------------- MODULE JobServer -----------------------------
(***************************************************************************)
(* What a GPU scheduler promises the owners of its entities, without its   *)
(* workers, lists, timers and resets: jobs are started in the order their  *)
(* owner pushed them, never more at once than the hardware has credits     *)
(* for; a job is ended once, whatever ends it; and an owner may withdraw   *)
(* what has not been started.  A job is <<owner, n>>.  A server that broke *)
(* down promises nothing any more.                                         *)
(***************************************************************************)
EXTENDS Integers, FiniteSets

CONSTANTS
    Jobs,      \* the jobs there may be
    Capacity,  \* credits of the hardware
    Cost(_)    \* credits a job takes while it is running

VARIABLES
    phase,   \* of a job: new, waiting, running, withdrawn or over
    closed,  \* the server takes and starts nothing any more
    broken   \* the server broke down

In(p) == {j \in Jobs : phase[j] = p}
Before(j) == {k \in Jobs : k[1] = j[1] /\ k[2] < j[2]}

Moved(S, p) == [j \in Jobs |-> IF j \in S THEN p ELSE phase[j]]

(* the credits that the jobs in S take *)
Taken(S) == UNION {{j} \X (1..Cost(j)) : j \in S}

Init == phase = [j \in Jobs |-> "new"] /\ closed = FALSE /\ broken = FALSE

Submit(j) ==
    /\ ~closed /\ phase[j] = "new" /\ Before(j) \cap In("new") = {}
    /\ phase' = Moved({j}, "waiting") /\ UNCHANGED closed

Start(j) ==
    /\ ~closed /\ phase[j] = "waiting" /\ Before(j) \cap In("waiting") = {}
    /\ Cardinality(Taken(In("running") \cup {j})) <= Capacity
    /\ phase' = Moved({j}, "running") /\ UNCHANGED closed

(* One job ends, or all that a reset or the end of the scheduler ends. *)
End(S) ==
    /\ S # {} /\ S \subseteq In("running")
    /\ phase' = Moved(S, "over") /\ UNCHANGED closed

Withdraw(o) ==
    /\ \E j \in In("waiting") : j[1] = o
    /\ phase' = Moved({j \in In("waiting") : j[1] = o}, "withdrawn")
    /\ UNCHANGED closed

Discard(j) ==
    /\ phase[j] = "withdrawn"
    /\ phase' = Moved({j}, "over") /\ UNCHANGED closed

Close ==
    /\ ~closed /\ In("waiting") = {}
    /\ closed' = TRUE /\ UNCHANGED phase

(* Every step moves jobs or closes the server. *)
Serve ==
    \/ /\ phase' # phase
       /\ \/ \E j \in Jobs : Submit(j) \/ Start(j) \/ Discard(j)
          \/ \E S \in SUBSET In("running") : End(S)
          \/ \E o \in {j[1] : j \in Jobs} : Withdraw(o)
    \/ Close

Next == broken' = TRUE \/ (broken' = broken /\ Serve)

Spec == Init /\ [][Next]_<<phase, closed, broken>>
=============================================================================
