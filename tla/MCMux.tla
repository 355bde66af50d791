-------------------------------- MODULE MCMux --------------------------------
(* Two flows, from a state in which each has lost one of its ends. *)
EXTENDS Mux, TLC

CONSTANTS f1, f2

\* The state Init leads to when both flows have been dispatched, the server has
\* taken their New frames, none of which carried a payload, and then the
\* target of f1 and the application of f2 have gone away.
HalfGone ==
    /\ mgr = [s \in Sides |-> [sessions |-> (1 :> f1) @@ (2 :> f2),
                               count |-> 2, closed |-> FALSE]]
    /\ done = [s \in Sides |-> FALSE]
    /\ mon = [s \in Sides |-> "wait"]
    /\ check = [s \in Sides |-> [size |-> 0, count |-> 0]]
    /\ reading = [s \in Sides |-> TRUE]
    /\ queue = [s \in Sides |-> <<>>]
    /\ link = "up"
    /\ pump = [s \in Sides |-> [f \in Flows |-> "copy"]]
    /\ sid = (f1 :> 1) @@ (f2 :> 2)
    /\ closed = [s \in Sides |-> [f \in Flows |-> FALSE]]
    /\ attached = [s \in Sides |-> [f \in Flows |-> TRUE]]
    /\ inEnded = [s \in Sides |-> [f \in Flows |->
                     <<s, f>> \in {<<"server", f1>>, <<"client", f2>>}]]
    /\ outClosed = inEnded
    /\ sent = [s \in Sides |-> [f \in Flows |-> 0]]
    /\ got = [s \in Sides |-> [f \in Flows |-> <<>>]]
    /\ faults = MaxFaults

HalfGoneSpec == HalfGone /\ [][Next]_vars /\ Fairness
==============================================================================
