------------------------------- MODULE PubSub -------------------------------
(***************************************************************************)
(* common/signal/pubsub: subscribers that closed are removed by a          *)
(* task.Periodic (common/task/periodic.go) that Subscribe starts and that  *)
(* stops itself when there is nothing to do.  The DNS servers use the same *)
(* pattern for their caches and pending requests.  One topic; a subscriber *)
(* receives what is published while it is subscribed and open.             *)
(***************************************************************************)
EXTENDS Naturals, FiniteSets

CONSTANTS
    Subs,        \* calls of Subscribe
    Capacity,    \* of Subscriber.buffer
    MaxPublish   \* bound: calls of Publish

\* Who runs checkedExecute: Start inside Subscribe, or a timer.  A Periodic
\* has one timer waiting at most; the other one serves a second chain, if
\* there were one.
Timers == {"timer1", "timer2"}
Procs == Subs \cup Timers

VARIABLES
    running,   \* Periodic.running
    subs,      \* s.subs of the topic
    open,      \* the subscribers that are not closed
    buffer,    \* per subscriber: messages waiting
    lost,      \* per subscriber: messages that found the buffer full
    taken,     \* per subscriber: messages received
    seen,      \* history: what was published while it was subscribed, open
    published, \* Publish calls so far
    pc         \* per goroutine

vars == <<running, subs, open, buffer, lost, taken, seen, published, pc>>
msgs == <<buffer, lost, taken, seen, published>>

Init ==
    /\ running = FALSE
    /\ subs = {} /\ open = {}
    /\ buffer = [s \in Subs |-> 0] /\ lost = [s \in Subs |-> 0]
    /\ taken = [s \in Subs |-> 0] /\ seen = [s \in Subs |-> 0]
    /\ published = 0
    /\ pc = [p \in Procs |-> "idle"]

-----------------------------------------------------------------------------
(* Service *)

\* Subscribe, up to the call of Start.
Subscribe(s) ==
    /\ pc[s] = "idle"
    /\ subs' = subs \cup {s} /\ open' = open \cup {s}
    /\ pc' = [pc EXCEPT ![s] = "start"]
    /\ UNCHANGED <<running, msgs>>

\* Subscriber.Close, by the one that Subscribe returned to.
CloseSub(s) ==
    /\ pc[s] = "subscribed" /\ s \in open
    /\ open' = open \ {s}
    /\ UNCHANGED <<running, subs, msgs, pc>>

Receive(s) ==
    /\ pc[s] = "subscribed" /\ s \in open /\ buffer[s] > 0
    /\ buffer' = [buffer EXCEPT ![s] = @ - 1]
    /\ taken' = [taken EXCEPT ![s] = @ + 1]
    /\ UNCHANGED <<running, subs, open, lost, seen, published, pc>>

\* Publish: a full buffer loses the message.
Publish ==
    /\ published < MaxPublish
    /\ published' = published + 1
    /\ LET to == subs \cap open
           full == {s \in to : buffer[s] = Capacity}
       IN  /\ buffer' = [s \in Subs |->
                           buffer[s] + IF s \in to \ full THEN 1 ELSE 0]
           /\ lost' = [s \in Subs |-> lost[s] + IF s \in full THEN 1 ELSE 0]
    /\ seen' = [s \in Subs |-> seen[s] + IF s \in open THEN 1 ELSE 0]
    /\ UNCHANGED <<running, subs, open, taken, pc>>

\* Mutant: Cleanup drops a topic as soon as one of its subscribers closed.
RemainingTopic == IF subs \subseteq open THEN subs ELSE {}

\* What Cleanup keeps.
Remaining == subs \cap open

-----------------------------------------------------------------------------
(* Periodic *)

Start(s) ==
    /\ pc[s] = "start"
    /\ running' = TRUE
    /\ pc' = [pc EXCEPT ![s] = IF running THEN "subscribed" ELSE "check"]
    /\ UNCHANGED <<subs, open, msgs>>

\* The interval ends.
Fire(t) ==
    /\ pc[t] = "pending"
    /\ pc' = [pc EXCEPT ![t] = "check"]
    /\ UNCHANGED <<running, subs, open, msgs>>

\* What checkedExecute returns to when it has no error.
Over(p) == IF p \in Subs THEN "subscribed" ELSE "idle"

CheckClosed(p) ==
    /\ pc[p] = "check"
    /\ pc' = [pc EXCEPT ![p] = IF running THEN "execute" ELSE Over(p)]
    /\ UNCHANGED <<running, subs, open, msgs>>

\* Execute is Service.Cleanup, under its lock.
Execute(p) ==
    /\ pc[p] = "execute"
    /\ subs' = Remaining
    /\ pc' = [pc EXCEPT ![p] = IF subs = {} THEN "error" ELSE "arm"]
    /\ UNCHANGED <<running, open, msgs>>

\* Cleanup had nothing to do: the task stops.  In Start the error is returned,
\* and common.Must in Subscribe panics.
Stop(p) ==
    /\ pc[p] = "error"
    /\ running' = FALSE
    /\ pc' = [pc EXCEPT ![p] = IF p \in Subs THEN "panic" ELSE "idle"]
    /\ UNCHANGED <<subs, open, msgs>>

\* A timer for the next round is set, unless the task was stopped meanwhile.
Arm(p) ==
    /\ pc[p] = "arm"
    /\ IF running
         THEN \E t \in Timers :
                /\ t = p \/ pc[t] = "idle"
                /\ pc' = [pc EXCEPT ![p] = Over(p), ![t] = "pending"]
         ELSE pc' = [pc EXCEPT ![p] = Over(p)]
    /\ UNCHANGED <<running, subs, open, msgs>>

-----------------------------------------------------------------------------

Periodic(p) == CheckClosed(p) \/ Execute(p) \/ Stop(p) \/ Arm(p)

Next ==
    \/ Publish
    \/ \E s \in Subs :
         Subscribe(s) \/ CloseSub(s) \/ Receive(s) \/ Start(s) \/ Periodic(s)
    \/ \E t \in Timers : Fire(t) \/ Periodic(t)

\* Timers expire and goroutines run.
Spec ==
    /\ Init /\ [][Next]_vars
    /\ \A s \in Subs : WF_vars(Start(s) \/ Periodic(s))
    /\ \A t \in Timers : WF_vars(Fire(t) \/ Periodic(t))

-----------------------------------------------------------------------------
(* Properties *)

\* An open subscriber has received, or has waiting, everything published
\* since it subscribed, but for what found its buffer full: no Cleanup, of
\* whichever goroutine, takes it off the list.
NothingMissed ==
    \A s \in open : taken[s] + buffer[s] + lost[s] = seen[s]

=============================================================================
