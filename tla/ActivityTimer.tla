---------------------------- MODULE ActivityTimer ----------------------------
(***************************************************************************)
(* common/signal/timer.go: the inactivity timer of every proxied           *)
(* connection, with the task.Periodic (common/task/periodic.go) it starts  *)
(* for each SetTimeout.  The check of a task runs on its timer's goroutine *)
(* or, the first time, inside Start and so inside SetTimeout, which holds  *)
(* t.mu.                                                                   *)
(***************************************************************************)
EXTENDS Naturals, FiniteSets

CONSTANTS
    Setters,     \* calls of SetTimeout(d) with d > 0
    Zeros,       \* calls of SetTimeout(0)
    MaxUpdates,  \* bound: calls of Update that leave a token
    None

\* The tasks, each named by the SetTimeout that made it; First is made by
\* CancelAfterInactivity.
First == "first"
Tasks == Setters \cup {First}
\* The goroutines that run check or finish: timers of tasks and callers.
Timer(t) == <<"timer", t>>
Timers == {Timer(t) : t \in Tasks}
Procs == Timers \cup Setters \cup Zeros

VARIABLES
    token,     \* t.updated holds a token
    updates,   \* Updates so far
    mu,        \* who holds t.mu, or None
    cur,       \* t.checkTask
    running,   \* per task: Periodic.running
    once,      \* t.once: nobody was in, somebody is, or it is over
    consumed,  \* t.consumed
    fired,     \* t.onTimeout was called
    pc         \* per goroutine

vars == <<token, updates, mu, cur, running, once, consumed, fired, pc>>

\* CancelAfterInactivity has returned: the first task waits for its interval.
Init ==
    /\ token = FALSE /\ updates = 0
    /\ mu = None
    /\ cur = First
    /\ running = [t \in Tasks |-> t = First]
    /\ once = "free" /\ consumed = FALSE /\ fired = FALSE
    /\ pc = [p \in Procs |-> IF p = Timer(First) THEN "pending" ELSE "idle"]

Update ==
    /\ updates < MaxUpdates
    /\ token' = TRUE /\ updates' = updates + 1
    /\ UNCHANGED <<mu, cur, running, once, consumed, fired, pc>>

\* Periodic.Close of the current task: a timer that still waits is stopped.
CloseTask(pcs) ==
    /\ running' = [running EXCEPT ![cur] = FALSE]
    /\ pc' = [pcs EXCEPT ![Timer(cur)] = IF @ = "pending" THEN "idle" ELSE @]

-----------------------------------------------------------------------------
(* Periodic.checkedExecute, with check and finish as its Execute *)

\* The interval ends, and hasClosed is looked at.
Fire(t) ==
    /\ pc[Timer(t)] = "pending"
    /\ pc' = [pc EXCEPT ![Timer(t)] = "fired"]
    /\ UNCHANGED <<token, updates, mu, cur, running, once, consumed, fired>>

\* Mutant: a running task is taken for a closed one.
CheckClosedNot(t) ==
    /\ pc[Timer(t)] = "fired"
    /\ pc' = [pc EXCEPT ![Timer(t)] = IF running[t] THEN "idle" ELSE "check"]
    /\ UNCHANGED <<token, updates, mu, cur, running, once, consumed, fired>>

CheckClosed(t) ==
    /\ pc[Timer(t)] = "fired"
    /\ pc' = [pc EXCEPT ![Timer(t)] = IF running[t] THEN "check" ELSE "idle"]
    /\ UNCHANGED <<token, updates, mu, cur, running, once, consumed, fired>>

\* check: a token means activity, none means timeout.
Check(p) ==
    /\ pc[p] = "check"
    /\ token' = FALSE
    /\ pc' = [pc EXCEPT ![p] = IF token THEN "arm" ELSE "once"]
    /\ UNCHANGED <<updates, mu, cur, running, once, consumed, fired>>

\* What finish returns to.
AfterFinish(p) == IF p \in Zeros THEN "done" ELSE "arm"

\* once.Do: the first one goes in, the others wait until it is out.
OnceEnter(p) ==
    /\ pc[p] = "once"
    /\ \/ /\ once = "free"
          /\ once' = "busy" /\ consumed' = TRUE
          /\ pc' = [pc EXCEPT ![p] = "finish"]
       \/ /\ once = "done"
          /\ pc' = [pc EXCEPT ![p] = AfterFinish(p)]
          /\ UNCHANGED <<once, consumed>>
    /\ UNCHANGED <<token, updates, mu, cur, running, fired>>

\* The body of finish under t.mu.
Finish(p) ==
    /\ pc[p] = "finish"
    /\ mu = None
    /\ fired' = TRUE /\ once' = "done"
    /\ CloseTask([pc EXCEPT ![p] = AfterFinish(p)])
    /\ UNCHANGED <<token, updates, mu, cur, consumed>>

\* The end of checkedExecute on a timer's goroutine: once more, if the task
\* was not closed.
Arm(t) ==
    /\ pc[Timer(t)] = "arm"
    /\ pc' = [pc EXCEPT ![Timer(t)] = IF running[t] THEN "pending" ELSE "idle"]
    /\ UNCHANGED <<token, updates, mu, cur, running, once, consumed, fired>>

-----------------------------------------------------------------------------
(* SetTimeout *)

SetTimeoutZero(p) ==
    /\ p \in Zeros /\ pc[p] = "idle"
    /\ pc' = [pc EXCEPT ![p] = IF consumed THEN "done" ELSE "once"]
    /\ UNCHANGED <<token, updates, mu, cur, running, once, consumed, fired>>

SetTimeout(s) ==
    /\ s \in Setters /\ pc[s] = "idle"
    /\ pc' = [pc EXCEPT ![s] = IF consumed THEN "done" ELSE "lock"]
    /\ UNCHANGED <<token, updates, mu, cur, running, once, consumed, fired>>

\* Under t.mu the old task is closed, the new one installed, a token left for
\* its first check, and Start runs that check.
Replace(s) ==
    /\ s \in Setters /\ pc[s] = "lock"
    /\ mu = None
    /\ IF consumed
         THEN /\ pc' = [pc EXCEPT ![s] = "done"]
              /\ UNCHANGED <<mu, cur, token, running>>
         ELSE /\ mu' = s /\ cur' = s /\ token' = TRUE
              /\ running' = [running EXCEPT ![cur] = FALSE, ![s] = TRUE]
              /\ pc' = [pc EXCEPT ![s] = "check",
                          ![Timer(cur)] = IF @ = "pending" THEN "idle" ELSE @]
    /\ UNCHANGED <<updates, once, consumed, fired>>

\* The first check is over: the timer of the new task is armed, and SetTimeout
\* unlocks.
Return(s) ==
    /\ s \in Setters /\ pc[s] = "arm"
    /\ mu' = None
    /\ pc' = [pc EXCEPT ![s] = "done",
                        ![Timer(s)] = IF running[s] THEN "pending" ELSE @]
    /\ UNCHANGED <<token, updates, cur, running, once, consumed, fired>>

-----------------------------------------------------------------------------

TimerStep(t) ==
    \/ Fire(t) \/ CheckClosed(t) \/ Arm(t)
    \/ Check(Timer(t)) \/ OnceEnter(Timer(t)) \/ Finish(Timer(t))

SetterStep(s) ==
    \/ Replace(s) \/ Return(s) \/ Check(s) \/ OnceEnter(s) \/ Finish(s)

ZeroStep(z) == OnceEnter(z) \/ Finish(z)

Next ==
    \/ Update
    \/ \E t \in Tasks : TimerStep(t)
    \/ \E s \in Setters : SetTimeout(s) \/ SetterStep(s)
    \/ \E z \in Zeros : SetTimeoutZero(z) \/ ZeroStep(z)

\* Timers expire and goroutines run.  MaxUpdates makes the connection idle in
\* the end.
Spec ==
    /\ Init /\ [][Next]_vars
    /\ \A t \in Tasks : WF_vars(TimerStep(t))
    /\ \A s \in Setters : WF_vars(SetterStep(s))
    /\ \A z \in Zeros : WF_vars(ZeroStep(z))

-----------------------------------------------------------------------------
(* Properties *)

\* A connection that falls silent, or gets a SetTimeout(0), ends in onTimeout
\* as long as nobody changes the timeout to another positive one.
SilenceEnds == <>(fired \/ \E s \in Setters : pc[s] # "idle")

\* "expected some error, but got nil" (timer_test.go): also after a SetTimeout
\* the connection that falls silent ends in onTimeout.
TimeoutHappens == <>fired

=============================================================================
