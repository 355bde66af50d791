----------------------------- MODULE HealthPing -----------------------------
(***************************************************************************)
(* app/observatory/burst/healthping.go: at every tick a goroutine pings the *)
(* outbounds that are selected then, over one whole interval, and clears    *)
(* the results of the others.  A round that is not over at the next tick is *)
(* cancelled by the next round.  One ping per outbound and round; of a ping *)
(* only whether the network was down matters.                               *)
(***************************************************************************)
EXTENDS Naturals, FiniteSets

CONSTANTS
    Tags,    \* outbounds
    Rounds,  \* goroutines of rounds; one that ended serves again
    Init0,   \* the one-time check that StartScheduler begins with
    None

Checks == Rounds \cup {Init0}

VARIABLES
    handlers,       \* the outbounds the selector finds now
    stopped,        \* h.ctx is cancelled
    cancelPending,  \* the round that is registered, or None
    cancelled,      \* the rounds whose subCtx is cancelled
    old,            \* per round: the one it found registered, or None
    tags,           \* per check: what it selected
    waiting,        \* per check: outbounds whose ping is under way
    arrived,        \* per check: outbounds whose result is in ch
    results,        \* outbounds that have an entry in h.Results
    pc              \* per check: where its goroutine is

vars == <<handlers, stopped, cancelPending, cancelled, old, tags, waiting,
          arrived, results, pc>>

\* StartScheduler has been called: the one-time check and the first round run.
Init ==
    /\ handlers \in SUBSET Tags
    /\ stopped = FALSE
    /\ cancelPending = None /\ cancelled = {}
    /\ old = [r \in Rounds |-> None]
    /\ tags = [c \in Checks |-> {}]
    /\ waiting = [c \in Checks |-> {}] /\ arrived = [c \in Checks |-> {}]
    /\ results = {}
    /\ \E r \in Rounds :
         pc = [c \in Checks |-> IF c \in {r, Init0} THEN "select" ELSE "idle"]

\* An outbound is added or removed by its manager.
Configure(t) ==
    /\ handlers' = IF t \in handlers THEN handlers \ {t} ELSE handlers \cup {t}
    /\ UNCHANGED <<stopped, cancelPending, cancelled, old, tags, waiting,
                   arrived, results, pc>>

\* StopScheduler
Stop ==
    /\ ~stopped /\ stopped' = TRUE
    /\ UNCHANGED <<handlers, cancelPending, cancelled, old, tags, waiting,
                   arrived, results, pc>>

-----------------------------------------------------------------------------
(* StartScheduler *)

\* <-ticker.C: a goroutine is started for the next round (under a name whose
\* last cancel function nobody holds any more).
Tick(r) ==
    /\ ~stopped /\ pc[r] = "idle"
    /\ \A s \in Rounds : old[s] # r
    /\ pc' = [pc EXCEPT ![r] = "select"]
    /\ UNCHANGED <<handlers, stopped, cancelPending, cancelled, old, tags,
                   waiting, arrived, results>>

\* selector, and for the one-time check the start of its pings.
Select(c) ==
    /\ pc[c] = "select"
    /\ tags' = [tags EXCEPT ![c] = handlers]
    /\ IF c = Init0
         THEN /\ waiting' = [waiting EXCEPT ![c] = handlers]
              /\ pc' = [pc EXCEPT ![c] = "check"]
         ELSE /\ pc' = [pc EXCEPT ![c] = "swap"]
              /\ UNCHANGED waiting
    /\ UNCHANGED <<handlers, stopped, cancelPending, cancelled, old, arrived,
                   results>>

\* WithCancel and cancelPending.Swap
Swap(r) ==
    /\ pc[r] = "swap"
    /\ old' = [old EXCEPT ![r] = cancelPending]
    /\ cancelPending' = r
    /\ pc' = [pc EXCEPT ![r] = "cancel"]
    /\ UNCHANGED <<handlers, stopped, cancelled, tags, waiting, arrived, results>>

\* The previous round is cancelled, unless it is over; doCheck begins.
Cancel(r) ==
    /\ pc[r] = "cancel"
    /\ cancelled' = cancelled \cup {s \in Rounds : s = old[r] /\ pc[s] # "idle"}
    /\ old' = [old EXCEPT ![r] = None]
    /\ waiting' = [waiting EXCEPT ![r] = tags[r]]
    /\ pc' = [pc EXCEPT ![r] = "check"]
    /\ UNCHANGED <<handlers, stopped, cancelPending, tags, arrived, results>>

\* Mutant: the end of a round clears the registration, whosever it is.
UnregisterAny(r) ==
    /\ pc[r] = "unregister"
    /\ cancelPending' = None
    /\ pc' = [pc EXCEPT ![r] = "cleanup"]
    /\ UNCHANGED <<handlers, stopped, cancelled, old, tags, waiting, arrived,
                   results>>

\* cancelPending.CompareAndSwap
Unregister(r) ==
    /\ pc[r] = "unregister"
    /\ cancelPending' = IF cancelPending = r THEN None ELSE cancelPending
    /\ pc' = [pc EXCEPT ![r] = "cleanup"]
    /\ UNCHANGED <<handlers, stopped, cancelled, old, tags, waiting, arrived,
                   results>>

\* Mutant: a round that was cancelled clears nothing.
CleanupUnlessCancelled(r) ==
    /\ pc[r] = "cleanup"
    /\ results' = IF r \in cancelled THEN results ELSE results \cap tags[r]
    /\ tags' = [tags EXCEPT ![r] = {}] /\ cancelled' = cancelled \ {r}
    /\ pc' = [pc EXCEPT ![r] = "idle"]
    /\ UNCHANGED <<handlers, stopped, cancelPending, old, waiting,
                   arrived>>

Cleanup(r) ==
    /\ pc[r] = "cleanup"
    /\ results' = results \cap tags[r]
    /\ tags' = [tags EXCEPT ![r] = {}] /\ cancelled' = cancelled \ {r}
    /\ pc' = [pc EXCEPT ![r] = "idle"]
    /\ UNCHANGED <<handlers, stopped, cancelPending, old, waiting,
                   arrived>>

-----------------------------------------------------------------------------
(* doCheck *)

\* A ping ends, well or not; its result goes into ch.  Without a network
\* nothing is to be recorded.
Ping(c, t) ==
    /\ pc[c] = "check" /\ t \in waiting[c]
    /\ waiting' = [waiting EXCEPT ![c] = @ \ {t}]
    /\ \/ arrived' = [arrived EXCEPT ![c] = @ \cup {t}]
       \/ UNCHANGED arrived                                 \* network is down
    /\ UNCHANGED <<handlers, stopped, cancelPending, cancelled, old, tags,
                   results, pc>>

\* A result is received: PutResult.
Receive(c, t) ==
    /\ pc[c] = "check" /\ t \in arrived[c]
    /\ arrived' = [arrived EXCEPT ![c] = @ \ {t}]
    /\ results' = results \cup {t}
    /\ UNCHANGED <<handlers, stopped, cancelPending, cancelled, old, tags,
                   waiting, pc>>

\* The context of the check has ended.
Done(c) == stopped \/ c \in cancelled

\* doCheck returns: all results are in, or its context has ended.
Return(c) ==
    /\ pc[c] = "check"
    /\ Done(c) \/ (waiting[c] = {} /\ arrived[c] = {})
    /\ waiting' = [waiting EXCEPT ![c] = {}]
    /\ arrived' = [arrived EXCEPT ![c] = {}]
    /\ IF c = Init0
         THEN tags' = [tags EXCEPT ![c] = {}] /\ pc' = [pc EXCEPT ![c] = "over"]
         ELSE pc' = [pc EXCEPT ![c] = "unregister"] /\ UNCHANGED tags
    /\ UNCHANGED <<handlers, stopped, cancelPending, cancelled, old, results>>

-----------------------------------------------------------------------------

Round(r) ==
    Swap(r) \/ Cancel(r) \/ Unregister(r) \/ Cleanup(r)

Check(c) ==
    \/ Select(c) \/ Return(c)
    \/ \E t \in Tags : Ping(c, t) \/ Receive(c, t)

Next ==
    \/ Stop \/ \E t \in Tags : Configure(t)
    \/ \E r \in Rounds : Tick(r) \/ Round(r)
    \/ \E c \in Checks : Check(c)

Spec == Init /\ [][Next]_vars

\* The ticker ticks, goroutines run and pings time out.
FairSpec ==
    /\ Spec
    /\ WF_vars(\E r \in Rounds : Tick(r))
    /\ \A r \in Rounds : WF_vars(Round(r))
    /\ \A c \in Checks : WF_vars(Check(c))

-----------------------------------------------------------------------------
(* Properties *)

\* However the rounds of StartScheduler overlap, a round that still pings is
\* the one that is registered, is cancelled, or is about to be cancelled by
\* the one that replaced it: two rounds never ping on side by side.
OneRoundPings ==
    \A r \in Rounds :
        pc[r] = "check" =>
            \/ cancelPending = r \/ r \in cancelled
            \/ \E s \in Rounds : pc[s] = "cancel" /\ old[s] = r

\* Once the outbounds stay as they are, the results of the removed ones go and
\* do not come back, unless the scheduler stops.
RemovedAreForgotten ==
    \A S \in SUBSET Tags :
        <>[](handlers = S /\ ~stopped) => <>[](results \subseteq S)

\* "Cleanup removes results of removed handlers, tags should be all valid tags
\* of the Balancer now": an outbound that is selected keeps its results.
CleanupKeepsSelected ==
    [][\A t \in results : t \in handlers => t \in results']_vars

=============================================================================
