------------------------------ MODULE MCSignal ------------------------------
(***************************************************************************)
(* Statistics channels, timers, subscriptions and the observatory's rounds  *)
(* side by side.  A behaviour is one of them; the others stay as they       *)
(* began.                                                                   *)
(***************************************************************************)
EXTENDS StatsChannel

CONSTANTS
    Late,                           \* of Msgs: one whose context ends early
    Setters, Zeros, MaxUpdates,     \* of ActivityTimer
    Subs, Capacity, MaxPublish,     \* of PubSub
    Tags, Rounds, Init0,            \* of HealthPing
    None

VARIABLES
    part,                                                   \* which of them
    token, updates, mu, tcur, running, once, consumed, fired, pc,
    prunning, psubs, open, pbuffer, lost, taken, seen, published, ppc,
    handlers, stopped, cancelPending, hcancelled, old, tags, waiting, arrived,
    results, hpc

tv == <<token, updates, mu, tcur, running, once, consumed, fired, pc>>
pv == <<prunning, psubs, open, pbuffer, lost, taken, seen, published, ppc>>
hv == <<handlers, stopped, cancelPending, hcancelled, old, tags, waiting,
        arrived, results, hpc>>

\* Modes: a blocking channel that all listen to; a non-blocking one; and one
\* that listeners leave, so that it is closed and started again.
MCModes ==
    { [blocking |-> TRUE, msgs |-> Msgs, leavers |-> {}, cancels |-> {},
       starts |-> MaxStarts],
      [blocking |-> FALSE, msgs |-> Msgs, leavers |-> {}, cancels |-> {Late},
       starts |-> 1],
      [blocking |-> TRUE, msgs |-> Msgs \ {Late}, leavers |-> Listeners,
       cancels |-> Msgs \ {Late}, starts |-> MaxStarts] }

Timer == INSTANCE ActivityTimer WITH cur <- tcur

Service == INSTANCE PubSub WITH
    running <- prunning, subs <- psubs, buffer <- pbuffer, pc <- ppc

Ping == INSTANCE HealthPing WITH cancelled <- hcancelled, pc <- hpc

MCInit ==
    /\ part \in {"timer", "service", "channel", "ping"}
    /\ Timer!Init /\ Service!Init /\ Init /\ Ping!Init
    /\ part # "ping" => handlers = {} /\ hpc[CHOOSE r \in Rounds : TRUE] = "select"
    /\ part # "channel" => mode = CHOOSE x \in Modes : TRUE

MCNext ==
    \/ part = "timer" /\ Timer!Next /\ UNCHANGED <<part, pv, vars, hv>>
    \/ part = "service" /\ Service!Next /\ UNCHANGED <<part, tv, vars, hv>>
    \/ part = "channel" /\ Next /\ UNCHANGED <<part, tv, pv, hv>>
    \/ part = "ping" /\ Ping!Next /\ UNCHANGED <<part, tv, pv, vars>>

\* Timers expire, goroutines run, listeners read, and a context that ends
\* does end: the fairness of the modules, each in its own behaviours.
Fairness ==
    /\ \A t \in Timer!Tasks : WF_tv(part = "timer" /\ Timer!TimerStep(t))
    /\ \A z \in Zeros : WF_tv(part = "timer" /\ Timer!ZeroStep(z))
    /\ \A s \in Subs :
         WF_pv(part = "service" /\ (Service!Start(s) \/ Service!Periodic(s)))
    /\ \A t \in Service!Timers :
         WF_pv(part = "service" /\ (Service!Fire(t) \/ Service!Periodic(t)))
    /\ \A g \in Gens : WF_vars(part = "channel" /\ ~panicked /\ Loop(g))
    /\ \A m \in Msgs : WF_vars(part = "channel" /\ ~panicked /\ Sender(m))
    /\ \A m \in Msgs, l \in Listeners :
         WF_vars(part = "channel" /\ ~panicked /\ SendLate(m, l))
    /\ \A l \in Listeners : WF_vars(part = "channel" /\ ~panicked /\ Hearer(l))
    /\ WF_hv(part = "ping" /\ \E r \in Rounds : Ping!Tick(r))
    /\ \A r \in Rounds : WF_hv(part = "ping" /\ Ping!Round(r))
    /\ \A c \in Rounds \cup {Init0} : WF_hv(part = "ping" /\ Ping!Check(c))

MCSpec == MCInit /\ [][MCNext]_<<part, tv, pv, vars, hv>> /\ Fairness

-----------------------------------------------------------------------------
(* The properties of the modules; those of StatsChannel are extended *)

\* ActivityTimer: a silent connection ends in onTimeout.
SilenceEnds == part = "timer" => Timer!SilenceEnds

\* PubSub: an open subscriber misses nothing.
NothingMissed == Service!NothingMissed

\* HealthPing: two rounds never ping side by side.
OneRoundPings == Ping!OneRoundPings

\* HealthPing: the results of removed outbounds are forgotten.
RemovedAreForgotten == Ping!RemovedAreForgotten

=============================================================================
