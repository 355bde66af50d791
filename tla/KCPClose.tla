------------------------------ MODULE KCPClose ------------------------------
(***************************************************************************)
(* transport/internet/kcp: the closing handshake of an mKCP connection.    *)
(* At each end the application, the goroutine that feeds Input and the two *)
(* updaters change Connection.state; each loads it, decides, and stores a  *)
(* new value later, with no lock in between.  Segments may be lost,        *)
(* repeated, reordered and delayed.  End "a" may write one datum that "b"  *)
(* reads; KCPWindow has the details of that transfer.  A duration the code *)
(* compares with the clock may have passed at any time.                    *)
(***************************************************************************)
EXTENDS Naturals, FiniteSets

CONSTANTS
    Updaters,     \* "data" and "ping", or "ping" alone to save states
    Closers,      \* the ends whose application closes
    Writes,       \* whether the application of "a" writes
    MaxNet,       \* bound: segments under way to one end at a time
    MaxReleases   \* bound: the count of Terminate calls saturates here

Ends == {"a", "b"}
Peer(e) == IF e = "a" THEN "b" ELSE "a"
Actors == {"app", "input"} \cup Updaters

VARIABLES
    state,    \* per end: Connection.state, "Active", "ReadyToClose",
              \* "PeerClosed", "Terminating", "PeerTerminating" or "Terminated"
    pend,     \* per end and actor: the state it has loaded, and will store
    net,      \* per end: segments on their way to it
    input,    \* per end: the segment Input works on
    wpc,      \* the writer of "a": "idle", "checked" or "done"
    holds,    \* the sending window of "a" holds the datum
    rcvd,     \* the datum is in, or was read from, the window of "b"
    released, \* per end: how often Terminate() ran
    early,    \* ghost: the datum was in the window when "a" called Close
    forced    \* ghost: "a" ran out of time, or its peer has closed too

dataVars == <<wpc, holds, rcvd, early, forced>>
vars == <<state, pend, net, input, released, dataVars>>

Undecided == [from |-> "none", to |-> "none"]
NoSegment == [kind |-> "none", close |-> FALSE, acked |-> FALSE]
Segment(e, k) ==
    [kind |-> k, close |-> state[e] = "ReadyToClose",
     acked |-> e = "b" /\ rcvd]

Init ==
    /\ state = [e \in Ends |-> "Active"]
    /\ pend = [e \in Ends |-> [x \in Actors |-> Undecided]]
    /\ net = [e \in Ends |-> {}]
    /\ input = [e \in Ends |-> NoSegment]
    /\ wpc = "idle" /\ holds = FALSE /\ rcvd = FALSE
    /\ released = [e \in Ends |-> 0]
    /\ early = FALSE /\ forced = FALSE

\* output.Write: the segment may be lost.
Write(e, k) ==
    \/ UNCHANGED net
    \/ /\ Cardinality(net[Peer(e)] \cup {Segment(e, k)}) <= MaxNet
       /\ net' = [net EXCEPT ![Peer(e)] = @ \cup {Segment(e, k)}]

-----------------------------------------------------------------------------
(* Which state an event leads to; "none" leaves the state alone. *)

\* Mutant: a local close does not wait for the window.
CloseToNow(s) ==
    IF s \in {"Active", "PeerClosed"} THEN "Terminating"
    ELSE IF s = "PeerTerminating" THEN "Terminated" ELSE "none"

CloseTo(s) ==
    IF s = "Active" THEN "ReadyToClose"
    ELSE IF s = "PeerClosed" THEN "Terminating"
    ELSE IF s = "PeerTerminating" THEN "Terminated" ELSE "none"

OnPeerClosedTo(s) ==
    IF s = "ReadyToClose" THEN "Terminating"
    ELSE IF s = "Active" THEN "PeerClosed" ELSE "none"

\* The CommandTerminate case of Input.
TerminateTo(s) ==
    IF s \in {"Active", "PeerClosed"} THEN "PeerTerminating"
    ELSE IF s = "ReadyToClose" THEN "Terminating"
    ELSE IF s = "Terminating" THEN "Terminated" ELSE "none"

\* Mutant: a terminating connection waits for its peer's word only.
TimeoutToWaits(s) ==
    IF s = "Active" THEN "ReadyToClose"
    ELSE IF s \in {"ReadyToClose", "PeerTerminating"} THEN "Terminating"
    ELSE "none"

\* The transitions of flush that wait for a clock.
TimeoutTo(s) ==
    IF s = "Active" THEN "ReadyToClose"                \* 30 s without input
    ELSE IF s = "ReadyToClose" THEN "Terminating"      \* 15 s
    ELSE IF s = "Terminating" THEN "Terminated"        \* 8 s
    ELSE IF s = "PeerTerminating" THEN "Terminating"   \* 4 s
    ELSE "none"

Decide(e, x, s) ==
    pend' = [pend EXCEPT ![e][x] =
                IF s = "none" THEN Undecided ELSE [from |-> state[e], to |-> s]]

\* SetState: CloseWrite in every state but ReadyToClose; Terminated wakes the
\* updaters and starts Terminate().
Store(e, x) ==
    LET s == pend[e][x].to
        clears == e = "a" /\ s # "ReadyToClose"
    IN
    /\ s # "none"
    /\ state' = [state EXCEPT ![e] = s]
    /\ Decide(e, x, "none")
    /\ holds' = (holds /\ ~clears)
    /\ IF s = "Terminated"
         THEN released' = [released EXCEPT ![e] =
                              IF @ < MaxReleases THEN @ + 1 ELSE @]
         ELSE UNCHANGED released
    /\ UNCHANGED <<net, input, wpc, rcvd, early, forced>>

-----------------------------------------------------------------------------
(* The application. *)

Close(e) ==
    /\ e \in Closers /\ pend[e]["app"] = Undecided
    /\ CloseTo(state[e]) # "none"
    /\ Decide(e, "app", CloseTo(state[e]))
    /\ early' = (early \/ (e = "a" /\ state[e] = "Active" /\ wpc = "done"))
    /\ UNCHANGED <<state, net, input, released, wpc, holds, rcvd, forced>>

\* writeMultiBufferInternal looks at the state, then pushes.
WriteCheck ==
    /\ Writes /\ wpc = "idle" /\ state["a"] = "Active"
    /\ wpc' = "checked"
    /\ UNCHANGED <<state, pend, net, input, released, holds, rcvd, early,
                   forced>>

Push ==
    /\ wpc = "checked"
    /\ wpc' = "done"
    /\ holds' = (released["a"] = 0)
    /\ UNCHANGED <<state, pend, net, input, released, rcvd, early, forced>>

-----------------------------------------------------------------------------
(* The updaters. *)

\* run(): dataUpdater stops at Terminating, pingUpdater at Terminated.
Flushing(e, u) ==
    /\ pend[e][u] = Undecided
    /\ state[e] # "Terminated"
    /\ u = "data" => state[e] # "Terminating"

\* No goroutine sleeps for the seconds of a timeout between its load and its
\* store: what is decided was decided in the present state.
Prompt(e) ==
    \A x \in Actors : pend[e][x] # Undecided => pend[e][x].from = state[e]

\* flush when a clock has run out.
FlushTimeout(e, u) ==
    /\ Flushing(e, u) /\ Prompt(e)
    /\ TimeoutTo(state[e]) # "none"
    /\ Decide(e, u, TimeoutTo(state[e]))
    /\ forced' = (forced \/ (e = "a" /\ state[e] = "ReadyToClose"))
    /\ UNCHANGED <<state, net, input, released, wpc, holds, rcvd, early>>

\* sendingWorker.IsEmpty()
Drained(e) == e = "a" => ~holds

\* flush of a closed connection whose window is empty.
FlushDrained(e, u) ==
    /\ Flushing(e, u)
    /\ state[e] = "ReadyToClose" /\ Drained(e)
    /\ Decide(e, u, "Terminating")
    /\ UNCHANGED <<state, net, input, released, dataVars>>

\* flush sends: the terminate command alone, or data, acknowledgement and ping.
FlushWrite(e, u) ==
    /\ Flushing(e, u)
    /\ \/ state[e] = "Terminating" /\ Write(e, "term")
       \/ /\ state[e] \notin {"Terminating", "Terminated"}
          /\ Write(e, "ping") \/ (e = "a" /\ holds /\ Write(e, "data"))
    /\ UNCHANGED <<state, pend, input, released, dataVars>>

-----------------------------------------------------------------------------
(* Input, one segment at a time, until the listener or dialer is closed. *)

\* HandleOption, then the terminate command, which never has the option.
Receive(e) ==
    \E m \in net[e], again \in BOOLEAN :
        /\ input[e] = NoSegment /\ pend[e]["input"] = Undecided
        /\ released[e] = 0
        /\ net' = [net EXCEPT ![e] = IF again THEN @ ELSE @ \ {m}]
        /\ input' = [input EXCEPT ![e] = m]
        /\ Decide(e, "input",
                  IF m.close THEN OnPeerClosedTo(state[e])
                  ELSE IF m.kind = "term" THEN TerminateTo(state[e])
                  ELSE "none")
        /\ forced' = (forced \/ (e = "a" /\ (m.close \/ m.kind = "term")))
        /\ UNCHANGED <<state, released, wpc, holds, rcvd, early>>

\* The rest of Input: ProcessSegment, ProcessReceivingNext.
InputPayload(e) ==
    /\ input[e] # NoSegment /\ pend[e]["input"] = Undecided
    /\ input' = [input EXCEPT ![e] = NoSegment]
    /\ rcvd' = (rcvd \/ input[e].kind = "data")
    /\ holds' = (holds /\ ~input[e].acked)
    /\ UNCHANGED <<state, pend, net, released, wpc, early, forced>>

Lose(e) ==
    \E m \in net[e] :
        /\ net' = [net EXCEPT ![e] = @ \ {m}]
        /\ UNCHANGED <<state, pend, input, released, dataVars>>

Next ==
    \/ WriteCheck \/ Push
    \/ \E e \in Ends :
          \/ Close(e) \/ Receive(e) \/ InputPayload(e) \/ Lose(e)
          \/ \E x \in Actors : Store(e, x)
          \/ \E u \in Updaters :
                \/ FlushTimeout(e, u) \/ FlushDrained(e, u) \/ FlushWrite(e, u)

Spec == Init /\ [][Next]_vars

\* At an end whose application closes, as the idle timers of the layers above
\* see to it, clocks run out and goroutines proceed.  The network and the
\* other end owe nothing.
Fairness ==
    \A e \in Closers :
        /\ WF_vars(Close(e))
        /\ WF_vars(InputPayload(e))
        /\ \A x \in Actors : WF_vars(Store(e, x))
        /\ \A u \in Updaters : WF_vars(FlushTimeout(e, u))

FairSpec == Spec /\ Fairness

-----------------------------------------------------------------------------
(* Properties *)

\* The peer learns of the termination after the data.
DataBeforeTermination ==
    early /\ ~forced /\ state["b"] = "PeerTerminating" => rcvd

\* Close leads to the release of the closing end's resources although every
\* segment may be lost and the peer may never close.
CloseReleases ==
    \A e \in Closers : (state[e] # "Active") ~> (released[e] > 0)

=============================================================================
