---------------------------- MODULE HappyEyeballs ----------------------------
(***************************************************************************)
(* transport/internet/happy_eyeballs.go: TcpRaceDial starts a dial for one *)
(* address after the other, at most maxConcurrentTry at a time, and returns *)
(* the first connection that is made.  Its loop receives the results of the *)
(* dialing goroutines and the ticks of one timer; Stop and Reset leave no   *)
(* old tick behind (Go 1.23 and later).                                     *)
(***************************************************************************)
EXTENDS Naturals, FiniteSets

CONSTANTS
    N,                 \* len(ips)
    maxConcurrentTry

\* DialSystem races only two addresses or more, and not with a limit of 0.
ASSUME RaceAssumption ==
    N \in Nat /\ N >= 2 /\ maxConcurrentTry \in Nat \ {0}

Tries == 1 .. N

VARIABLES
    nextTryIndex,  \* addresses tried so far
    activeNum,
    timer,         \* the timer is armed
    winConn,       \* the try that won, or 0
    dial,          \* per try: where its goroutine is
    conn,          \* per try: its connection
    cancelled,     \* newCtx was cancelled by the loop
    ctxDone,       \* the caller's context has ended
    result         \* "none" while the loop runs, then what it returned

vars == <<nextTryIndex, activeNum, timer, winConn, dial, conn, cancelled,
          ctxDone, result>>

Init ==
    /\ nextTryIndex = 0 /\ activeNum = 0 /\ timer = TRUE /\ winConn = 0
    /\ dial = [i \in Tries |-> "none"] /\ conn = [i \in Tries |-> "none"]
    /\ cancelled = FALSE /\ ctxDone = FALSE /\ result = "none"

-----------------------------------------------------------------------------
(* tcpTryDial *)

\* Dial returns, with a connection or an error.
Dialed(i) ==
    /\ dial[i] = "dialing"
    /\ dial' = [dial EXCEPT ![i] = "dialed"]
    /\ conn' \in {conn, [conn EXCEPT ![i] = "open"]}
    /\ UNCHANGED <<nextTryIndex, activeNum, timer, winConn, cancelled, ctxDone,
                   result>>

\* The result is sent; a connection made after the race is over is closed.
Report(i) ==
    /\ dial[i] = "dialed"
    /\ dial' = [dial EXCEPT ![i] = "sent"]
    /\ conn' = IF (cancelled \/ ctxDone) /\ conn[i] = "open"
                 THEN [conn EXCEPT ![i] = "closed"] ELSE conn
    /\ UNCHANGED <<nextTryIndex, activeNum, timer, winConn, cancelled, ctxDone,
                   result>>

-----------------------------------------------------------------------------
(* The loop of TcpRaceDial *)

\* The tries whose result the loop has not received.
Outstanding == {i \in Tries : dial[i] \in {"dialing", "dialed", "sent"}}

\* Close of the connections of the tries in S, where there is one.
Closed(S) ==
    [i \in Tries |-> IF i \in S /\ conn[i] = "open" THEN "closed" ELSE conn[i]]

\* The caller gave up: what there is is closed, and the others are waited for.
AfterDone(i) ==
    /\ cancelled' = TRUE /\ timer' = FALSE
    /\ conn' = Closed({i, winConn})
    /\ result' = IF activeNum' = 0 THEN "ctx" ELSE "none"
    /\ UNCHANGED winConn

\* A connection: the first one wins, a later one is closed.
AfterConn(i) ==
    /\ cancelled' = TRUE /\ timer' = FALSE
    /\ winConn' = IF winConn = 0 THEN i ELSE winConn
    /\ conn' = IF winConn = 0 THEN conn ELSE Closed({i})
    /\ result' = IF activeNum' = 0 THEN "conn" ELSE "none"

\* Mutant: an error waits for the timer, which a full house has stopped.
AfterErrorWaits ==
    /\ IF winConn # 0
         THEN /\ result' = IF activeNum' = 0 THEN "conn" ELSE "none"
              /\ UNCHANGED timer
         ELSE /\ timer' = (timer /\ nextTryIndex < N)
              /\ result' = IF nextTryIndex = N /\ activeNum' = 0
                             THEN "err" ELSE "none"
    /\ UNCHANGED <<winConn, conn, cancelled>>

\* An error: the winner is returned when it was the last one; without a winner
\* the next address is tried at once.
AfterError ==
    /\ IF winConn # 0
         THEN /\ result' = IF activeNum' = 0 THEN "conn" ELSE "none"
              /\ UNCHANGED timer
         ELSE /\ timer' = (nextTryIndex < N)
              /\ result' = IF nextTryIndex = N /\ activeNum' = 0
                             THEN "err" ELSE "none"
    /\ UNCHANGED <<winConn, conn, cancelled>>

\* case r := <-resultCh
Receive(i) ==
    /\ result = "none" /\ dial[i] = "sent"
    /\ dial' = [dial EXCEPT ![i] = "taken"]
    /\ activeNum' = activeNum - 1
    /\ \/ ctxDone /\ AfterDone(i)
       \/ ~ctxDone /\ conn[i] = "open" /\ AfterConn(i)
       \/ ~ctxDone /\ conn[i] # "open" /\ AfterError
    /\ UNCHANGED <<nextTryIndex, ctxDone>>

\* case <-timer.C
Tick ==
    /\ result = "none" /\ timer
    /\ IF nextTryIndex = N \/ activeNum = maxConcurrentTry
         THEN /\ result' = "panic"
              /\ UNCHANGED <<nextTryIndex, activeNum, timer, dial>>
         ELSE /\ nextTryIndex' = nextTryIndex + 1
              /\ activeNum' = activeNum + 1
              /\ dial' = [dial EXCEPT ![nextTryIndex + 1] = "dialing"]
              /\ timer' = ~ ( \/ nextTryIndex + 1 = N
                              \/ activeNum + 1 = maxConcurrentTry)
              /\ UNCHANGED result
    /\ UNCHANGED <<winConn, conn, cancelled, ctxDone>>

\* The caller's context ends.
GiveUp ==
    /\ result = "none" /\ ~ctxDone
    /\ ctxDone' = TRUE
    /\ UNCHANGED <<nextTryIndex, activeNum, timer, winConn, dial, conn,
                   cancelled, result>>

Loop == Tick \/ \E i \in Tries : Receive(i)

Next == Loop \/ GiveUp \/ \E i \in Tries : Dialed(i) \/ Report(i)

Spec == Init /\ [][Next]_vars

\* The loop and the goroutines run, timers tick, and the system dialer gives
\* up by itself.
FairSpec ==
    /\ Spec
    /\ WF_vars(Loop)
    /\ \A i \in Tries : WF_vars(Dialed(i)) /\ WF_vars(Report(i))

-----------------------------------------------------------------------------
(* Properties *)

\* The variables have their types.
TypeOK ==
    /\ nextTryIndex \in 0 .. N /\ activeNum \in 0 .. N
    /\ timer \in BOOLEAN /\ cancelled \in BOOLEAN /\ ctxDone \in BOOLEAN
    /\ winConn \in 0 .. N
    /\ dial \in [Tries -> {"none", "dialing", "dialed", "sent", "taken"}]
    /\ conn \in [Tries -> {"none", "open", "closed"}]
    /\ result \in {"none", "ctx", "conn", "err", "panic"}

\* The "impossible situation" TcpRaceDial panics on does not happen: the timer
\* never ticks without an address to try and room for the try.
NoImpossibleSituation == result # "panic"

\* When TcpRaceDial returns no dial is under way that could still open a
\* connection, and every connection that was made is closed, except the one it
\* returns, which is open.  It fails only when its caller gave up or when
\* every address failed.
EndsClean ==
    result \in {"ctx", "conn", "err"} =>
        /\ \A i \in Tries : dial[i] \in {"none", "taken"}
        /\ \A i \in Tries : conn[i] = "open" <=> result = "conn" /\ i = winConn
        /\ result = "conn" => winConn # 0
        /\ result = "err" => \A i \in Tries : dial[i] = "taken" /\ conn[i] = "none"
        /\ result = "ctx" => ctxDone

\* The race ends.
RaceReturns == <>(result # "none")

=============================================================================
