--------------------------- MODULE WaitReadCloser ---------------------------
(***************************************************************************)
(* transport/internet/splithttp/client.go: OpenStream returns a reader     *)
(* before the response is there.  Set hands over the body, Close may come  *)
(* before, after or during Set, and both may call close(w.Wait), whose     *)
(* second call panics and is recovered.                                    *)
(***************************************************************************)
EXTENDS Naturals, FiniteSets

CONSTANTS Closers, Readers

VARIABLES
    set,     \* w.ReadCloser # nil
    wait,    \* w.Wait is closed
    body,    \* "none", "open" or "closed": the body of the response
    spc,     \* the goroutine of OpenStream
    cpc,     \* the callers of Close
    rpc      \* the callers of Read

vars == <<set, wait, body, spc, cpc, rpc>>

Init ==
    /\ set = FALSE /\ wait = FALSE /\ body = "none"
    /\ spc = "request"
    /\ cpc = [c \in Closers |-> "idle"]
    /\ rpc = [r \in Readers |-> "idle"]

\* The response came: w.ReadCloser = rc.
Set ==
    /\ spc = "request"
    /\ body' = "open" /\ set' = TRUE
    /\ spc' = "signal"
    /\ UNCHANGED <<wait, cpc, rpc>>

\* Mutant: a recovered panic leaves the body open.
SignalOpen ==
    /\ spc = "signal"
    /\ wait' = TRUE
    /\ spc' = "done"
    /\ UNCHANGED <<set, body, cpc, rpc>>

\* close(w.Wait); when it panics the body is closed.
Signal ==
    /\ spc = "signal"
    /\ wait' = TRUE
    /\ body' = IF wait THEN "closed" ELSE body
    /\ spc' = "done"
    /\ UNCHANGED <<set, cpc, rpc>>

\* The request failed, or is of a kind whose body is not handed over: the
\* goroutine itself calls Close.
Fail ==
    /\ spc = "request"
    /\ wait' = TRUE
    /\ spc' = "done"
    /\ UNCHANGED <<set, body, cpc, rpc>>

\* Close looks at w.ReadCloser ...
CloseLook(c) ==
    /\ cpc[c] = "idle"
    /\ body' = IF set THEN "closed" ELSE body
    /\ cpc' = [cpc EXCEPT ![c] = IF set THEN "done" ELSE "signal"]
    /\ UNCHANGED <<set, wait, spc, rpc>>

\* ... and then calls close(w.Wait); when it panics it looks again.
CloseSignal(c) ==
    /\ cpc[c] = "signal"
    /\ wait' = TRUE
    /\ body' = IF wait /\ set THEN "closed" ELSE body
    /\ cpc' = [cpc EXCEPT ![c] = "done"]
    /\ UNCHANGED <<set, spc, rpc>>

ReadStart(r) ==
    /\ rpc[r] = "idle"
    /\ rpc' = [rpc EXCEPT ![r] = IF set THEN "reads" ELSE "waits"]
    /\ UNCHANGED <<set, wait, body, spc, cpc>>

ReadWake(r) ==
    /\ rpc[r] = "waits"
    /\ wait
    /\ rpc' = [rpc EXCEPT ![r] = IF set THEN "reads" ELSE "error"]
    /\ UNCHANGED <<set, wait, body, spc, cpc>>

Opener == Set \/ Signal \/ Fail

Next ==
    \/ Opener
    \/ \E c \in Closers : CloseLook(c) \/ CloseSignal(c)
    \/ \E r \in Readers : ReadStart(r) \/ ReadWake(r)

\* The request ends in one way or the other, and callers run.
Spec ==
    /\ Init /\ [][Next]_vars
    /\ WF_vars(Opener)
    /\ \A c \in Closers : WF_vars(CloseSignal(c))
    /\ \A r \in Readers : WF_vars(ReadWake(r))

-----------------------------------------------------------------------------
(* Properties *)

\* Once Close and the goroutine have both returned, the body does not stay
\* open, whichever of their steps came first.
BodyIsClosed ==
    (spc = "done" /\ \E c \in Closers : cpc[c] = "done") => body # "open"

=============================================================================
