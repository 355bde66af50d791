-------------------------------- MODULE Pipe --------------------------------
(***************************************************************************)
(* transport/pipe: the in-memory pipe that joins an inbound to an outbound *)
(* (and mux sessions, and the dispatcher's links).  The bytes are guarded  *)
(* by a mutex, so each "Internal" operation is one step; the wake-ups go   *)
(* through two one-slot notifier channels, a done channel and a one-slot   *)
(* error channel, and each signal, wait and select is a step of its own.   *)
(* A MultiBuffer is a sequence of bytes and every byte is a distinct       *)
(* number, so that order, loss and duplication can be told apart.          *)
(***************************************************************************)
EXTENDS Integers, Sequences

CONSTANTS
    Readers,          \* goroutines that read
    Writers,          \* goroutines that write
    Limit,            \* pipeOption.limit, -1 for none
    MaxWrite,         \* bound: bytes of one WriteMultiBuffer call
    MaxBytes          \* bound: bytes of all the calls together

ASSUME PipeAssumption ==
    /\ Limit \in Int
    /\ MaxWrite \in Nat \ {0}
    /\ MaxBytes \in Nat

VARIABLES
    discard,      \* p.option.discardOverflow
    data,         \* p.data
    state,        \* p.state
    readSignal,   \* a token is in the readSignal channel
    writeSignal,  \* a token is in the writeSignal channel
    done,         \* p.done is closed
    errChan,      \* an error is in errChan
    rpc,          \* where each reader is
    timed,        \* the reader is in ReadMultiBufferTimeout
    rret,         \* what the reader's last finished call returned
    wpc,          \* where each writer is
    mb,           \* the argument of the writer's call
    issued,       \* number of bytes handed to WriteMultiBuffer so far
    accepted,     \* history: the bytes writeMultiBufferInternal has stored
    delivered     \* history: the bytes readMultiBufferInternal has taken

pipeVars == <<discard, data, state, readSignal, writeSignal, done, errChan>>
readerVars == <<rpc, timed, rret>>
writerVars == <<wpc, mb, issued>>
vars == <<pipeVars, readerVars, writerVars, accepted, delivered>>

isFull(curSize) == Limit >= 0 /\ curSize > Limit

MergeMulti(dest, src) == dest \o src

\* getState, "nil" standing for no error.
getStateForRead ==
    IF state = "open" \/ (state = "closed" /\ data # <<>>) THEN "nil"
    ELSE IF state = "closed" THEN "EOF" ELSE "ErrClosedPipe"

getStateForWrite ==
    IF state # "open" THEN "ErrClosedPipe"
    ELSE IF isFull(Len(data)) THEN "errBufferFull" ELSE "nil"

Init ==
    /\ discard \in BOOLEAN
    /\ data = <<>>
    /\ state = "open"
    /\ readSignal = FALSE
    /\ writeSignal = FALSE
    /\ done = FALSE
    /\ errChan = FALSE
    /\ rpc = [r \in Readers |-> "idle"]
    /\ timed = [r \in Readers |-> FALSE]
    /\ rret = [r \in Readers |-> "none"]
    /\ wpc = [w \in Writers |-> "idle"]
    /\ mb = [w \in Writers |-> <<>>]
    /\ issued = 0
    /\ accepted = <<>>
    /\ delivered = <<>>

-----------------------------------------------------------------------------
(* The reading side. *)

\* A caller enters ReadMultiBuffer, or ReadMultiBufferTimeout when t holds.
ReadCall(r, t) ==
    /\ rpc[r] = "idle"
    /\ rpc' = [rpc EXCEPT ![r] = "internal"]
    /\ timed' = [timed EXCEPT ![r] = t]
    /\ UNCHANGED <<pipeVars, rret, writerVars, accepted, delivered>>

\* readMultiBufferInternal under the lock, and the test of its result.
ReadInternal(r) ==
    LET err == getStateForRead IN
    /\ rpc[r] = "internal"
    /\ data' = IF err = "nil" THEN <<>> ELSE data
    /\ delivered' = IF err = "nil" THEN delivered \o data ELSE delivered
    /\ IF err = "nil" /\ data = <<>>
         THEN /\ rpc' = [rpc EXCEPT ![r] = "select"]
              /\ UNCHANGED rret
         ELSE /\ rpc' = [rpc EXCEPT ![r] = "signal"]
              /\ rret' = [rret EXCEPT ![r] = err]
    /\ UNCHANGED <<discard, state, readSignal, writeSignal, done, errChan,
                   timed, writerVars, accepted>>

\* Mutant: ReadMultiBufferTimeout forgets to signal the writers.
ReadSignalUntimed(r) ==
    /\ rpc[r] = "signal"
    /\ writeSignal' = (writeSignal \/ ~timed[r])
    /\ rpc' = [rpc EXCEPT ![r] = "idle"]
    /\ timed' = [timed EXCEPT ![r] = FALSE]
    /\ UNCHANGED <<discard, data, state, readSignal, done, errChan, rret,
                   writerVars, accepted, delivered>>

\* writeSignal.Signal() and the return.
ReadSignal(r) ==
    /\ rpc[r] = "signal"
    /\ writeSignal' = TRUE
    /\ rpc' = [rpc EXCEPT ![r] = "idle"]
    /\ timed' = [timed EXCEPT ![r] = FALSE]
    /\ UNCHANGED <<discard, data, state, readSignal, done, errChan, rret,
                   writerVars, accepted, delivered>>

\* The select: the notifier or the done channel sends the loop round again.
ReadWake(r) ==
    /\ rpc[r] = "select"
    /\ \/ readSignal /\ readSignal' = FALSE
       \/ done /\ UNCHANGED readSignal
    /\ rpc' = [rpc EXCEPT ![r] = "internal"]
    /\ UNCHANGED <<discard, data, state, writeSignal, done, errChan, timed,
                   rret, writerVars, accepted, delivered>>

\* The select's third case: an error of ReturnAnError, or the timer.
ReadGiveUp(r) ==
    /\ rpc[r] = "select"
    /\ \/ /\ ~timed[r] /\ errChan
          /\ errChan' = FALSE
          /\ rret' = [rret EXCEPT ![r] = "err"]
       \/ /\ timed[r]
          /\ rret' = [rret EXCEPT ![r] = "ErrReadTimeout"]
          /\ UNCHANGED errChan
    /\ rpc' = [rpc EXCEPT ![r] = "idle"]
    /\ timed' = [timed EXCEPT ![r] = FALSE]
    /\ UNCHANGED <<discard, data, state, readSignal, writeSignal, done,
                   writerVars, accepted, delivered>>

-----------------------------------------------------------------------------
(* The writing side. *)

\* A call with an empty MultiBuffer returns at once and is not modelled.
WriteCall(w, n) ==
    /\ wpc[w] = "idle"
    /\ issued + n <= MaxBytes
    /\ mb' = [mb EXCEPT ![w] = [i \in 1..n |-> issued + i]]
    /\ issued' = issued + n
    /\ wpc' = [wpc EXCEPT ![w] = "internal"]
    /\ UNCHANGED <<pipeVars, readerVars, accepted, delivered>>

\* A full pipe drops the bytes or blocks the writer.
onBufferFull == IF discard THEN "idle" ELSE "select"

\* writeMultiBufferInternal under the lock, and the branches on its error.
WriteInternal(w) ==
    LET err == getStateForWrite IN
    /\ wpc[w] = "internal"
    /\ data' = IF err = "nil" THEN MergeMulti(data, mb[w]) ELSE data
    /\ accepted' = IF err = "nil" THEN accepted \o mb[w] ELSE accepted
    /\ wpc' = [wpc EXCEPT ![w] = IF err = "errBufferFull"
                                   THEN onBufferFull ELSE "signal"]
    /\ mb' = IF wpc'[w] = "select" THEN mb ELSE [mb EXCEPT ![w] = <<>>]
    /\ UNCHANGED <<discard, state, readSignal, writeSignal, done, errChan,
                   readerVars, issued, delivered>>

\* Mutant: the reader is not signalled when the pipe has become full.
WriteSignalUnlessFull(w) ==
    /\ wpc[w] = "signal"
    /\ readSignal' = (readSignal \/ ~isFull(Len(data)))
    /\ wpc' = [wpc EXCEPT ![w] = "idle"]
    /\ UNCHANGED <<discard, data, state, writeSignal, done, errChan,
                   readerVars, mb, issued, accepted, delivered>>

\* readSignal.Signal() and the return, after a success and after an error.
WriteSignal(w) ==
    /\ wpc[w] = "signal"
    /\ readSignal' = TRUE
    /\ wpc' = [wpc EXCEPT ![w] = "idle"]
    /\ UNCHANGED <<discard, data, state, writeSignal, done, errChan,
                   readerVars, mb, issued, accepted, delivered>>

WriteWake(w) ==
    /\ wpc[w] = "select"
    /\ writeSignal
    /\ writeSignal' = FALSE
    /\ wpc' = [wpc EXCEPT ![w] = "internal"]
    /\ UNCHANGED <<discard, data, state, readSignal, done, errChan,
                   readerVars, mb, issued, accepted, delivered>>

WriteDone(w) ==
    /\ wpc[w] = "select"
    /\ done
    /\ wpc' = [wpc EXCEPT ![w] = "idle"]
    /\ mb' = [mb EXCEPT ![w] = <<>>]
    /\ UNCHANGED <<pipeVars, readerVars, issued, accepted, delivered>>

-----------------------------------------------------------------------------
(* Closing, interrupting and injecting an error, from any goroutine. *)

Close ==
    /\ state = "open"
    /\ state' = "closed"
    /\ done' = TRUE
    /\ UNCHANGED <<discard, data, readSignal, writeSignal, errChan,
                   readerVars, writerVars, accepted, delivered>>

\* Mutant: a drained, closed pipe fails as well.
InterruptAlways ==
    /\ state # "errord"
    /\ data' = <<>>
    /\ state' = "errord"
    /\ done' = TRUE
    /\ UNCHANGED <<discard, readSignal, writeSignal, errChan, readerVars,
                   writerVars, accepted, delivered>>

\* A closed pipe fails only if it still held data.
Interrupt ==
    /\ state = "open" \/ data # <<>>
    /\ data' = <<>>
    /\ state' = "errord"
    /\ done' = TRUE
    /\ UNCHANGED <<discard, readSignal, writeSignal, errChan, readerVars,
                   writerVars, accepted, delivered>>

\* The send blocks while errChan is full.
ReturnAnError ==
    /\ ~errChan
    /\ errChan' = TRUE
    /\ UNCHANGED <<discard, data, state, readSignal, writeSignal, done,
                   readerVars, writerVars, accepted, delivered>>

Recover ==
    /\ errChan
    /\ errChan' = FALSE
    /\ UNCHANGED <<discard, data, state, readSignal, writeSignal, done,
                   readerVars, writerVars, accepted, delivered>>

-----------------------------------------------------------------------------
ReaderStep(r) ==
    ReadInternal(r) \/ ReadSignal(r) \/ ReadWake(r) \/ ReadGiveUp(r)

WriterStep(w) ==
    WriteInternal(w) \/ WriteSignal(w) \/ WriteWake(w) \/ WriteDone(w)

Next ==
    \/ \E r \in Readers : ReaderStep(r) \/ \E t \in BOOLEAN : ReadCall(r, t)
    \/ \E w \in Writers :
          WriterStep(w) \/ \E n \in 1..MaxWrite : WriteCall(w, n)
    \/ Close \/ Interrupt \/ ReturnAnError \/ Recover

Spec == Init /\ [][Next]_vars

\* Go's scheduler runs every runnable goroutine, and a reader of this program
\* (buf.Copy) calls ReadMultiBuffer again after each successful return.
ReaderFairness ==
    \A r \in Readers :
        /\ WF_vars(ReadInternal(r))
        /\ WF_vars(ReadSignal(r))
        /\ WF_vars(ReadWake(r))
        /\ WF_vars(\E t \in BOOLEAN : ReadCall(r, t))

WriterFairness ==
    \A w \in Writers :
        /\ WF_vars(WriteInternal(w))
        /\ WF_vars(WriteSignal(w))
        /\ WF_vars(WriteWake(w))
        /\ WF_vars(WriteDone(w))

FairSpec == Spec /\ ReaderFairness /\ WriterFairness

-----------------------------------------------------------------------------
\* The variables have their types.
TypeOK ==
    /\ discard \in BOOLEAN
    /\ data \in Seq(Nat)
    /\ state \in {"open", "closed", "errord"}
    /\ readSignal \in BOOLEAN
    /\ writeSignal \in BOOLEAN
    /\ done \in BOOLEAN
    /\ errChan \in BOOLEAN
    /\ rpc \in [Readers -> {"idle", "internal", "select", "signal"}]
    /\ timed \in [Readers -> BOOLEAN]
    /\ rret \in [Readers -> {"none", "nil", "EOF", "ErrClosedPipe",
                             "ErrReadTimeout", "err"}]
    /\ wpc \in [Writers -> {"idle", "internal", "select", "signal"}]
    /\ mb \in [Writers -> Seq(Nat)]
    /\ issued \in Nat
    /\ accepted \in Seq(Nat)
    /\ delivered \in Seq(Nat)

\* Until the pipe is interrupted the bytes it accepted are exactly those it
\* has delivered followed by those it holds: whatever the interleaving of
\* readers and writers, MergeMulti and the hand-over of p.data neither lose,
\* duplicate nor reorder a byte.
Fifo == state # "errord" => accepted = delivered \o data

\* An EOF is the truth, for ever: once any reader got io.EOF every byte ever
\* accepted has been delivered, no later write is accepted and no later
\* Interrupt turns the clean end into a failure.
EofMeansComplete ==
    (\E r \in Readers : rret[r] = "EOF") =>
        state = "closed" /\ accepted = delivered

\* The size limit is soft by one write: the check and the append are under
\* one lock, so concurrent writers together overshoot by one call at most.
BoundedBuffer == Limit >= 0 => Len(data) <= Limit + MaxWrite

\* No lost wake-up of a reader: if bytes are waiting while a reader sleeps in
\* its select, then a token is in readSignal, or a writer is about to put one
\* there, or a reader is on its way to take the bytes.
NoSleepingReader ==
    (\E r \in Readers : rpc[r] = "select") /\ data # <<>> =>
        \/ readSignal
        \/ \E w \in Writers : wpc[w] = "signal"
        \/ \E r \in Readers : rpc[r] = "internal"

\* No writer is stranded.  The one-slot writeSignal wakes one of several
\* blocked writers, so a writer may sleep although the buffer has room; but
\* then the next read will signal again.  A sleeping writer in an open, empty
\* pipe always has a token, a reader about to give one, or another writer
\* about to put bytes in.
NoStrandedWriter ==
    (\E w \in Writers : wpc[w] = "select") /\ state = "open" /\ data = <<>> =>
        \/ writeSignal
        \/ \E r \in Readers : rpc[r] = "signal"
        \/ \E w \in Writers : wpc[w] = "internal"

\* No wake-up of a reader or of a writer is lost.
NoLostWakeup == NoSleepingReader /\ NoStrandedWriter

\* The pipe is the FIFO stream of ByteStream.
Stream == INSTANCE ByteStream WITH status <- state

\* Every step of the pipe is a step of the abstract stream or invisible to it.
ImplementsStream == Stream!StreamSpec

\* While readers keep reading, each accepted byte reaches one of them unless
\* the pipe is interrupted, even when it is closed meanwhile.
AcceptedIsDelivered ==
    \A b \in 1..MaxBytes :
        (\E i \in 1..Len(accepted) : accepted[i] = b) ~>
            \/ \E i \in 1..Len(delivered) : delivered[i] = b
            \/ state = "errord"

\* While readers keep reading, no WriteMultiBuffer blocks for ever: back
\* pressure ends with a read, a Close, an Interrupt or, with discardOverflow,
\* the loss of the bytes.
WritesReturn == \A w \in Writers : wpc[w] # "idle" ~> wpc[w] = "idle"

=============================================================================
