--------------------------------- MODULE Mux ---------------------------------
(***************************************************************************)
(* common/mux: one ClientWorker and one ServerWorker that multiplex the    *)
(* flows dispatched to the client over one carrier connection.  Both sides *)
(* run the same shapes: a SessionManager behind a lock, a monitor with a   *)
(* ticker, one frame reader (fetchOutput, run) and one pump goroutine per  *)
(* session (fetchInput, handle).  The carrier delivers frames in order     *)
(* through bounded buffers, or breaks.  The n-th payload of a flow is the  *)
(* pair <<flow, n>>, so that cross-talk, loss and reordering can be seen.  *)
(* XUDP sessions have a module of their own.                               *)
(***************************************************************************)
EXTENDS Naturals, Sequences, FiniteSets, Functions

CONSTANTS
    Flows,           \* links handed to ClientWorker.Dispatch
    MaxConcurrency,  \* ClientStrategy, 0 for no limit
    MaxConnection,   \* ClientStrategy, 0 for no limit
    IdSpace,         \* session identifiers: 2^16 in the code
    LinkCap,         \* frames the pipes and sockets between the workers hold
    MaxSend,         \* bound: payloads of a flow in one direction
    MaxFaults,       \* bound: faults of the carrier and the applications
    Tickers          \* bound: the sides whose ticker fires

Sides == {"client", "server"}
Peer(s) == IF s = "client" THEN "server" ELSE "client"

VARIABLES
    mgr,       \* per side: SessionManager [sessions, count, closed]
    done,      \* per side: the worker's done instance is closed
    mon,       \* per side: where monitor() is
    check,     \* per side: checkSize and checkCount of monitor()
    reading,   \* per side: fetchOutput() or run() is running
    queue,     \* per side: frames on their way to that side
    link,      \* the carrier is "up" or "broken"
    pump,      \* per side and flow: where Dispatch, fetchInput or handle is
    sid,       \* per flow: Session.ID
    closed,    \* per side and flow: Session.closed
    attached,  \* per side and flow: Session.input and output are set
    inEnded,   \* per side and flow: reading the input gives EOF or an error
    outClosed, \* per side and flow: writing to the output gives an error
    sent,      \* per side and flow: payloads read from the input
    got,       \* per side and flow: payloads written to the output
    faults     \* number of faults so far

carrierVars == <<queue, link>>
workerVars == <<mgr, done, mon, check, reading>>
ioVars == <<inEnded, outClosed>>
sessionVars == <<pump, sid, closed, attached, ioVars, sent, got>>
vars == <<workerVars, carrierVars, sessionVars, faults>>

NoSessions == [i \in {} |-> 0]

Init ==
    /\ mgr = [s \in Sides |->
                 [sessions |-> NoSessions, count |-> 0, closed |-> FALSE]]
    /\ done = [s \in Sides |-> FALSE]
    /\ mon = [s \in Sides |-> IF s \in Tickers THEN "check" ELSE "wait"]
    /\ check = [s \in Sides |-> [size |-> 0, count |-> 0]]
    /\ reading = [s \in Sides |-> TRUE]
    /\ queue = [s \in Sides |-> <<>>]
    /\ link = "up"
    /\ pump = [s \in Sides |-> [f \in Flows |-> "none"]]
    /\ sid = [f \in Flows |-> 0]
    /\ closed = [s \in Sides |-> [f \in Flows |-> FALSE]]
    /\ attached = [s \in Sides |-> [f \in Flows |-> FALSE]]
    /\ inEnded = [s \in Sides |-> [f \in Flows |-> FALSE]]
    /\ outClosed = [s \in Sides |-> [f \in Flows |-> FALSE]]
    /\ sent = [s \in Sides |-> [f \in Flows |-> 0]]
    /\ got = [s \in Sides |-> [f \in Flows |-> <<>>]]
    /\ faults = 0

\* What the environment does wrong is bounded.
Fault == faults < MaxFaults /\ faults' = faults + 1

-----------------------------------------------------------------------------
(* The session manager. *)

Size(s) == Cardinality(DOMAIN mgr[s].sessions)

\* m.sessions[id] = f
With(m, id, f) == [i \in DOMAIN m \cup {id} |-> IF i = id THEN f ELSE m[i]]

Live(s, f) == pump[s][f] \notin {"none", "checked", "rejected"}

\* The test of Allocate; MaxConnection is truncated to 16 bits there.
CanAllocate ==
    LET m == mgr["client"] IN
    /\ ~m.closed
    /\ MaxConcurrency > 0 => Size("client") < MaxConcurrency
    /\ MaxConnection % IdSpace > 0 => m.count < MaxConnection % IdSpace

\* Mutant: the smallest free number is taken again.
AllocateIDReuse == Size("client") + 1

\* m.count++ in 16 bits.
AllocateID == (mgr["client"].count + 1) % IdSpace

\* Session.Close of every open session of F, but for the manager's map.  The
\* links of a session Dispatch has not attached yet are nil and stay as
\* they are.
CloseLinks(s, F) ==
    LET G == {f \in F : ~closed[s][f]}
        H == {f \in G : attached[s][f]}
    IN
    /\ closed' = [closed EXCEPT ![s] = [f \in Flows |-> f \in G \/ @[f]]]
    /\ inEnded' = [inEnded EXCEPT ![s] = [f \in Flows |-> f \in H \/ @[f]]]
    /\ outClosed' = [outClosed EXCEPT ![s] = [f \in Flows |-> f \in H \/ @[f]]]

\* Mutant: the entry is not removed.
CloseSessionKeep(s, f) == CloseLinks(s, {f}) /\ UNCHANGED mgr

\* Session.Close(false), Remove(s.ID) included.
CloseSession(s, f) ==
    /\ CloseLinks(s, {f})
    /\ mgr' = IF closed[s][f] \/ mgr[s].closed THEN mgr
              ELSE [mgr EXCEPT ![s].sessions =
                                  Restrict(@, DOMAIN @ \ {sid[f]})]

-----------------------------------------------------------------------------
(* Dispatch: IsFull, then Allocate under the lock, then the assignment of  *)
(* input and output and the start of fetchInput.                           *)

IsFull ==
    \/ MaxConnection > 0 /\ mgr["client"].count >= MaxConnection
    \/ done["client"]
    \/ MaxConcurrency > 0 /\ Size("client") >= MaxConcurrency

DispatchCheck(f) ==
    /\ pump["client"][f] = "none"
    /\ pump' = [pump EXCEPT !["client"][f] =
                   IF IsFull THEN "rejected" ELSE "checked"]
    /\ UNCHANGED <<workerVars, carrierVars, sid, closed, attached, ioVars,
                   sent, got, faults>>

Allocate(f) ==
    /\ pump["client"][f] = "checked"
    /\ IF CanAllocate
         THEN /\ sid' = [sid EXCEPT ![f] = AllocateID]
              /\ mgr' = [mgr EXCEPT !["client"].count = (@ + 1) % IdSpace,
                                    !["client"].sessions =
                                        With(@, AllocateID, f)]
              /\ pump' = [pump EXCEPT !["client"][f] = "allocated"]
         ELSE /\ pump' = [pump EXCEPT !["client"][f] = "rejected"]
              /\ UNCHANGED <<sid, mgr>>
    /\ UNCHANGED <<done, mon, check, reading, carrierVars, closed, attached,
                   ioVars, sent, got, faults>>

DispatchAttach(f) ==
    /\ pump["client"][f] = "allocated"
    /\ attached' = [attached EXCEPT !["client"][f] = TRUE]
    /\ pump' = [pump EXCEPT !["client"][f] = "first"]
    /\ UNCHANGED <<workerVars, carrierVars, sid, closed, ioVars, sent, got,
                   faults>>

-----------------------------------------------------------------------------
(* Writing frames.  A write blocks while the carrier is full and fails once *)
(* it is broken.                                                            *)

Frame(f, status, pay) ==
    [id |-> sid[f], flow |-> f, status |-> status, pay |-> pay,
     reply |-> FALSE]

CanWrite(s) == link = "broken" \/ Len(queue[Peer(s)]) < LinkCap

WriteFrame(s, fr) ==
    queue' = IF link = "broken" THEN queue
             ELSE [queue EXCEPT ![Peer(s)] = Append(@, fr)]

\* getNextFrameMeta
NextStatus(s, f) == IF pump[s][f] = "first" THEN "New" ELSE "Keep"

\* One read of the session's input and the frame it becomes.  fetchInput sends
\* New first, without data if none came in time; an error or the end of the
\* input leads to the End frame.
PumpCopy(s, f) ==
    /\ pump[s][f] \in {"first", "copy"}
    /\ \/ /\ ~inEnded[s][f] /\ sent[s][f] < MaxSend /\ CanWrite(s)
          /\ sent' = [sent EXCEPT ![s][f] = @ + 1]
          /\ WriteFrame(s, Frame(f, NextStatus(s, f), <<f, sent[s][f] + 1>>))
          /\ pump' = [pump EXCEPT ![s][f] =
                         IF link = "broken" THEN "end" ELSE "copy"]
       \/ /\ ~inEnded[s][f] /\ pump[s][f] = "first" /\ CanWrite(s)
          /\ WriteFrame(s, Frame(f, "New", <<>>))
          /\ pump' = [pump EXCEPT ![s][f] =
                         IF link = "broken" THEN "end" ELSE "copy"]
          /\ UNCHANGED sent
       \/ /\ inEnded[s][f]
          /\ pump' = [pump EXCEPT ![s][f] = "end"]
          /\ UNCHANGED <<sent, queue>>
    /\ UNCHANGED <<workerVars, link, sid, closed, attached, ioVars, got,
                   faults>>

\* writer.Close()
PumpEnd(s, f) ==
    /\ pump[s][f] = "end"
    /\ CanWrite(s)
    /\ WriteFrame(s, Frame(f, "End", <<>>))
    /\ pump' = [pump EXCEPT ![s][f] = "close"]
    /\ UNCHANGED <<workerVars, link, sid, closed, attached, ioVars, sent, got,
                   faults>>

\* s.Close(false)
PumpClose(s, f) ==
    /\ pump[s][f] = "close"
    /\ CloseSession(s, f)
    /\ pump' = [pump EXCEPT ![s][f] = "done"]
    /\ UNCHANGED <<done, mon, check, reading, carrierVars, sid, attached,
                   sent, got, faults>>

-----------------------------------------------------------------------------
(* Reading frames: one frame per round of fetchOutput() and run(). *)

Found(s, id) == ~mgr[s].closed /\ id \in DOMAIN mgr[s].sessions

\* The head of the queue is taken by the reader of side s.
Take(s, status) ==
    /\ reading[s]
    /\ queue[s] # <<>>
    /\ Head(queue[s]).status = status

\* run() or fetchOutput() returns: the deferred done.Close().
StopReading(s) ==
    /\ reading' = [reading EXCEPT ![s] = FALSE]
    /\ done' = [done EXCEPT ![s] = TRUE]

\* handleStatusNew of the server: Dispatch, Add, and the payload if any.
ServerNew ==
    LET fr == Head(queue["server"])
        f == fr.flow
        add == ~mgr["server"].closed
    IN
    /\ Take("server", "New")
    /\ queue' = [queue EXCEPT !["server"] = Tail(@)]
    /\ attached' = [attached EXCEPT !["server"][f] = TRUE]
    /\ pump' = [pump EXCEPT !["server"][f] = IF add THEN "copy" ELSE "done"]
    /\ IF add
         THEN /\ mgr' = [mgr EXCEPT !["server"].count = (@ + 1) % IdSpace,
                                    !["server"].sessions = With(@, fr.id, f)]
              /\ got' = [got EXCEPT !["server"][f] =
                            IF fr.pay = <<>> THEN @ ELSE Append(@, fr.pay)]
              /\ UNCHANGED <<done, reading, closed, ioVars>>
         ELSE /\ closed' = [closed EXCEPT !["server"][f] = TRUE]
              /\ inEnded' = [inEnded EXCEPT !["server"][f] = TRUE]
              /\ outClosed' = [outClosed EXCEPT !["server"][f] = TRUE]
              /\ StopReading("server")
              /\ UNCHANGED <<mgr, got>>
    /\ UNCHANGED <<mon, check, link, sid, sent, faults>>

\* Dispatch fails, or the network is not allowed: the error ends run().
ServerNewFails ==
    /\ Fault
    /\ Take("server", "New")
    /\ queue' = [queue EXCEPT !["server"] = Tail(@)]
    /\ StopReading("server")
    /\ UNCHANGED <<mgr, mon, check, link, sessionVars>>

\* handleStatusKeep of a known session: a failed write closes the session.
Keep(s) ==
    LET fr == Head(queue[s])
        f == mgr[s].sessions[fr.id]
    IN
    /\ Take(s, "Keep")
    /\ Found(s, fr.id)
    /\ queue' = [queue EXCEPT ![s] = Tail(@)]
    /\ IF ~outClosed[s][f]
         THEN /\ got' = [got EXCEPT ![s][f] = Append(@, fr.pay)]
              /\ UNCHANGED <<mgr, closed, ioVars>>
         ELSE CloseSession(s, f) /\ UNCHANGED got
    /\ UNCHANGED <<done, mon, check, reading, link, pump, sid, attached, sent,
                   faults>>

\* handleStatusKeep of an unknown session: the reader itself writes an End
\* frame back before it goes on, and may block doing so.
KeepUnknown(s) ==
    LET fr == Head(queue[s]) IN
    /\ Take(s, "Keep")
    /\ ~Found(s, fr.id)
    /\ CanWrite(s)
    /\ queue' = [q \in Sides |->
                    IF q = s THEN Tail(queue[s])
                    ELSE IF link = "broken" THEN queue[q]
                    ELSE Append(queue[q], [fr EXCEPT !.status = "End",
                                                     !.pay = <<>>,
                                                     !.reply = TRUE])]
    /\ UNCHANGED <<workerVars, link, sessionVars, faults>>

\* Mutant: the End frame of the peer is ignored.
EndIgnored(s) ==
    /\ Take(s, "End")
    /\ queue' = [queue EXCEPT ![s] = Tail(@)]
    /\ UNCHANGED <<workerVars, link, sessionVars, faults>>

\* handleStatusEnd
End(s) ==
    LET id == Head(queue[s]).id IN
    /\ Take(s, "End")
    /\ queue' = [queue EXCEPT ![s] = Tail(@)]
    /\ IF Found(s, id)
         THEN CloseSession(s, mgr[s].sessions[id])
         ELSE UNCHANGED <<mgr, closed, ioVars>>
    /\ UNCHANGED <<done, mon, check, reading, link, pump, sid, attached, sent,
                   got, faults>>

\* The carrier is gone.
ReadFails(s) ==
    /\ reading[s]
    /\ link = "broken"
    /\ StopReading(s)
    /\ UNCHANGED <<mgr, mon, check, carrierVars, sessionVars, faults>>

\* Process() returns in the goroutine of DialingWorkerFactory.Create.
ProcessReturns ==
    /\ link = "broken"
    /\ ~done["client"]
    /\ done' = [done EXCEPT !["client"] = TRUE]
    /\ UNCHANGED <<mgr, mon, check, reading, carrierVars, sessionVars,
                   faults>>

-----------------------------------------------------------------------------
(* monitor(): the snapshot, the tick and the shutdown. *)

\* checkSize and checkCount; without a tick to come they are of no use.
MonitorCheck(s) ==
    /\ mon[s] = "check"
    /\ check' = [check EXCEPT ![s] = [size |-> Size(s), count |-> mgr[s].count]]
    /\ mon' = [mon EXCEPT ![s] = "wait"]
    /\ UNCHANGED <<mgr, done, reading, carrierVars, sessionVars, faults>>

\* Mutant: the tick compares the snapshot only, not the present sessions.
IdleStale(s) == check[s].size = 0 /\ check[s].count = 0

Idle(s) ==
    /\ Size(s) = 0
    /\ check[s].size = 0
    /\ check[s].count = mgr[s].count

\* CloseIfNoSessionAndIdle
MonitorTick(s) ==
    /\ s \in Tickers
    /\ mon[s] = "wait"
    /\ mon' = [mon EXCEPT ![s] = "check"]
    /\ done' = [done EXCEPT ![s] = @ \/ mgr[s].closed \/ Idle(s)]
    /\ mgr' = IF mgr[s].closed \/ ~Idle(s) THEN mgr
              ELSE [mgr EXCEPT ![s].closed = TRUE, ![s].sessions = NoSessions]
    /\ UNCHANGED <<check, reading, carrierVars, sessionVars, faults>>

\* Mutant: the sessions are forgotten without being closed.
MonitorDoneForget(s) ==
    /\ mon[s] = "wait"
    /\ done[s]
    /\ mon' = [mon EXCEPT ![s] = "interrupt"]
    /\ mgr' = [mgr EXCEPT ![s].closed = TRUE, ![s].sessions = NoSessions]
    /\ UNCHANGED <<done, check, reading, carrierVars, sessionVars, faults>>

\* SessionManager.Close: Session.Close(true) of each session, whose Remove does
\* nothing because the manager is closed by then.
MonitorDone(s) ==
    /\ mon[s] = "wait"
    /\ done[s]
    /\ mon' = [mon EXCEPT ![s] = "interrupt"]
    /\ CloseLinks(s, Range(mgr[s].sessions))
    /\ mgr' = [mgr EXCEPT ![s].closed = TRUE, ![s].sessions = NoSessions]
    /\ UNCHANGED <<done, check, reading, carrierVars, pump, sid, attached,
                   sent, got, faults>>

\* Both ends of the carrier are interrupted.
MonitorInterrupt(s) ==
    /\ mon[s] = "interrupt"
    /\ mon' = [mon EXCEPT ![s] = "stopped"]
    /\ link' = "broken"
    /\ UNCHANGED <<mgr, done, check, reading, queue, sessionVars, faults>>

-----------------------------------------------------------------------------
(* The environment. *)

BreakLink ==
    /\ Fault
    /\ link = "up"
    /\ link' = "broken"
    /\ UNCHANGED <<workerVars, queue, sessionVars>>

\* run() sees that the context of the inbound is done.
Cancel ==
    /\ Fault
    /\ reading["server"]
    /\ StopReading("server")
    /\ UNCHANGED <<mgr, mon, check, carrierVars, sessionVars>>

\* The input ends, or the application is gone for both directions.
ApplicationEnds(s, f, both) ==
    /\ Fault
    /\ Live(s, f) /\ ~inEnded[s][f]
    /\ inEnded' = [inEnded EXCEPT ![s][f] = TRUE]
    /\ outClosed' = [outClosed EXCEPT ![s][f] = @ \/ both]
    /\ UNCHANGED <<workerVars, carrierVars, pump, sid, closed, attached, sent,
                   got>>

Pump(s, f) == PumpCopy(s, f) \/ PumpEnd(s, f) \/ PumpClose(s, f)
Reader(s) ==
    Keep(s) \/ KeepUnknown(s) \/ End(s) \/ (s = "server" /\ ServerNew)
Monitor(s) ==
    \/ MonitorCheck(s) \/ MonitorTick(s)
    \/ MonitorDone(s) \/ MonitorInterrupt(s)

Next ==
    \/ \E f \in Flows : DispatchCheck(f) \/ Allocate(f) \/ DispatchAttach(f)
    \/ \E s \in Sides :
          \/ Reader(s) \/ ReadFails(s) \/ Monitor(s)
          \/ \E f \in Flows :
                Pump(s, f) \/ \E b \in BOOLEAN : ApplicationEnds(s, f, b)
    \/ ServerNewFails \/ ProcessReturns \/ BreakLink \/ Cancel

Spec == Init /\ [][Next]_vars

\* Go runs every runnable goroutine; a broken carrier is noticed by the blocked
\* read; the tickers fire.  Applications and the carrier owe nothing.
Fairness ==
    /\ \A f \in Flows : WF_vars(Allocate(f)) /\ WF_vars(DispatchAttach(f))
    /\ \A s \in Sides :
          /\ WF_vars(Reader(s))
          /\ WF_vars(ReadFails(s))
          /\ WF_vars(MonitorCheck(s) \/ MonitorInterrupt(s))
          /\ WF_vars(MonitorTick(s))
          /\ SF_vars(MonitorDone(s))
          /\ \A f \in Flows : WF_vars(Pump(s, f))

FairSpec == Spec /\ Fairness

-----------------------------------------------------------------------------
\* The variables have their types.
TypeOK ==
    /\ \A s \in Sides :
          /\ DOMAIN mgr[s].sessions \subseteq 0 .. IdSpace - 1
          /\ Range(mgr[s].sessions) \subseteq Flows
          /\ mgr[s].count \in 0 .. IdSpace - 1
          /\ mgr[s].closed \in BOOLEAN
          /\ Len(queue[s]) <= LinkCap
    /\ done \in [Sides -> BOOLEAN]
    /\ reading \in [Sides -> BOOLEAN]
    /\ mon \in [Sides -> {"check", "wait", "interrupt", "stopped"}]
    /\ link \in {"up", "broken"}
    /\ pump \in [Sides -> [Flows -> {"none", "checked", "rejected",
             "allocated", "first", "copy", "end", "close", "done"}]]
    /\ sid \in [Flows -> 0 .. IdSpace - 1]
    /\ closed \in [Sides -> [Flows -> BOOLEAN]]
    /\ attached \in [Sides -> [Flows -> BOOLEAN]]
    /\ inEnded \in [Sides -> [Flows -> BOOLEAN]]
    /\ outClosed \in [Sides -> [Flows -> BOOLEAN]]
    /\ sent \in [Sides -> [Flows -> 0 .. MaxSend]]

\* No cross-talk: what a session's output received is, in order and without a
\* gap, what the same flow's other end read, although frames of closed
\* sessions are still under way when later sessions are allocated.
NoCrossTalk ==
    \A s \in Sides, f \in Flows :
        /\ Len(got[s][f]) <= sent[Peer(s)][f]
        /\ \A i \in 1 .. Len(got[s][f]) : got[s][f][i] = <<f, i>>

\* A manager's map holds exactly the open sessions, each under its own
\* identifier: no Remove takes another session's entry away and no Allocate
\* or Add overwrites one.
MapHoldsOpenSessions ==
    \A s \in Sides, f \in Flows :
        ~mgr[s].closed /\ Live(s, f) =>
            (~closed[s][f] <=> sid[f] \in DOMAIN mgr[s].sessions
                               /\ mgr[s].sessions[sid[f]] = f)

\* The sessions of one carrier do not interfere, in their bytes or in the map.
SessionsAreSeparate == NoCrossTalk /\ MapHoldsOpenSessions

\* The ticker's two-read snapshot never lets an idle close swallow a session:
\* when a manager is closed every session it ever admitted is closed.
IdleCloseIsClean ==
    \A s \in Sides, f \in Flows :
        mgr[s].closed /\ Live(s, f) => closed[s][f]

\* A session that ended on one side ends on the other: by its End frame, by
\* the End that answers a late Keep, or by the death of the carrier.
EndPropagates ==
    \A s \in Sides, f \in Flows :
        closed[Peer(s)][f] /\ Live(s, f) ~> closed[s][f]

\* A dead worker leaves no session behind.
DeathClosesSessions ==
    \A s \in Sides, f \in Flows : done[s] /\ Live(s, f) ~> closed[s][f]

\* When the server takes a Keep frame of a session it does not know it will
\* "notify remote peer to close this session" (server.go:307).
UnknownKeepNotifies ==
    \A f \in Flows :
        (/\ Take("server", "Keep")
         /\ Head(queue["server"]).flow = f
         /\ ~Found("server", Head(queue["server"]).id)) ~> closed["client"][f]
=============================================================================
