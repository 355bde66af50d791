-------------------------------- MODULE XUDP --------------------------------
(***************************************************************************)
(* common/mux XUDP: a UDP flow with a global identifier survives the mux   *)
(* connection it came in on.  XUDPManager maps the identifier to an XUDP   *)
(* object; a New frame on another connection detaches the object from its  *)
(* old session and binds it to a new one over the same link.  One global   *)
(* identifier is modelled; the actors are the server workers that receive  *)
(* New frames for it, the handle() goroutines that copy the link's         *)
(* downlink packets to a connection, and the expiry goroutine.             *)
(***************************************************************************)
EXTENDS Naturals, FiniteSets

CONSTANTS
    Workers,      \* server workers, one per mux connection
    MaxObjects,   \* bound: XUDP objects created
    MaxLinks,     \* bound: links obtained from the dispatcher
    MaxSessions   \* bound: sessions created

Objects == 1 .. MaxObjects
Links == 1 .. MaxLinks
Sessions == 1 .. MaxSessions
None == 0

VARIABLES
    entry,    \* XUDPManager.Map[id]: an object or None
    status,   \* per object: XUDP.Status
    mux,      \* per object: the session x.Mux points to, or None
    xlink,    \* per object: the link of x.Mux
    sess,     \* per session: [x, link, worker]
    close,    \* per session: "open", "sent" (inside Close) or "closed"
    nx, nl, ns,   \* objects, links and sessions created so far
    ended,    \* per link: both pipes interrupted or at their end
    errChan,  \* per link: an error is in the input pipe's errChan
    wpc,      \* per worker: where handleStatusNew is
    wx,       \* per worker: its local variable x
    dead,     \* per worker: its session manager is closed
    added,    \* the entries <<worker, session>> of the session managers
    handle    \* per worker and session: where handle(s, w.link.Writer) is

objVars == <<entry, status, mux, xlink>>
counters == <<nx, nl, ns>>
workerVars == <<wpc, wx, dead, added>>
vars == <<objVars, sess, close, counters, ended, errChan, workerVars, handle>>

Init ==
    /\ entry = None
    /\ status = [x \in Objects |-> "Initializing"]
    /\ mux = [x \in Objects |-> None]
    /\ xlink = [x \in Objects |-> None]
    /\ sess = [s \in Sessions |-> [x |-> None, link |-> None, worker |-> None]]
    /\ close = [s \in Sessions |-> "open"]
    /\ nx = 0 /\ nl = 0 /\ ns = 0
    /\ ended = [l \in Links |-> FALSE]
    /\ errChan = [l \in Links |-> FALSE]
    /\ wpc = [w \in Workers |-> "idle"]
    /\ wx = [w \in Workers |-> None]
    /\ dead = [w \in Workers |-> FALSE]
    /\ added = {}
    /\ handle = [w \in Workers |-> [s \in Sessions |-> "none"]]

-----------------------------------------------------------------------------
(* Session.Close, in two steps around runtime.Gosched(). *)

\* The pairs <<worker, session>> of the readers parked on the link.
Reading(l) == {r \in Workers \X Sessions :
                  sess[r[2]].link = l /\ handle[r[1]][r[2]] = "select"}

\* ReturnAnError(io.EOF): a reader parked in its select is handed the error,
\* otherwise it stays in the channel.
CloseBegin(s) ==
    LET l == sess[s].link IN
    /\ close[s] = "open"
    /\ ~errChan[l]
    /\ close' = [close EXCEPT ![s] = "sent"]
    /\ IF Reading(l) = {}
         THEN errChan' = [errChan EXCEPT ![l] = TRUE] /\ UNCHANGED handle
         ELSE /\ \E r \in Reading(l) :
                    handle' = [handle EXCEPT ![r[1]][r[2]] = "end"]
              /\ UNCHANGED errChan

\* Only an active object is put up for expiry.
PutUpForExpiry(x) == status[x] = "Active"

\* Mutant: the pending error is not cleared.
CloseEndNoRecover(s) ==
    LET x == sess[s].x IN
    /\ close[s] = "sent"
    /\ close' = [close EXCEPT ![s] = "closed"]
    /\ status' = [status EXCEPT ![x] =
                     IF PutUpForExpiry(x) THEN "Expiring" ELSE @]
    /\ added' = added \ {<<sess[s].worker, s>>}
    /\ UNCHANGED <<errChan, entry, mux, xlink, sess, counters, ended, wpc, wx,
                   dead, handle>>

\* Recover(), the change of status, Remove.
CloseEnd(s) ==
    LET x == sess[s].x IN
    /\ close[s] = "sent"
    /\ close' = [close EXCEPT ![s] = "closed"]
    /\ errChan' = [errChan EXCEPT ![sess[s].link] = FALSE]
    /\ status' = [status EXCEPT ![x] =
                     IF PutUpForExpiry(x) THEN "Expiring" ELSE @]
    /\ added' = added \ {<<sess[s].worker, s>>}
    /\ UNCHANGED <<entry, mux, xlink, sess, counters, ended, wpc, wx, dead,
                   handle>>

\* An End frame of the client, or the session manager's Close.
PeerCloses(s) ==
    /\ s <= ns
    /\ \E w \in Workers : <<w, s>> \in added
    /\ CloseBegin(s)
    /\ UNCHANGED <<objVars, sess, counters, ended, workerVars>>

-----------------------------------------------------------------------------
(* handleStatusNew of a worker, for a frame that carries the identifier. *)

\* Mutant: the conflict test is dropped.
InitializingIgnored(x) == FALSE

\* x.Status == Initializing
Conflict(x) == status[x] = "Initializing"

\* The lookup under the lock.  On a conflict the frame is dropped and nothing
\* changes.
Lookup(w) ==
    /\ wpc[w] = "idle" /\ ~dead[w] /\ ns < MaxSessions
    /\ \/ /\ entry = None /\ nx < MaxObjects
          /\ nx' = nx + 1
          /\ entry' = nx + 1
          /\ wx' = [wx EXCEPT ![w] = nx + 1]
          /\ wpc' = [wpc EXCEPT ![w] = "dispatch"]
          /\ UNCHANGED status
       \/ /\ entry # None
          /\ ~Conflict(entry)
          /\ status' = [status EXCEPT ![entry] = "Initializing"]
          /\ wx' = [wx EXCEPT ![w] = entry]
          /\ wpc' = [wpc EXCEPT ![w] = "detach"]
          /\ UNCHANGED <<nx, entry>>
    /\ UNCHANGED <<mux, xlink, sess, close, nl, ns, ended, errChan, dead,
                   handle, added>>

\* Mutant: the object is not detached from its previous session.
DetachSkipped(w) ==
    /\ wpc[w] = "detach"
    /\ wpc' = [wpc EXCEPT ![w] = "replay"]
    /\ UNCHANGED <<objVars, sess, close, counters, ended, errChan, wx, dead,
                   added, handle>>

\* x.Mux.Close(false), the wait for the lock of a Close in progress included.
Detach(w) ==
    LET s == mux[wx[w]] IN
    /\ wpc[w] = "detach"
    /\ \/ CloseBegin(s) /\ UNCHANGED wpc
       \/ /\ close[s] = "closed"
          /\ wpc' = [wpc EXCEPT ![w] = "replay"]
          /\ UNCHANGED <<close, errChan, handle>>
    /\ UNCHANGED <<objVars, sess, counters, ended, wx, dead, added>>

\* The first packet goes to the old link, or shows that it is dead.
Replay(w) ==
    /\ wpc[w] = "replay"
    /\ wpc' = [wpc EXCEPT ![w] = IF ended[xlink[wx[w]]] THEN "dispatch"
                                 ELSE "bind"]
    /\ UNCHANGED <<objVars, sess, close, counters, ended, errChan, wx, dead,
                   handle, added>>

DispatchLink(w) ==
    /\ wpc[w] = "dispatch" /\ nl < MaxLinks
    /\ nl' = nl + 1
    /\ xlink' = [xlink EXCEPT ![wx[w]] = nl + 1]
    /\ wpc' = [wpc EXCEPT ![w] = "bind"]
    /\ UNCHANGED <<entry, status, mux, sess, close, nx, ns, ended, errChan,
                   wx, dead, handle, added>>

\* Dispatch fails: the entry goes and the whole mux connection breaks.
DispatchFails(w) ==
    /\ wpc[w] = "dispatch"
    /\ entry' = None
    /\ wpc' = [wpc EXCEPT ![w] = "idle"]
    /\ dead' = [dead EXCEPT ![w] = TRUE]
    /\ UNCHANGED <<status, mux, xlink, sess, close, counters, ended, errChan,
                   wx, handle, added>>

\* x.Mux = &Session{...}; x.Status = Active
Bind(w) ==
    LET x == wx[w] IN
    /\ wpc[w] = "bind" /\ ns < MaxSessions
    /\ ns' = ns + 1
    /\ sess' = [sess EXCEPT ![ns + 1] =
                   [x |-> x, link |-> xlink[x], worker |-> w]]
    /\ mux' = [mux EXCEPT ![x] = ns + 1]
    /\ status' = [status EXCEPT ![x] = "Active"]
    /\ wpc' = [wpc EXCEPT ![w] = "add"]
    /\ UNCHANGED <<entry, xlink, close, nx, nl, ended, errChan, wx, dead,
                   handle, added>>

\* w.sessionManager.Add(x.Mux): x.Mux is read again.
Add(w) ==
    /\ wpc[w] = "add" /\ ~dead[w]
    /\ added' = added \cup {<<w, mux[wx[w]]>>}
    /\ wpc' = [wpc EXCEPT ![w] = "spawn"]
    /\ UNCHANGED <<objVars, sess, close, counters, ended, errChan, wx, dead,
                   handle>>

\* go handle(ctx, x.Mux, w.link.Writer): and once more.
Spawn(w) ==
    /\ wpc[w] = "spawn"
    /\ handle' = [handle EXCEPT ![w][mux[wx[w]]] = "busy"]
    /\ wpc' = [wpc EXCEPT ![w] = "idle"]
    /\ UNCHANGED <<objVars, sess, close, counters, ended, errChan, wx, dead,
                   added>>

\* Add fails on a closed manager: the session is closed again.
AddFails(w) ==
    LET s == mux[wx[w]] IN
    /\ wpc[w] = "add" /\ dead[w]
    /\ \/ CloseBegin(s) /\ UNCHANGED wpc
       \/ /\ close[s] = "closed"
          /\ wpc' = [wpc EXCEPT ![w] = "idle"]
          /\ UNCHANGED <<close, errChan, handle>>
    /\ UNCHANGED <<objVars, sess, counters, ended, wx, dead, added>>

WorkerDies(w) ==
    /\ ~dead[w]
    /\ dead' = [dead EXCEPT ![w] = TRUE]
    /\ UNCHANGED <<objVars, sess, close, counters, ended, errChan, wpc, wx,
                   handle, added>>

-----------------------------------------------------------------------------
(* handle(): copy packets from the link to the connection w. *)

\* A packet wakes the parked reader; it is written to the connection.
HandlePacket(w, s) ==
    /\ handle[w][s] = "select" /\ ~ended[sess[s].link]
    /\ handle' = [handle EXCEPT ![w][s] = "busy"]
    /\ UNCHANGED <<objVars, sess, close, counters, ended, errChan,
                   workerVars>>

\* The next ReadMultiBuffer: take a pending error, see the end, or park.
HandleRead(w, s) ==
    LET l == sess[s].link IN
    /\ handle[w][s] = "busy"
    /\ handle' = [handle EXCEPT ![w][s] =
                     IF ended[l] \/ errChan[l] THEN "end" ELSE "select"]
    /\ errChan' = IF ended[l] THEN errChan ELSE [errChan EXCEPT ![l] = FALSE]
    /\ UNCHANGED <<objVars, sess, close, counters, ended, workerVars>>

HandleSeesEnd(w, s) ==
    /\ handle[w][s] = "select" /\ ended[sess[s].link]
    /\ handle' = [handle EXCEPT ![w][s] = "end"]
    /\ UNCHANGED <<objVars, sess, close, counters, ended, errChan,
                   workerVars>>

\* writer.Close() and s.Close(false), for which it may wait.
HandleEnds(w, s) ==
    /\ handle[w][s] = "end"
    /\ \/ CloseBegin(s)
       \/ /\ close[s] = "closed"
          /\ handle' = [handle EXCEPT ![w][s] = "done"]
          /\ UNCHANGED <<close, errChan>>
    /\ UNCHANGED <<objVars, sess, counters, ended, workerVars>>

-----------------------------------------------------------------------------
(* The outbound side and the expiry goroutine. *)

\* The dispatched connection finishes: its pipes are at their end.
TargetEnds(l) ==
    /\ l <= nl /\ ~ended[l]
    /\ ended' = [ended EXCEPT ![l] = TRUE]
    /\ UNCHANGED <<objVars, sess, close, counters, errChan, workerVars,
                   handle>>

\* Mutant: the entry is deleted without interrupting its link.
ExpireKeepsLink ==
    /\ entry # None
    /\ status[entry] = "Expiring"
    /\ entry' = None
    /\ UNCHANGED <<ended, status, mux, xlink, sess, close, counters, errChan,
                   workerVars, handle>>

\* An entry a minute past its end: x.Interrupt() and the deletion.
Expire ==
    /\ entry # None
    /\ status[entry] = "Expiring"
    /\ ended' = [ended EXCEPT ![xlink[entry]] = TRUE]
    /\ entry' = None
    /\ UNCHANGED <<status, mux, xlink, sess, close, counters, errChan,
                   workerVars, handle>>

Next ==
    \/ \E w \in Workers :
          \/ Lookup(w) \/ Detach(w) \/ Replay(w) \/ DispatchLink(w)
          \/ DispatchFails(w) \/ Bind(w) \/ Add(w) \/ Spawn(w) \/ AddFails(w)
          \/ WorkerDies(w)
          \/ \E s \in Sessions :
                \/ HandlePacket(w, s) \/ HandleRead(w, s)
                \/ HandleSeesEnd(w, s) \/ HandleEnds(w, s)
    \/ \E s \in Sessions : PeerCloses(s) \/ CloseEnd(s)
    \/ \E l \in Links : TargetEnds(l)
    \/ Expire

Spec == Init /\ [][Next]_vars

\* Goroutines that can run do run; New frames, packets, failures and the
\* peer's End frames are free.  The sessions of a dead worker are closed by
\* its monitor.
Fairness ==
    /\ \A w \in Workers :
          /\ WF_vars(Detach(w) \/ Replay(w) \/ DispatchLink(w) \/ Bind(w)
                     \/ Add(w) \/ Spawn(w) \/ AddFails(w))
          /\ \A s \in Sessions :
                /\ WF_vars(HandleRead(w, s))
                /\ WF_vars(HandleSeesEnd(w, s) \/ HandleEnds(w, s))
                /\ WF_vars(dead[w] /\ <<w, s>> \in added /\ PeerCloses(s))
    /\ \A s \in Sessions : WF_vars(CloseEnd(s))
    /\ WF_vars(Expire)

FairSpec == Spec /\ Fairness

-----------------------------------------------------------------------------
(* Properties *)

Initializers(x) ==
    {w \in Workers :
        wx[w] = x /\ wpc[w] \in {"detach", "replay", "dispatch", "bind"}}

InUse(l) ==
    \/ \E s \in 1 .. ns : sess[s].link = l /\ close[s] # "closed"
    \/ \E w \in Workers : wpc[w] # "idle" /\ xlink[wx[w]] = l

\* The status Initializing is a lock: whatever connections the New frames of
\* one identifier arrive on, one handleStatusNew at a time works on the
\* object, and only while the object is marked and still in the map.
OneInitializer ==
    \A x \in 1 .. nx :
        /\ Cardinality(Initializers(x)) <= 1
        /\ Initializers(x) # {} => entry = x /\ status[x] = "Initializing"

\* Expiry never takes a link away from a session that is in use: the link an
\* expiring entry names has no open session.
ExpiryIsIdle ==
    entry # None /\ status[entry] = "Expiring" =>
        close[mux[entry]] # "open"

\* Close never blocks in ReturnAnError while it holds the manager's lock: no
\* error is pending on the link of a session that is still open.
CloseNeverBlocks ==
    \A s \in 1 .. ns : close[s] = "open" => ~errChan[sess[s].link]

\* The link of a flow is one connection's at a time, or the expiry's, and its
\* owner finds nothing that an earlier one left in it.
FlowHasOneOwner == OneInitializer /\ ExpiryIsIdle /\ CloseNeverBlocks

\* A link is used or released: one that no session and no handleStatusNew
\* uses any more is interrupted, by its target or by the expiry goroutine.
LinksAreReleased ==
    \A l \in Links : (l <= nl) ~> (ended[l] \/ InUse(l))

=============================================================================
