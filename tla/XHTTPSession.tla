---------------------------- MODULE XHTTPSession ----------------------------
(***************************************************************************)
(* transport/internet/splithttp/hub.go: the requests of one session id.    *)
(* The first of them creates an httpSession; POST requests push into its   *)
(* upload queue, the GET request connects it and serves the connection     *)
(* until the client goes; a session that no GET connects is reaped after   *)
(* 30 seconds.  The queue is reduced to its occupancy and closed flag      *)
(* (UploadQueue has the rest).                                             *)
(***************************************************************************)
EXTENDS Naturals, FiniteSets

CONSTANTS
    Gets, Posts,   \* the requests
    Capacity,      \* ScMaxBufferedPosts
    None           \* no session

Requests == Gets \cup Posts
\* A request creates one session at most; the session carries its name.
Sessions == Requests

VARIABLES
    mapped,     \* sessions[sessionId], or None
    made,       \* the sessions created so far
    deleted,    \* history: the sessions that a Delete took out of the map
    connected,  \* the sessions whose isFullyConnected is done
    reaper,     \* per session: its reaper
    closed,     \* the sessions whose upload queue is closed
    queued,     \* per session: packets in the channel of the queue
    pc,         \* per request
    of          \* per request: currentSession

vars == <<mapped, made, deleted, connected, reaper, closed, queued, pc, of>>

Init ==
    /\ mapped = None
    /\ made = {} /\ deleted = {} /\ connected = {} /\ closed = {}
    /\ reaper = [s \in Sessions |-> "armed"]
    /\ queued = [s \in Sessions |-> 0]
    /\ pc = [r \in Requests |-> "idle"]
    /\ of = [r \in Requests |-> None]

\* sessions.Delete(sessionId): by id, whichever session is there.
Delete ==
    /\ mapped' = None
    /\ deleted' = deleted \cup ({mapped} \ {None})

-----------------------------------------------------------------------------
(* upsertSession *)

\* The fast path.
Lookup(r) ==
    /\ pc[r] = "idle"
    /\ of' = [of EXCEPT ![r] = mapped]
    /\ pc' = [pc EXCEPT ![r] = IF mapped = None THEN "slow" ELSE "have"]
    /\ UNCHANGED <<mapped, made, deleted, connected, reaper, closed, queued>>

\* Mutant: the slow path does not look again.
CreateBlind(r) ==
    /\ pc[r] = "slow"
    /\ made' = made \cup {r}
    /\ mapped' = r
    /\ of' = [of EXCEPT ![r] = r]
    /\ pc' = [pc EXCEPT ![r] = "have"]
    /\ UNCHANGED <<deleted, connected, reaper, closed, queued>>

\* The slow path, under sessionMu.  Deletes do not take the lock; between the
\* second Load and Store they find nothing.
Create(r) ==
    /\ pc[r] = "slow"
    /\ IF mapped # None
         THEN of' = [of EXCEPT ![r] = mapped] /\ UNCHANGED <<made, mapped>>
         ELSE /\ made' = made \cup {r}
              /\ mapped' = r
              /\ of' = [of EXCEPT ![r] = r]
    /\ pc' = [pc EXCEPT ![r] = "have"]
    /\ UNCHANGED <<deleted, connected, reaper, closed, queued>>

-----------------------------------------------------------------------------
(* The reaper *)

\* 30 seconds have passed; a GET does not need that long from creating its
\* session to connecting it, which are a few lines apart.
Expire(s) ==
    /\ s \in made /\ reaper[s] = "armed"
    /\ ~(s \in Gets /\ pc[s] = "have")
    /\ reaper' = [reaper EXCEPT ![s] = "expired"]
    /\ UNCHANGED <<mapped, made, deleted, connected, closed, queued, pc, of>>

\* Mutant: an expired session leaves the map but its queue stays open.
ReapDeleteOnly(s) ==
    /\ reaper[s] = "expired"
    /\ reaper' = [reaper EXCEPT ![s] = "done"]
    /\ Delete
    /\ UNCHANGED <<made, connected, closed, queued, pc, of>>

\* The select takes shouldReap ...
ReapDelete(s) ==
    /\ reaper[s] = "expired"
    /\ reaper' = [reaper EXCEPT ![s] = "reaping"]
    /\ Delete
    /\ UNCHANGED <<made, connected, closed, queued, pc, of>>

ReapClose(s) ==
    /\ reaper[s] = "reaping"
    /\ reaper' = [reaper EXCEPT ![s] = "done"]
    /\ closed' = closed \cup {s}
    /\ UNCHANGED <<mapped, made, deleted, connected, queued, pc, of>>

\* ... or isFullyConnected.
ReapCancel(s) ==
    /\ s \in connected /\ reaper[s] \in {"armed", "expired"}
    /\ reaper' = [reaper EXCEPT ![s] = "done"]
    /\ UNCHANGED <<mapped, made, deleted, connected, closed, queued, pc, of>>

-----------------------------------------------------------------------------
(* ServeHTTP *)

\* Push: there is room, or the queue is closed.
PostPush(r) ==
    /\ r \in Posts /\ pc[r] = "have"
    /\ \/ /\ queued[of[r]] < Capacity
          /\ queued' = [queued EXCEPT ![of[r]] = @ + 1]
          /\ pc' = [pc EXCEPT ![r] = IF of[r] \in closed THEN "failed"
                                                         ELSE "done"]
       \/ /\ of[r] \in closed
          /\ pc' = [pc EXCEPT ![r] = "failed"]
          /\ UNCHANGED queued
    /\ UNCHANGED <<mapped, made, deleted, connected, reaper, closed, of>>

GetConnect(r) ==
    /\ r \in Gets /\ pc[r] = "have"
    /\ connected' = connected \cup {of[r]}
    /\ pc' = [pc EXCEPT ![r] = "serving"]
    /\ UNCHANGED <<mapped, made, deleted, reaper, closed, queued, of>>

\* The application reads from the connection of a GET.
Drain(r) ==
    /\ r \in Gets /\ pc[r] = "serving"
    /\ of[r] \notin closed /\ queued[of[r]] > 0
    /\ queued' = [queued EXCEPT ![of[r]] = @ - 1]
    /\ UNCHANGED <<mapped, made, deleted, connected, reaper, closed, pc, of>>

\* Mutant: the connection ends without closing its reader.
GetEndOpen(r) ==
    /\ r \in Gets /\ pc[r] = "serving"
    /\ pc' = [pc EXCEPT ![r] = "ending"]
    /\ UNCHANGED <<mapped, made, deleted, connected, reaper, closed, queued,
                   of>>

\* The client goes or the application closes: conn.Close() ...
GetEnd(r) ==
    /\ r \in Gets /\ pc[r] = "serving"
    /\ closed' = closed \cup {of[r]}
    /\ pc' = [pc EXCEPT ![r] = "ending"]
    /\ UNCHANGED <<mapped, made, deleted, connected, reaper, queued, of>>

\* ... and the deferred Delete.
GetReturn(r) ==
    /\ r \in Gets /\ pc[r] = "ending"
    /\ Delete
    /\ pc' = [pc EXCEPT ![r] = "done"]
    /\ UNCHANGED <<made, connected, reaper, closed, queued, of>>

-----------------------------------------------------------------------------

Upsert(r) == Lookup(r) \/ Create(r)

Get(r) == GetConnect(r) \/ GetEnd(r) \/ GetReturn(r)

Handler(r) == Create(r) \/ PostPush(r) \/ Get(r)

Reaper(s) == Expire(s) \/ ReapDelete(s) \/ ReapClose(s) \/ ReapCancel(s)

Next ==
    \/ \E r \in Requests :
         Upsert(r) \/ Get(r) \/ PostPush(r) \/ Drain(r)
    \/ \E s \in Sessions : Reaper(s)

Spec == Init /\ [][Next]_vars

\* Handlers and reapers run, 30 seconds pass, and a GET ends some day.
FairSpec ==
    /\ Spec
    /\ \A r \in Requests : WF_vars(Handler(r))
    /\ \A s \in Sessions : WF_vars(Reaper(s))

-----------------------------------------------------------------------------
(* Properties *)

\* Requests that start at the same time meet in one session: a session is in
\* the map until some Delete takes it out, never displaced by another.
NoSplitSession == made \ deleted \subseteq {mapped}

\* A session does not outlive its reason: in the end its queue is closed by
\* the end of the GET or by the reaper, and no POST hangs on a full queue.
SessionsEnd ==
    <>[](made \subseteq closed /\ \A r \in Posts : pc[r] # "have")

=============================================================================
