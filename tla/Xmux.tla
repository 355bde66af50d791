-------------------------------- MODULE Xmux --------------------------------
(***************************************************************************)
(* transport/internet/splithttp: XmuxManager (mux.go) hands out the HTTP   *)
(* clients of one destination, and Dial (dialer.go) uses them.  A manager  *)
(* is used under globalDialerAccess; the counters of a client are atomics  *)
(* that dials and uploads change without the lock.                         *)
(***************************************************************************)
EXTENDS Integers, FiniteSets

CONSTANTS
    Users,        \* calls of Dial, each with its connection
    Clients,      \* the clients that can be made: the bound of the model
    MaxRequests,  \* hMaxRequestTimes
    Limits,       \* the configurations: maxConnections and maxConcurrency,
                  \* where 0 is no limit, and cMaxReuseTimes
    None

VARIABLES
    limit,    \* the configuration of this manager
    pool,     \* m.xmuxClients
    made,     \* the clients made so far
    left,     \* leftUsage
    req,      \* LeftRequests
    running,  \* Running
    notUsed,  \* NotUsed
    broken,   \* IsClosed(): a request failed
    closed,   \* maybeClose closed the XmuxConn
    handed,   \* history: how often GetXmuxClient returned the client
    lock,     \* who holds globalDialerAccess, or None
    todo,     \* the clients the loop of GetXmuxClient has yet to look at
    check,    \* the client that GetXmuxClient is about to maybeClose, or None
    pc,       \* per user
    client,   \* per user: xmuxClient, counted in Running from AddRunning on
    loop,     \* per user: the upload loop is off, runs or changes its client
    dyn,      \* per user: dynamicXmuxClient of the upload loop
    posting   \* per user: the client a PostPacket is using, or None

cvars == <<left, req, running, notUsed, broken, closed, handed>>
uvars == <<client, loop, dyn, posting>>
vars == <<limit, pool, made, lock, todo, check, pc, cvars, uvars>>

Connections == limit[1]
Concurrency == limit[2]
MaxReuse == limit[3]

Init ==
    /\ limit \in Limits
    /\ pool = {} /\ made = {}
    /\ left = [c \in Clients |-> 0] /\ req = [c \in Clients |-> 0]
    /\ running = [c \in Clients |-> 0] /\ handed = [c \in Clients |-> 0]
    /\ notUsed = {} /\ broken = {} /\ closed = {}
    /\ lock = None /\ todo = {} /\ check = None
    /\ pc = [u \in Users |-> "idle"]
    /\ client = [u \in Users |-> None]
    /\ loop = [u \in Users |-> "off"]
    /\ dyn = [u \in Users |-> None] /\ posting = [u \in Users |-> None]

-----------------------------------------------------------------------------
(* GetXmuxClient, with the lock held *)

\* getHTTPClient, called by Dial or by the upload loop.
Lock(u) ==
    /\ pc[u] = "idle" \/ loop[u] = "swap"
    /\ lock = None
    /\ lock' = u /\ todo' = pool
    /\ UNCHANGED <<limit, pool, made, check, pc, cvars, uvars>>

\* The client is not to be used again.
Stale(c) == c \in broken \/ left[c] = 0 \/ req[c] <= 0

\* One round of the loop: a stale client is marked and taken out ...
Sweep(c) ==
    /\ c \in todo /\ check = None
    /\ todo' = todo \ {c}
    /\ IF Stale(c)
         THEN notUsed' = notUsed \cup {c} /\ pool' = pool \ {c} /\ check' = c
         ELSE UNCHANGED <<notUsed, pool, check>>
    /\ UNCHANGED <<limit, made, lock, pc, left, req, running, broken, closed,
                   handed, uvars>>

\* Mutant: a client is closed by its last user only.
SweepCloseNever ==
    /\ check # None
    /\ check' = None
    /\ UNCHANGED <<limit, pool, made, lock, todo, pc, cvars, uvars>>

\* ... and closed if nothing runs on it.
SweepClose ==
    /\ check # None
    /\ closed' = IF running[check] <= 0 THEN closed \cup {check} ELSE closed
    /\ check' = None
    /\ UNCHANGED <<limit, pool, made, lock, todo, pc, left, req, running,
                   notUsed, broken, handed, uvars>>

\* Mutant: the first use is not counted.
FirstUsageAll == MaxReuse

\* newXmuxClient: the use that makes the client is counted.
FirstUsage == MaxReuse - 1

\* The pool may still grow to maxConnections.
MustMake == Connections > 0 /\ Cardinality(pool) < Connections

\* The clients that may be reused.
Usable ==
    {c \in pool : Concurrency > 0 => running[c] < Concurrency}

\* The user goes on with client c: Dial has yet to count itself, the upload
\* loop posts at once.
Take(u, c) ==
    /\ lock' = None
    /\ handed' = [handed EXCEPT ![c] = @ + 1]
    /\ dyn' = [dyn EXCEPT ![u] = c]
    /\ IF pc[u] = "idle"
         THEN /\ client' = [client EXCEPT ![u] = c]
              /\ pc' = [pc EXCEPT ![u] = "got"]
              /\ UNCHANGED <<loop, posting>>
         ELSE /\ posting' = [posting EXCEPT ![u] = c]
              /\ loop' = [loop EXCEPT ![u] = "run"]
              /\ UNCHANGED <<client, pc>>
    /\ UNCHANGED <<limit, todo, check, running, notUsed, broken, closed>>

Make(u) ==
    /\ lock = u /\ todo = {} /\ check = None
    /\ pool = {} \/ MustMake \/ Usable = {}
    /\ \E c \in Clients \ made :
         /\ made' = made \cup {c} /\ pool' = pool \cup {c}
         /\ left' = [left EXCEPT ![c] = FirstUsage]
         /\ req' = [req EXCEPT ![c] = MaxRequests]
         /\ Take(u, c)

Reuse(u) ==
    /\ lock = u /\ todo = {} /\ check = None
    /\ pool # {} /\ ~MustMake
    /\ \E c \in Usable :
         /\ left' = [left EXCEPT ![c] = IF @ > 0 THEN @ - 1 ELSE @]
         /\ Take(u, c)
    /\ UNCHANGED <<limit, pool, made, req>>

-----------------------------------------------------------------------------
(* Dial and its connection *)

\* AddRunning, then LeftRequests.Add(-1) for the first request; the upload
\* loop starts.
AddRunning(u) ==
    /\ pc[u] = "got"
    /\ running' = [running EXCEPT ![client[u]] = @ + 1]
    /\ req' = [req EXCEPT ![client[u]] = @ - 1]
    /\ pc' = [pc EXCEPT ![u] = "up"]
    /\ loop' = [loop EXCEPT ![u] = "run"]
    /\ UNCHANGED <<limit, pool, made, lock, todo, check, left, notUsed, broken,
                   closed, handed, client, dyn, posting>>

\* The upload loop, which also goes on after the connection is closed while
\* its pipe has data, counts the request, and takes another client if this
\* was the last one.
Post(u) ==
    /\ loop[u] = "run" /\ posting[u] = None
    /\ req' = [req EXCEPT ![dyn[u]] = @ - 1]
    /\ IF req[dyn[u]] - 1 <= 0
         THEN loop' = [loop EXCEPT ![u] = "swap"] /\ UNCHANGED posting
         ELSE posting' = [posting EXCEPT ![u] = dyn[u]] /\ UNCHANGED loop
    /\ UNCHANGED <<limit, pool, made, lock, todo, check, pc, left, running,
                   notUsed, broken, closed, handed, client, dyn>>

\* PostPacket returns; a failure marks its client.
PostDone(u) ==
    /\ posting[u] # None
    /\ posting' = [posting EXCEPT ![u] = None]
    /\ broken' \in {broken, broken \cup {posting[u]}}
    /\ UNCHANGED <<limit, pool, made, lock, todo, check, pc, left, req,
                   running, notUsed, closed, handed, client, loop, dyn>>

\* onClose, once: DoneRunning counts down ...
Done(u) ==
    /\ pc[u] = "up"
    /\ running' = [running EXCEPT ![client[u]] = @ - 1]
    /\ pc' = [pc EXCEPT ![u] = "closing"]
    /\ UNCHANGED <<limit, pool, made, lock, todo, check, left, req, notUsed,
                   broken, closed, handed, uvars>>

\* ... and maybeClose looks.
MaybeClose(u) ==
    /\ pc[u] = "closing"
    /\ closed' = IF client[u] \in notUsed /\ running[client[u]] <= 0
                   THEN closed \cup {client[u]} ELSE closed
    /\ pc' = [pc EXCEPT ![u] = "end"]
    /\ UNCHANGED <<limit, pool, made, lock, todo, check, left, req, running,
                   notUsed, broken, handed, uvars>>

Next ==
    \/ \E u \in Users :
         \/ Lock(u) \/ Make(u) \/ Reuse(u)
         \/ AddRunning(u) \/ Post(u) \/ PostDone(u)
         \/ Done(u) \/ MaybeClose(u)
    \/ \E c \in Clients : Sweep(c)
    \/ SweepClose

Spec == Init /\ [][Next]_vars

-----------------------------------------------------------------------------
(* Properties *)

\* A client is handed out cMaxReuseTimes times at most, whoever races for it.
UsageBounded == \A c \in Clients : handed[c] <= MaxReuse

\* The users that are counted in Running, or will be.
Holders(c) ==
    {u \in Users : client[u] = c /\ pc[u] \in {"got", "up", "closing"}}

\* A client that left the pool is closed when its last user is gone: the last
\* DoneRunning or GetXmuxClient sees what the other one did.
NoClientLeaks ==
    \A c \in notUsed : (Holders(c) = {} /\ check # c) => c \in closed

\* A client is used up in time, and then closed.
ClientsRetire == UsageBounded /\ NoClientLeaks

=============================================================================
