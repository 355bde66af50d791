---------------------------- MODULE UDPDispatcher ---------------------------
(***************************************************************************)
(* udp.Dispatcher and the packet connection made of one                     *)
(* (transport/internet/udp/dispatcher.go).  Packets go out over one link at *)
(* a time, a connEntry, which ends when it is idle, when a write fails,     *)
(* when its input ends, or when the dispatcher is removed; the next packet  *)
(* then opens another.  An entry ends through its ActivityTimer, whose      *)
(* sync.Once runs terminate, and terminate panics when it is run twice.     *)
(***************************************************************************)
EXTENDS Naturals, FiniteSets

CONSTANTS
    MaxEntries,    \* bound: links opened
    MaxReplies,    \* bound: packets that come back
    Senders,       \* calls of Dispatch (WriteTo), each made once
    CacheSize      \* of dispatcherConn.cache

Entries == 1..MaxEntries

VARIABLES
    conn,          \* Dispatcher.conn, 0 for nil
    removed,       \* Dispatcher.closed
    made,          \* how many entries there have been
    timer,         \* [Entries -> "armed", "finishing" or "finished"]
    closed,        \* the entries with closed set: ctx cancelled, link ended
    terminated,    \* [Entries -> Nat]: how often terminate was called
    broken,        \* the entries whose link the other side ended
    input,         \* [Entries -> where handleInput is]
    replies,       \* [Entries -> Nat]: packets to be read from the link
    sent,          \* how many replies there have been
    done,          \* dispatcherConn.done
    cache,         \* how many packets dispatcherConn.cache holds
    pc, entry      \* [Senders -> ...]: the call, and the entry it was given

evars == <<timer, closed, terminated>>
vars == <<conn, removed, made, evars, broken, input, replies, sent, done, cache,
          pc, entry>>

Init ==
    /\ conn = 0 /\ removed = FALSE /\ made = 0
    /\ timer = [e \in Entries |-> "armed"]
    /\ closed = {} /\ broken = {}
    /\ terminated = [e \in Entries |-> 0]
    /\ input = [e \in Entries |-> "none"]
    /\ replies = [e \in Entries |-> 0]
    /\ sent = 0
    /\ done = FALSE /\ cache = 0
    /\ pc = [p \in Senders |-> "new"]
    /\ entry = [p \in Senders |-> 0]

-----------------------------------------------------------------------------
(* Ending an entry *)

terminate(e) ==
    /\ closed' = closed \cup {e}
    /\ terminated' = [terminated EXCEPT ![e] = @ + 1]

\* Mutant: Close terminates the entry itself.
CloseDirectly(e) ==
    /\ timer' = [timer EXCEPT ![e] = "finished"]
    /\ terminate(e)

\* connEntry.Close: timer.SetTimeout(0).  It runs terminate unless a timeout
\* has done so or is about to.
CloseEntry(e) ==
    IF timer[e] = "armed"
    THEN timer' = [timer EXCEPT ![e] = "finished"] /\ terminate(e)
    ELSE UNCHANGED evars

\* A minute without packets: the timer is consumed, ...
Idle(e) ==
    /\ e <= made /\ timer[e] = "armed"
    /\ timer' = [timer EXCEPT ![e] = "finishing"]
    /\ UNCHANGED <<conn, removed, made, closed, terminated, broken, input,
                   replies, sent, done, cache, pc, entry>>

\* ... and onTimeout called.
onTimeout(e) ==
    /\ timer[e] = "finishing"
    /\ timer' = [timer EXCEPT ![e] = "finished"]
    /\ terminate(e)
    /\ UNCHANGED <<conn, removed, made, broken, input, replies, sent, done,
                   cache, pc, entry>>

\* RemoveRay, under the lock.
RemoveRay ==
    /\ ~removed
    /\ removed' = TRUE
    /\ conn' = 0
    /\ IF conn # 0 THEN CloseEntry(conn) ELSE UNCHANGED evars
    /\ UNCHANGED <<made, broken, input, replies, sent, done, cache, pc, entry>>

-----------------------------------------------------------------------------
(* Dispatch *)

Reuse(p) ==
    /\ entry' = [entry EXCEPT ![p] = conn]
    /\ pc' = [pc EXCEPT ![p] = "write"]
    /\ UNCHANGED <<conn, made, input>>

Fail(p) ==
    /\ conn' = IF conn \in closed THEN 0 ELSE conn
    /\ pc' = [pc EXCEPT ![p] = "end"]
    /\ UNCHANGED <<made, input, entry>>

Open(p) ==
    /\ made < MaxEntries
    /\ made' = made + 1
    /\ conn' = made + 1
    /\ input' = [input EXCEPT ![made + 1] = "loop"]
    /\ entry' = [entry EXCEPT ![p] = made + 1]
    /\ pc' = [pc EXCEPT ![p] = "write"]

\* getInboundRay, under the lock: the entry in place unless it has ended, else
\* a new one, whose input is handled from now on; or an error.
getInboundRay(p) ==
    /\ pc[p] = "new"
    /\ \/ removed /\ pc' = [pc EXCEPT ![p] = "end"]
                  /\ UNCHANGED <<conn, made, input, entry>>
       \/ ~removed /\ conn # 0 /\ conn \notin closed /\ Reuse(p)
       \/ ~removed /\ (conn = 0 \/ conn \in closed) /\ (Open(p) \/ Fail(p))
    /\ UNCHANGED <<removed, evars, broken, replies, sent, done, cache>>

\* The write goes out, outside the lock; over a link that has ended it fails,
\* and the entry is closed.
Write(p) ==
    /\ pc[p] = "write"
    /\ pc' = [pc EXCEPT ![p] = "end"]
    /\ IF entry[p] \in closed \cup broken THEN CloseEntry(entry[p])
       ELSE UNCHANGED evars
    /\ UNCHANGED <<conn, removed, made, broken, input, replies, sent, done,
                   cache, entry>>

-----------------------------------------------------------------------------
(* The other side of the link, and handleInput *)

Reply(e) ==
    /\ e <= made /\ e \notin closed \cup broken /\ sent < MaxReplies
    /\ replies' = [replies EXCEPT ![e] = @ + 1]
    /\ sent' = sent + 1
    /\ UNCHANGED <<conn, removed, made, evars, broken, input, done, cache, pc,
                   entry>>

Break(e) ==
    /\ e <= made /\ e \notin broken
    /\ broken' = broken \cup {e}
    /\ UNCHANGED <<conn, removed, made, evars, input, replies, sent, done,
                   cache, pc, entry>>

Goto(e, l) == input' = [input EXCEPT ![e] = l]

\* The top of the loop looks at the context.
InputLoop(e) ==
    /\ input[e] = "loop"
    /\ Goto(e, IF e \in closed THEN "close" ELSE "read")
    /\ UNCHANGED <<conn, removed, made, evars, broken, replies, sent, done,
                   cache, pc, entry>>

\* ReadMultiBuffer returns a packet for dispatcherConn.callback, which drops
\* it when the cache is full and may when the connection is closed, ...
InputPacket(e) ==
    /\ input[e] = "read" /\ replies[e] > 0 /\ e \notin closed
    /\ replies' = [replies EXCEPT ![e] = @ - 1]
    /\ \/ cache < CacheSize /\ cache' = cache + 1
       \/ (done \/ cache = CacheSize) /\ UNCHANGED cache
    /\ Goto(e, "loop")
    /\ UNCHANGED <<conn, removed, made, evars, broken, sent, done, pc, entry>>

\* Mutant: terminate leaves the reader alone.
InputEndBroken(e) ==
    /\ input[e] = "read" /\ replies[e] = 0 /\ e \in broken
    /\ Goto(e, "close")
    /\ UNCHANGED <<conn, removed, made, evars, broken, replies, sent, done,
                   cache, pc, entry>>

\* ... or an error, once the link is interrupted or has ended.
InputEnd(e) ==
    /\ input[e] = "read"
    /\ e \in closed \/ (e \in broken /\ replies[e] = 0)
    /\ Goto(e, "close")
    /\ UNCHANGED <<conn, removed, made, evars, broken, replies, sent, done,
                   cache, pc, entry>>

\* The deferred function: the entry is closed, and the packet connection too.
InputClose(e) ==
    /\ input[e] = "close"
    /\ Goto(e, "end")
    /\ CloseEntry(e)
    /\ done' = TRUE
    /\ UNCHANGED <<conn, removed, made, broken, replies, sent, cache, pc, entry>>

-----------------------------------------------------------------------------
(* The user of the packet connection *)

ReadFrom ==
    /\ cache > 0
    /\ cache' = cache - 1
    /\ UNCHANGED <<conn, removed, made, evars, broken, input, replies, sent,
                   done, pc, entry>>

CloseConn ==
    /\ ~done
    /\ done' = TRUE
    /\ UNCHANGED <<conn, removed, made, evars, broken, input, replies, sent,
                   cache, pc, entry>>

-----------------------------------------------------------------------------

Dispatch(p) == getInboundRay(p) \/ Write(p)

handleInput(e) ==
    InputLoop(e) \/ InputPacket(e) \/ InputEnd(e) \/ InputClose(e)

Next ==
    \/ RemoveRay \/ ReadFrom \/ CloseConn
    \/ \E p \in Senders : Dispatch(p)
    \/ \E e \in Entries :
         handleInput(e) \/ Idle(e) \/ onTimeout(e) \/ Reply(e) \/ Break(e)

\* Goroutines run and timers expire.  Nobody has to read, close or remove.
Fairness ==
    \A e \in Entries :
       WF_vars(handleInput(e)) /\ WF_vars(Idle(e)) /\ WF_vars(onTimeout(e))

Spec == Init /\ [][Next]_vars /\ Fairness

-----------------------------------------------------------------------------
(* Properties *)

\* However its ends race, an entry is terminated once (terminate panics with
\* "terminate called more than once"); and no link is left behind: one that
\* the dispatcher no longer holds has been terminated, or is about to be.
EndedOnce ==
    \A e \in Entries :
       /\ terminated[e] <= 1
       /\ e <= made /\ e # conn => e \in closed \/ (removed /\ timer[e] # "armed")

\* Every link that was opened is interrupted in the end and its goroutine
\* returns, whether the user removes the dispatcher, closes the packet
\* connection (which removes nothing) or forgets both.
LinksEnd ==
    <>[](\A e \in Entries : e <= made => e \in closed /\ input[e] = "end")

=============================================================================
