------------------------------ MODULE UDPWorker ------------------------------
(***************************************************************************)
(* udpWorker of app/proxyman/inbound/worker.go: it makes a connection of    *)
(* the packets of a source, runs the proxy on it in a goroutine of its own, *)
(* and has a task.Periodic (common/task/periodic.go) close the connections  *)
(* that fall silent.  The goroutine that receives packets runs the first    *)
(* round of that task itself, inside Start.  Payloads, and Close of the     *)
(* whole worker, are left out.                                              *)
(***************************************************************************)
EXTENDS Naturals

CONSTANTS
    Ids,       \* connID: the sources
    MaxConns,  \* bound: connections made
    None

Conns == 1 .. MaxConns

VARIABLES
    made,        \* connections made so far
    id,          \* per connection: its source
    activeConn,  \* per source: its connection, or None
    done,        \* per connection: conn.done
    inactive,    \* per connection: conn.inactive
    silent,      \* per connection: no activity for two minutes
    pc,          \* per connection: where its goroutine is
    receiver,    \* where the goroutine that receives packets is
    new,         \* the connection it has made
    running,     \* checker.running
    timer        \* where the goroutine of the checker's timer is

conns == <<made, id, done, inactive, silent>>
vars == <<conns, activeConn, pc, receiver, new, running, timer>>

Init ==
    /\ made = 0 /\ id = [c \in Conns |-> None]
    /\ activeConn = [i \in Ids |-> None]
    /\ done = [c \in Conns |-> FALSE] /\ inactive = [c \in Conns |-> FALSE]
    /\ silent = [c \in Conns |-> FALSE]
    /\ pc = [c \in Conns |-> "none"]
    /\ receiver = "receive" /\ new = None
    /\ running = FALSE /\ timer = "none"

-----------------------------------------------------------------------------
(* handlePackets and callback *)

\* getConnection: the connection of the source, unless it is done.
Packet(i) ==
    /\ receiver = "receive"
    /\ LET c == activeConn[i]
           found == c # None /\ ~done[c]
       IN  \/ /\ found
              /\ silent' = [silent EXCEPT ![c] = FALSE]
              /\ UNCHANGED <<made, id, done, inactive, activeConn, receiver, new>>
           \/ /\ ~found
              /\ made < MaxConns
              /\ made' = made + 1 /\ new' = made + 1
              /\ id' = [id EXCEPT ![made + 1] = i]
              /\ activeConn' = [activeConn EXCEPT ![i] = made + 1]
              /\ receiver' = "start"
              /\ UNCHANGED <<done, inactive, silent>>
    /\ UNCHANGED <<pc, running, timer>>

\* The goroutine of the new connection is started.
Go ==
    /\ receiver = "go"
    /\ pc' = [pc EXCEPT ![new] = "process"]
    /\ receiver' = "receive" /\ new' = None
    /\ UNCHANGED <<conns, activeConn, running, timer>>

-----------------------------------------------------------------------------
(* The goroutine of a connection *)

\* The proxy reads or writes, or two minutes pass in which it does neither.
Traffic(c) ==
    /\ pc[c] = "process"
    /\ silent' = [silent EXCEPT ![c] = ~@]
    /\ UNCHANGED <<made, id, done, inactive, activeConn, pc, receiver, new,
                   running, timer>>

\* Process returns, of itself or because the connection was closed.
Processed(c) ==
    /\ pc[c] = "process"
    /\ pc' = [pc EXCEPT ![c] = "close"]
    /\ UNCHANGED <<conns, activeConn, receiver, new, running, timer>>

CloseConn(c) ==
    /\ pc[c] = "close"
    /\ done' = [done EXCEPT ![c] = TRUE]
    /\ pc' = [pc EXCEPT ![c] = "test"]
    /\ UNCHANGED <<made, id, inactive, silent, activeConn, receiver, new,
                   running, timer>>

\* if !conn.inactive { conn.setInactive()
Test(c) ==
    /\ pc[c] = "test"
    /\ inactive' = [inactive EXCEPT ![c] = TRUE]
    /\ pc' = [pc EXCEPT ![c] = IF inactive[c] THEN "over" ELSE "remove"]
    /\ UNCHANGED <<made, id, done, silent, activeConn, receiver, new, running,
                   timer>>

removeConn(c) ==
    /\ pc[c] = "remove"
    /\ activeConn' = [activeConn EXCEPT ![id[c]] = None]
    /\ pc' = [pc EXCEPT ![c] = "over"]
    /\ UNCHANGED <<conns, receiver, new, running, timer>>

-----------------------------------------------------------------------------
(* clean, run by the checker *)

Empty == \A i \in Ids : activeConn[i] = None

\* The connections that clean finds silent, and those that it removes.
Silent == {activeConn[i] : i \in Ids} \cap {c \in Conns : silent[c]}
Removed == {c \in Silent : ~inactive[c]}

clean ==
    /\ inactive' = [c \in Conns |-> inactive[c] \/ c \in Silent]
    /\ done' = [c \in Conns |-> done[c] \/ c \in Silent]
    /\ activeConn' = [i \in Ids |->
                        IF activeConn[i] \in Removed THEN None ELSE activeConn[i]]
    /\ UNCHANGED <<made, id, silent>>

\* checker.Start by the receiver: nothing, when the task is running.
Start ==
    /\ receiver = "start"
    /\ running' = TRUE
    /\ receiver' = IF running THEN "go" ELSE "execute"
    /\ UNCHANGED <<conns, activeConn, pc, new, timer>>

\* The round of Start: clean's error is returned, and common.Must panics.
FirstRound ==
    /\ receiver = "execute"
    /\ clean
    /\ receiver' = IF Empty THEN "error" ELSE "arm"
    /\ UNCHANGED <<pc, new, running, timer>>

StartEnds ==
    \/ /\ receiver = "error"
       /\ running' = FALSE /\ receiver' = "panic"
       /\ UNCHANGED <<conns, activeConn, pc, new, timer>>
    \/ /\ receiver = "arm"
       /\ timer' = "pending" /\ receiver' = "go"
       /\ UNCHANGED <<conns, activeConn, pc, new, running>>

\* A round on the timer's goroutine: clean's error stops the task.
TimerRound ==
    /\ timer = "pending"
    /\ clean
    /\ timer' = IF Empty THEN "error" ELSE "pending"
    /\ UNCHANGED <<pc, receiver, new, running>>

TimerStops ==
    /\ timer = "error"
    /\ timer' = "none" /\ running' = FALSE
    /\ UNCHANGED <<conns, activeConn, pc, receiver, new>>

Next ==
    \/ \E i \in Ids : Packet(i)
    \/ Go \/ Start \/ FirstRound \/ StartEnds \/ TimerRound \/ TimerStops
    \/ \E c \in Conns :
         Traffic(c) \/ Processed(c) \/ CloseConn(c) \/ Test(c) \/ removeConn(c)

Spec == Init /\ [][Next]_vars

-----------------------------------------------------------------------------
(* Properties *)

\* callback's assertion common.Must(w.checker.Start()): a checker that is
\* started for a new connection finds a connection to look after.
StartSucceeds == receiver # "panic"

=============================================================================
