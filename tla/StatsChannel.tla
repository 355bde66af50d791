---------------------------- MODULE StatsChannel ----------------------------
(***************************************************************************)
(* app/stats/channel.go: messages published on a channel are broadcast to  *)
(* its subscribers by the goroutine that Start starts and Close ends, and  *)
(* features/stats/stats.go: the first subscriber starts the channel and    *)
(* the last one closes it.                                                 *)
(***************************************************************************)
EXTENDS Naturals, Sequences, FiniteSets

CONSTANTS
    Msgs,        \* the messages, each published once
    Listeners,   \* SubscribeRunnableChannel ... UnsubscribeClosableChannel
    Modes,       \* the channels and their users: records of
                 \*   blocking: c.blocking
                 \*   msgs:     the messages published
                 \*   leavers:  the listeners that unsubscribe
                 \*   cancels:  the messages whose context ends early
                 \*   starts:   bound: goroutines started
    BufferSize,  \* of the channel and of every subscriber, at least 1
    MaxStarts    \* the largest of the bounds

Gens == 1 .. MaxStarts

VARIABLES
    mode,      \* the one of this behaviour
    channel,   \* c.channel
    subs,      \* c.subscribers
    cur,       \* c.closed: the generation of the signal, 0 before Start
    signalled, \* the generations whose signal is closed
    gpc,       \* per goroutine
    wait,      \* per goroutine: the signal its select waits for
    msg,       \* per goroutine: the message it broadcasts
    todo,      \* per goroutine: subscribers it has yet to serve or remove
    sending,   \* broadcasts that wait on goroutines of their own
    mpc,       \* per message: its publisher
    lpc,       \* per listener
    buffer,    \* per listener: its Go channel
    shut,      \* the listeners whose Go channel is closed
    got,       \* per listener: the messages received
    cancelled, \* the messages whose context is done
    owed,      \* history: the pairs of a message and who is to hear it
    panicked   \* a send on, or a close of, a closed Go channel: the end

setup == <<mode, owed>>
lvars == <<lpc, got>>
gvars == <<gpc, wait, msg, todo>>
vars == <<setup, channel, subs, cur, signalled, gvars, sending, mpc, lvars, buffer,
          shut, cancelled, panicked>>

Init ==
    /\ mode \in Modes /\ owed = {}
    /\ channel = <<>> /\ subs = {}
    /\ cur = 0 /\ signalled = {}
    /\ gpc = [g \in Gens |-> "none"] /\ wait = [g \in Gens |-> 0]
    /\ msg = [g \in Gens |-> <<>>] /\ todo = [g \in Gens |-> {}]
    /\ sending = {}
    /\ mpc = [m \in Msgs |-> "idle"]
    /\ lpc = [l \in Listeners |-> "idle"]
    /\ buffer = [l \in Listeners |-> <<>>] /\ got = [l \in Listeners |-> <<>>]
    /\ shut = {} /\ cancelled = {} /\ panicked = FALSE

\* Running returns true.
Running == cur > 0 /\ cur \notin signalled

-----------------------------------------------------------------------------
(* Publish *)

\* A publisher that finds the channel full waits, itself or in a goroutine.
Publish(m) ==
    /\ m \in mode.msgs /\ mpc[m] = "idle"
    /\ IF cur \in signalled
         THEN mpc' = [mpc EXCEPT ![m] = "refused"] /\ UNCHANGED channel
         ELSE IF Len(channel) < BufferSize
           THEN mpc' = [mpc EXCEPT ![m] = "sent"]
                /\ channel' = Append(channel, m)
           ELSE mpc' = [mpc EXCEPT ![m] = "waits"] /\ UNCHANGED channel
    /\ UNCHANGED <<setup, subs, cur, signalled, gvars, sending, lvars, buffer,
                   shut, panicked, cancelled>>

PublishSend(m) ==
    /\ mpc[m] = "waits" /\ Len(channel) < BufferSize
    /\ mpc' = [mpc EXCEPT ![m] = "sent"]
    /\ channel' = Append(channel, m)
    /\ UNCHANGED <<setup, subs, cur, signalled, gvars, sending, lvars, buffer,
                   shut, panicked, cancelled>>

Cancel(m) ==
    /\ m \in mode.cancels \ cancelled
    /\ cancelled' = cancelled \cup {m}
    /\ UNCHANGED <<setup, channel, subs, cur, signalled, gvars, sending, mpc,
                   lvars, buffer, shut, panicked>>

PublishGiveUp(m) ==
    /\ mpc[m] = "waits" /\ m \in cancelled
    /\ mpc' = [mpc EXCEPT ![m] = "cancelled"]
    /\ UNCHANGED <<setup, channel, subs, cur, signalled, gvars, sending,
                   lvars, buffer, shut, cancelled, panicked>>

-----------------------------------------------------------------------------
(* Start, its goroutine, and Close *)

\* The goroutine is at the top of its loop: c.closed is read here.
Enter(g) ==
    /\ gpc[g] = "top"
    /\ gpc' = [gpc EXCEPT ![g] = "select"]
    /\ wait' = [wait EXCEPT ![g] = cur]
    /\ UNCHANGED <<setup, channel, subs, cur, signalled, msg, todo, sending,
                   mpc, lvars, buffer, shut, panicked, cancelled>>

Take(g) ==
    /\ gpc[g] = "select" /\ channel # <<>>
    /\ channel' = Tail(channel)
    /\ msg' = [msg EXCEPT ![g] = <<Head(channel)>>]
    /\ todo' = [todo EXCEPT ![g] = subs]
    /\ owed' = owed \cup ({Head(channel)} \X subs)
    /\ gpc' = [gpc EXCEPT ![g] = IF subs = {} THEN "top" ELSE "broadcast"]
    /\ UNCHANGED <<mode, subs, cur, signalled, wait, sending, mpc, lvars,
                   buffer, shut, panicked, cancelled>>

\* Mutant: a full subscriber is skipped.
PutSkips(m, l) ==
    /\ panicked' = (panicked \/ l \in shut)
    /\ buffer' = [buffer EXCEPT ![l] =
                    IF l \notin shut /\ Len(@) < BufferSize
                      THEN Append(@, m) ELSE @]

\* subscriber <- message, when it can be sent; a closed Go channel panics.
Put(m, l) ==
    /\ l \in shut \/ Len(buffer[l]) < BufferSize
    /\ panicked' = (panicked \/ l \in shut)
    /\ buffer' = [buffer EXCEPT ![l] = IF l \in shut THEN @ ELSE Append(@, m)]

\* One subscriber of the broadcast: broadcast or broadcastNonBlocking.
Broadcast(g, l) ==
    /\ gpc[g] = "broadcast" /\ l \in todo[g]
    /\ LET m == Head(msg[g]) IN
         \/ Put(m, l) /\ UNCHANGED sending
         \/ /\ mode.blocking /\ m \in cancelled
            /\ UNCHANGED <<buffer, panicked, sending>>
         \/ /\ ~mode.blocking /\ l \notin shut /\ Len(buffer[l]) = BufferSize
            /\ sending' = sending \cup {<<m, l>>}
            /\ UNCHANGED <<buffer, panicked>>
    /\ todo' = [todo EXCEPT ![g] = @ \ {l}]
    /\ gpc' = [gpc EXCEPT ![g] = IF todo[g] = {l} THEN "top" ELSE @]
    /\ UNCHANGED <<setup, channel, subs, cur, signalled, wait, msg, mpc,
                   lvars, shut, cancelled>>

\* A broadcast that waited on a goroutine of its own.
SendLate(m, l) ==
    /\ <<m, l>> \in sending
    /\ \/ Put(m, l)
       \/ m \in cancelled /\ UNCHANGED <<buffer, panicked>>
    /\ sending' = sending \ {<<m, l>>}
    /\ UNCHANGED <<setup, channel, subs, cur, signalled, gvars, mpc, lvars,
                   shut, cancelled>>

\* The signal: all subscribers are removed.
Signal(g) ==
    /\ gpc[g] = "select" /\ wait[g] \in signalled
    /\ todo' = [todo EXCEPT ![g] = subs]
    /\ gpc' = [gpc EXCEPT ![g] = IF subs = {} THEN "end" ELSE "drain"]
    /\ UNCHANGED <<setup, channel, subs, cur, signalled, wait, msg, sending,
                   mpc, lvars, buffer, shut, panicked, cancelled>>

Drain(g, l) ==
    /\ gpc[g] = "drain" /\ l \in todo[g]
    /\ subs' = subs \ {l}
    /\ panicked' = (panicked \/ l \in shut)
    /\ shut' = shut \cup {l}
    /\ todo' = [todo EXCEPT ![g] = @ \ {l}]
    /\ gpc' = [gpc EXCEPT ![g] = IF todo[g] = {l} THEN "end" ELSE @]
    /\ UNCHANGED <<setup, channel, cur, signalled, wait, msg, sending, mpc,
                   lvars, buffer, cancelled>>

-----------------------------------------------------------------------------
(* SubscribeRunnableChannel and UnsubscribeClosableChannel *)

Move(l, from, to) == lpc[l] = from /\ lpc' = [lpc EXCEPT ![l] = to]

CheckFirst(l) ==
    /\ Move(l, "idle", IF subs = {} THEN "start" ELSE "subscribe")
    /\ UNCHANGED <<setup, channel, subs, cur, signalled, gvars, sending, mpc,
                   got, buffer, shut, panicked, cancelled>>

\* Mutant: Start does not look whether the channel runs.
StartAlways(l) ==
    /\ Move(l, "start", "subscribe")
    /\ cur < mode.starts
    /\ cur' = cur + 1
    /\ gpc' = [gpc EXCEPT ![cur + 1] = "top"]
    /\ UNCHANGED <<setup, channel, subs, signalled, wait, msg, todo, sending,
                   mpc, got, buffer, shut, panicked, cancelled>>

Start(l) ==
    /\ Move(l, "start", "subscribe")
    /\ \/ Running /\ UNCHANGED <<cur, gpc>>
       \/ /\ ~Running /\ cur < mode.starts
          /\ cur' = cur + 1
          /\ gpc' = [gpc EXCEPT ![cur + 1] = "top"]
    /\ UNCHANGED <<setup, channel, subs, signalled, wait, msg, todo, sending,
                   mpc, got, buffer, shut, panicked, cancelled>>

Subscribe(l) ==
    /\ Move(l, "subscribe", "listening")
    /\ subs' = subs \cup {l}
    /\ UNCHANGED <<setup, channel, cur, signalled, gvars, sending, mpc, got,
                   buffer, shut, panicked, cancelled>>

Receive(l) ==
    /\ lpc[l] = "listening" /\ buffer[l] # <<>>
    /\ got' = [got EXCEPT ![l] = Append(@, Head(buffer[l]))]
    /\ buffer' = [buffer EXCEPT ![l] = Tail(@)]
    /\ UNCHANGED <<setup, channel, subs, cur, signalled, gvars, sending, mpc,
                   lpc, shut, panicked, cancelled>>

Unsubscribe(l) ==
    /\ l \in mode.leavers
    /\ Move(l, "listening", "left")
    /\ subs' = subs \ {l}
    /\ UNCHANGED <<setup, channel, cur, signalled, gvars, sending, mpc, got,
                   buffer, shut, panicked, cancelled>>

CheckLast(l) ==
    /\ Move(l, "left", IF subs = {} THEN "close" ELSE "done")
    /\ UNCHANGED <<setup, channel, subs, cur, signalled, gvars, sending, mpc,
                   got, buffer, shut, panicked, cancelled>>

Close(l) ==
    /\ Move(l, "close", "done")
    /\ signalled' = IF Running THEN signalled \cup {cur} ELSE signalled
    /\ UNCHANGED <<setup, channel, subs, cur, gvars, sending, mpc, got,
                   buffer, shut, panicked, cancelled>>

-----------------------------------------------------------------------------

Loop(g) ==
    \/ Enter(g) \/ Take(g) \/ Signal(g)
    \/ \E l \in Listeners : Broadcast(g, l) \/ Drain(g, l)

Listener(l) ==
    \/ CheckFirst(l) \/ Start(l) \/ Subscribe(l)
    \/ Unsubscribe(l) \/ CheckLast(l) \/ Close(l)

Publisher(m) == Publish(m) \/ PublishSend(m) \/ PublishGiveUp(m)

\* A panic ends the process.
Next ==
    /\ ~panicked
    /\ \/ \E m \in Msgs : Publisher(m) \/ Cancel(m)
       \/ \E g \in Gens : Loop(g)
       \/ \E m \in Msgs, l \in Listeners : SendLate(m, l)
       \/ \E l \in Listeners : Listener(l) \/ Receive(l)

Spec == Init /\ [][Next]_vars

\* Goroutines run, listeners read, and a context that ends does end.
Sender(m) == PublishSend(m) \/ Cancel(m)
Hearer(l) == Receive(l) \/ Start(l) \/ Subscribe(l)

-----------------------------------------------------------------------------
(* Properties *)

\* As long as a blocking channel has not been closed, all its subscribers hear
\* the messages in the same order.  (Close followed by a new Start may leave two
\* goroutines that broadcast: one that was busy with a message reads c.closed
\* only afterwards, and then waits for the new signal.)
SameOrder ==
    (mode.blocking /\ signalled = {}) =>
      \A k, l \in Listeners :
        \A i, j \in 1 .. Len(got[k]) : i < j =>
          ~\E x, y \in 1 .. Len(got[l]) :
              x < y /\ got[l][x] = got[k][j] /\ got[l][y] = got[k][i]

Hears(l, m) == \E i \in 1 .. Len(got[l]) : got[l][i] = m

\* "channelMessage is the published message with guaranteed delivery": while
\* everybody listens the channel empties, and who was subscribed when a
\* message left it hears it, unless its context ends early.
Delivered ==
    <>[]((mode.leavers = {} /\ subs = Listeners) =>
           /\ channel = <<>> /\ \A m \in Msgs : mpc[m] # "waits"
           /\ \A o \in owed : o[1] \in mode.cancels \/ Hears(o[2], o[1]))

=============================================================================
