---------------------------- MODULE SignalProofs ----------------------------
(***************************************************************************)
(* Proofs about StatsChannel, PubSub and HealthPing, for any number of     *)
(* messages, subscribers, restarts and rounds of pings.                    *)
(*                                                                         *)
(* StatsChannel: as long as Close has not been called one goroutine runs   *)
(* the loop, and what any two subscribers have heard or hold in their      *)
(* buffers agrees, but for the message being broadcast (Order).            *)
(* PubSub: what a subscriber was to see is taken, buffered or counted as   *)
(* lost, and an open subscriber is on the list (ServiceIInv).              *)
(* HealthPing: a round that pings is registered, cancelled or about to be  *)
(* cancelled by the round that replaced it (PingIInv).                     *)
(***************************************************************************)
EXTENDS MCSignal, TLAPS

-----------------------------------------------------------------------------
(* StatsChannel *)

TypeInv ==
    /\ channel \in Seq(Msgs)
    /\ subs \in SUBSET Listeners
    /\ cur \in Nat
    /\ gpc \in [Gens -> {"none", "top", "select", "broadcast", "drain", "end"}]
    /\ msg \in [Gens -> Seq(Msgs)]
    /\ \A g \in Gens : gpc[g] = "broadcast" => msg[g] # <<>>
    /\ todo \in [Gens -> SUBSET Listeners]
    /\ mpc \in [Msgs -> {"idle", "waits", "sent", "refused", "cancelled"}]
    /\ buffer \in [Listeners -> Seq(Msgs)]
    /\ got \in [Listeners -> Seq(Msgs)]

\* What l has heard or will read from its Go channel.
Log(l) == got[l] \o buffer[l]

In(m, s) == \E i \in 1 .. Len(s) : s[i] = m

Once(s) == \A i, j \in 1 .. Len(s) : s[i] = s[j] => i = j

\* m is at most the last of s.
Latest(m, s) == \A i \in 1 .. Len(s) : s[i] = m => i = Len(s)

\* No two messages are in one order in s and in the other in t.
Agree(s, t) ==
    \A i, j \in 1 .. Len(s) : i < j =>
      ~\E x, y \in 1 .. Len(t) : x < y /\ t[x] = s[j] /\ t[y] = s[i]

\* The goroutines: the first only.
OneLoop == \A g \in Gens : gpc[g] # "none" => g = 1 /\ cur > 0

\* The channel holds each message once, and it has been sent.
ChannelOK == Once(channel) /\ \A m \in Msgs : In(m, channel) => mpc[m] = "sent"

\* A message that has been heard has left the channel.
LogOK(l) ==
    /\ Once(Log(l))
    /\ \A m \in Msgs : In(m, Log(l)) => mpc[m] = "sent" /\ ~In(m, channel)

\* The message being broadcast has left the channel, has not been heard by those
\* to come, and is the latest of those who have heard it.
BroadcastOK(g) ==
    gpc[g] = "broadcast" =>
      /\ mpc[Head(msg[g])] = "sent" /\ ~In(Head(msg[g]), channel)
      /\ \A l \in todo[g] : ~In(Head(msg[g]), Log(l))
      /\ \A l \in Listeners : Latest(Head(msg[g]), Log(l))

Order ==
    /\ OneLoop
    /\ sending = {}
    /\ ChannelOK
    /\ \A l \in Listeners : LogOK(l)
    /\ \A g \in Gens : BroadcastOK(g)
    /\ \A k, l \in Listeners : Agree(Log(k), Log(l))

Unclosed == mode.blocking /\ signalled = {}

IInv == TypeInv /\ (Unclosed => Order)

-----------------------------------------------------------------------------

\* What is in a log after a message was added to it.
LEMMA InAppend ==
    ASSUME NEW s \in Seq(Msgs), NEW m \in Msgs
    PROVE  /\ Append(s, m) \in Seq(Msgs)
           /\ \A n \in Msgs : In(n, Append(s, m)) <=> n = m \/ In(n, s)
           /\ ~In(m, s) => Latest(m, Append(s, m))
           /\ Once(s) /\ ~In(m, s) => Once(Append(s, m))
<1>1. Append(s, m) \in Seq(Msgs) /\ Len(Append(s, m)) = Len(s) + 1 /\ Len(s) \in Nat
  OBVIOUS
<1>2. \A i \in 1 .. Len(s) : Append(s, m)[i] = s[i]
  OBVIOUS
<1>3. Append(s, m)[Len(s) + 1] = m
  OBVIOUS
<1>4. PICK t : t = Append(s, m)
  BY Zenon
<1>5. /\ \A n \in Msgs : In(n, t) <=> n = m \/ In(n, s)
      /\ ~In(m, s) => Latest(m, t)
      /\ Once(s) /\ ~In(m, s) => Once(t)
  BY <1>1, <1>2, <1>3, <1>4 DEF In, Latest, Once
<1> QED
  BY Zenon, <1>1, <1>4, <1>5

\* What is in a buffer after its first message was taken.
LEMMA InTail ==
    ASSUME NEW s \in Seq(Msgs), s # <<>>
    PROVE  /\ Tail(s) \in Seq(Msgs) /\ Head(s) \in Msgs /\ In(Head(s), s)
           /\ \A n \in Msgs : In(n, Tail(s)) => In(n, s)
           /\ Once(s) => Once(Tail(s)) /\ ~In(Head(s), Tail(s))
<1>1. /\ Tail(s) \in Seq(Msgs) /\ Len(s) \in Nat /\ Len(s) > 0
      /\ Len(Tail(s)) = Len(s) - 1 /\ Head(s) = s[1]
  OBVIOUS
<1>2. \A i \in 1 .. Len(Tail(s)) : Tail(s)[i] = s[i + 1]
  OBVIOUS
<1>3. PICK t : t = Tail(s)
  BY Zenon
<1>4. PICK h : h = s[1]
  BY Zenon
<1>5. /\ h \in Msgs /\ In(h, s)
      /\ \A n \in Msgs : In(n, t) => In(n, s)
      /\ Once(s) => Once(t) /\ ~In(h, t)
  BY <1>1, <1>2, <1>3, <1>4 DEF In, Once
<1> QED
  BY Zenon, <1>1, <1>3, <1>4, <1>5

\* Reading from the Go channel does not change what will have been heard.
LEMMA LogReceives ==
    ASSUME NEW s \in Seq(Msgs), NEW t \in Seq(Msgs), t # <<>>
    PROVE  Append(s, Head(t)) \o Tail(t) = s \o t
<1>1. /\ Append(s, Head(t)) \o Tail(t) \in Seq(Msgs) /\ s \o t \in Seq(Msgs)
      /\ Len(Append(s, Head(t)) \o Tail(t)) = Len(s \o t)
  OBVIOUS
<1>2. \A i \in 1 .. Len(s \o t) : (Append(s, Head(t)) \o Tail(t))[i] = (s \o t)[i]
  OBVIOUS
<1> QED
  BY <1>1, <1>2

\* A message put into a buffer is put at the end of what its reader will have heard.
LEMMA LogGrows ==
    ASSUME NEW s \in Seq(Msgs), NEW t \in Seq(Msgs), NEW m \in Msgs
    PROVE  s \o Append(t, m) = Append(s \o t, m)
<1>1. /\ s \o Append(t, m) \in Seq(Msgs) /\ Append(s \o t, m) \in Seq(Msgs)
      /\ Len(s \o Append(t, m)) = Len(Append(s \o t, m))
  OBVIOUS
<1>2. \A i \in 1 .. Len(Append(s \o t, m)) : (s \o Append(t, m))[i] = Append(s \o t, m)[i]
  OBVIOUS
<1> QED
  BY <1>1, <1>2

\* What was read comes first in what a reader will have heard.
LEMMA LogBegins ==
    ASSUME NEW s \in Seq(Msgs), NEW t \in Seq(Msgs), NEW i \in 1 .. Len(s)
    PROVE  i \in 1 .. Len(s \o t) /\ (s \o t)[i] = s[i]
OBVIOUS

\* A message that nobody has heard but as the latest may be added to any.
LEMMA AgreeAppend ==
    ASSUME NEW s \in Seq(Msgs), NEW t \in Seq(Msgs), NEW m \in Msgs,
           Agree(s, t), Agree(t, s), Latest(m, t)
    PROVE  Agree(Append(s, m), t) /\ Agree(t, Append(s, m))
<1>1. PICK r : r = Append(s, m)
  BY Zenon
<1>2. /\ Len(r) = Len(s) + 1 /\ Len(s) \in Nat /\ r[Len(s) + 1] = m
      /\ \A i \in 1 .. Len(s) : r[i] = s[i]
  BY <1>1
<1>3. Agree(r, t)
  <2> SUFFICES ASSUME NEW i \in 1 .. Len(r), NEW j \in 1 .. Len(r), i < j,
                      NEW x \in 1 .. Len(t), NEW y \in 1 .. Len(t), x < y,
                      t[x] = r[j], t[y] = r[i]
               PROVE  FALSE
    BY Zenon DEF Agree
  <2>1. CASE j = Len(s) + 1
    BY <1>2, <2>1 DEF Latest
  <2>2. CASE j # Len(s) + 1
    <3>1. i \in 1 .. Len(s) /\ j \in 1 .. Len(s)
      BY <1>2, <2>2
    <3> QED
      BY Zenon, <1>2, <3>1 DEF Agree
  <2> QED
    BY Zenon, <2>1, <2>2
<1>4. Agree(t, r)
  <2> SUFFICES ASSUME NEW i \in 1 .. Len(t), NEW j \in 1 .. Len(t), i < j,
                      NEW x \in 1 .. Len(r), NEW y \in 1 .. Len(r), x < y,
                      r[x] = t[j], r[y] = t[i]
               PROVE  FALSE
    BY Zenon DEF Agree
  <2>1. CASE y = Len(s) + 1
    BY <1>2, <2>1 DEF Latest
  <2>2. CASE y # Len(s) + 1
    <3>1. x \in 1 .. Len(s) /\ y \in 1 .. Len(s)
      BY <1>2, <2>2
    <3> QED
      BY Zenon, <1>2, <3>1 DEF Agree
  <2> QED
    BY Zenon, <2>1, <2>2
<1> QED
  BY Zenon, <1>1, <1>3, <1>4

\* A log agrees with itself.
LEMMA AgreeSelf ==
    ASSUME NEW s \in Seq(Msgs), Once(s)
    PROVE  Agree(s, s)
BY DEF Agree, Once

-----------------------------------------------------------------------------

\* What the loop broadcasts is a message.
LEMMA HeadType ==
    ASSUME TypeInv, NEW g \in Gens, gpc[g] = "broadcast"
    PROVE  Head(msg[g]) \in Msgs
BY DEF TypeInv

\* A message put into a buffer leaves a buffer of messages.
LEMMA PutType ==
    ASSUME TypeInv, NEW m \in Msgs, NEW l \in Listeners, Put(m, l)
    PROVE  buffer' \in [Listeners -> Seq(Msgs)]
<1>1. buffer \in [Listeners -> Seq(Msgs)] /\ buffer[l] \in Seq(Msgs)
  BY Zenon DEF TypeInv
<1>2. Append(buffer[l], m) \in Seq(Msgs)
  BY <1>1
<1>3. buffer' = buffer \/ buffer' = [buffer EXCEPT ![l] = Append(@, m)]
  BY Zenon, <1>1 DEF Put
<1> QED
  BY Zenon, <1>1, <1>2, <1>3

\* What Publish does: refuse, send or wait.
PublishSteps(m) ==
    \/ channel' = channel /\ mpc' = [mpc EXCEPT ![m] = "refused"]
    \/ channel' = channel /\ mpc' = [mpc EXCEPT ![m] = "waits"]
    \/ channel' = Append(channel, m) /\ mpc' = [mpc EXCEPT ![m] = "sent"]

\* channel.go, Publish: the ways it can go.
LEMMA PublishCases ==
    ASSUME NEW m \in Msgs, Publish(m)
    PROVE  PublishSteps(m)
<1>1. CASE cur \in signalled
  BY Zenon, <1>1 DEF Publish, PublishSteps
<1>2. CASE cur \notin signalled /\ Len(channel) < BufferSize
  BY Zenon, <1>2 DEF Publish, PublishSteps
<1>3. CASE cur \notin signalled /\ ~(Len(channel) < BufferSize)
  BY Zenon, <1>3 DEF Publish, PublishSteps
<1> QED
  BY Zenon, <1>1, <1>2, <1>3

\* Every step keeps the types.
LEMMA TypeInvInductive == TypeInv /\ [Next]_vars => TypeInv'
<1> SUFFICES ASSUME TypeInv, [Next]_vars PROVE TypeInv'
  OBVIOUS
<1> USE DEF TypeInv, setup, lvars, gvars
<1>1. ASSUME NEW m \in Msgs, Publish(m) PROVE TypeInv'
  <2>1. PublishSteps(m)
    BY Zenon, <1>1, PublishCases
  <2>2. channel \in Seq(Msgs) /\ Append(channel, m) \in Seq(Msgs)
    OBVIOUS
  <2>3. channel' \in Seq(Msgs)
    BY Zenon, <2>1, <2>2 DEF PublishSteps
  <2>4. mpc' \in [Msgs -> {"idle", "waits", "sent", "refused", "cancelled"}]
    BY Zenon, <2>1 DEF PublishSteps
  <2> QED
    BY Zenon, <1>1, <2>3, <2>4 DEF Publish
<1>2. ASSUME NEW m \in Msgs, PublishSend(m) PROVE TypeInv'
  BY <1>2 DEF PublishSend
<1>3. ASSUME NEW m \in Msgs, PublishGiveUp(m) \/ Cancel(m) PROVE TypeInv'
  BY Zenon, <1>3 DEF PublishGiveUp, Cancel
<1>4. ASSUME NEW g \in Gens, Enter(g) \/ Signal(g) PROVE TypeInv'
  BY Zenon, <1>4 DEF Enter, Signal
<1>5. ASSUME NEW g \in Gens, Take(g) PROVE TypeInv'
  BY <1>5 DEF Take
<1>6. ASSUME NEW g \in Gens, NEW l \in Listeners, Broadcast(g, l) PROVE TypeInv'
  <2>1. Head(msg[g]) \in Msgs
    BY Zenon, <1>6, HeadType DEF Broadcast
  <2>2. buffer' \in [Listeners -> Seq(Msgs)]
    BY Zenon, <1>6, <2>1, PutType DEF Broadcast
  <2> QED
    BY Zenon, <1>6, <2>2 DEF Broadcast
<1>7. ASSUME NEW g \in Gens, NEW l \in Listeners, Drain(g, l) PROVE TypeInv'
  BY Zenon, <1>7 DEF Drain
<1>8. ASSUME NEW m \in Msgs, NEW l \in Listeners, SendLate(m, l) PROVE TypeInv'
  <2>1. buffer' \in [Listeners -> Seq(Msgs)]
    BY Zenon, <1>8, PutType DEF SendLate
  <2> QED
    BY Zenon, <1>8, <2>1 DEF SendLate
<1>9. ASSUME NEW l \in Listeners, CheckFirst(l) \/ CheckLast(l) \/ Close(l) PROVE TypeInv'
  BY Zenon, <1>9 DEF CheckFirst, CheckLast, Close
<1>10. ASSUME NEW l \in Listeners, Start(l) PROVE TypeInv'
  BY <1>10 DEF Start
<1>11. ASSUME NEW l \in Listeners, Subscribe(l) \/ Unsubscribe(l) PROVE TypeInv'
  BY Zenon, <1>11 DEF Subscribe, Unsubscribe
<1>12. ASSUME NEW l \in Listeners, Receive(l) PROVE TypeInv'
  BY <1>12 DEF Receive
<1>13. CASE UNCHANGED vars
  BY Zenon, <1>13 DEF vars
<1> QED
  BY Zenon, <1>1, <1>2, <1>3, <1>4, <1>5, <1>6, <1>7, <1>8, <1>9, <1>10, <1>11, <1>12,
     <1>13 DEF Next, Publisher, Loop, Listener

-----------------------------------------------------------------------------

\* What is heard and queued stays, and no broadcast begins.
Undisturbed ==
    /\ channel' = channel /\ sending' = sending
    /\ \A l \in Listeners : Log(l)' = Log(l)
    /\ \A m \in Msgs : mpc[m] = "sent" => mpc'[m] = "sent"
    /\ \A g \in Gens : gpc'[g] = "broadcast" =>
         gpc[g] = "broadcast" /\ msg'[g] = msg[g] /\ todo'[g] \subseteq todo[g]

\* The steps that broadcast nothing and take nothing keep the order.
LEMMA UndisturbedOK ==
    ASSUME TypeInv, Order, OneLoop', Undisturbed
    PROVE  Order'
<1> USE DEF Undisturbed
<1>1. ChannelOK'
  BY Zenon DEF Order, ChannelOK
<1>2. ASSUME NEW l \in Listeners PROVE LogOK(l)'
  BY Zenon DEF Order, LogOK
<1>3. ASSUME NEW g \in Gens PROVE BroadcastOK(g)'
  <2> SUFFICES ASSUME gpc'[g] = "broadcast" PROVE BroadcastOK(g)'
    BY Zenon DEF BroadcastOK
  <2>1. gpc[g] = "broadcast" /\ msg'[g] = msg[g] /\ todo'[g] \subseteq todo[g]
    BY Zenon
  <2>2. Head(msg[g]) \in Msgs /\ BroadcastOK(g)
    BY Zenon, <2>1, HeadType DEF Order
  <2>3. todo[g] \subseteq Listeners
    BY Zenon DEF TypeInv
  <2> QED
    BY Zenon, <2>1, <2>2, <2>3 DEF BroadcastOK
<1>4. \A k, l \in Listeners : Agree(Log(k), Log(l))'
  BY Zenon DEF Order
<1> QED
  BY Zenon, <1>1, <1>2, <1>3, <1>4 DEF Order

\* Publish and PublishSend: m enters the channel.
LEMMA SendsOK ==
    ASSUME TypeInv, Order, NEW m \in Msgs, mpc[m] # "sent",
           channel' = Append(channel, m), mpc' = [mpc EXCEPT ![m] = "sent"],
           UNCHANGED <<cur, gvars, sending, got, buffer>>
    PROVE  Order'
<1>1. channel \in Seq(Msgs) /\ todo \in [Gens -> SUBSET Listeners]
  BY Zenon DEF TypeInv
<1>2. mpc'[m] = "sent" /\ \A n \in Msgs : n # m => mpc'[n] = mpc[n]
  BY Zenon DEF TypeInv
<1>3. /\ \A n \in Msgs : In(n, channel') <=> n = m \/ In(n, channel)
      /\ Once(channel) /\ ~In(m, channel) => Once(channel')
  BY Zenon, <1>1, InAppend
<1>4. \A l \in Listeners : Log(l)' = Log(l)
  BY Zenon DEF Log
<1>5. UNCHANGED <<gpc, msg, todo>>
  BY Zenon DEF gvars
<1>6. ChannelOK'
  BY Zenon, <1>2, <1>3 DEF Order, ChannelOK
<1>7. ASSUME NEW l \in Listeners PROVE LogOK(l)'
  BY Zenon, <1>2, <1>3, <1>4 DEF Order, LogOK
<1>8. ASSUME NEW g \in Gens PROVE BroadcastOK(g)'
  <2> SUFFICES ASSUME gpc[g] = "broadcast" PROVE BroadcastOK(g)'
    BY Zenon, <1>5 DEF BroadcastOK
  <2>1. Head(msg[g]) \in Msgs /\ BroadcastOK(g)
    BY Zenon, HeadType DEF Order
  <2>2. todo[g] \subseteq Listeners
    BY Zenon, <1>1
  <2>3. PICK h \in Msgs : h = Head(msg[g])
    BY Zenon, <2>1
  <2>4. mpc[h] = "sent" /\ ~In(h, channel)
    BY Zenon, <2>1, <2>3 DEF BroadcastOK
  <2>5. mpc'[h] = "sent" /\ ~In(h, channel')
    BY Zenon, <1>2, <1>3, <2>4
  <2> QED
    BY Zenon, <1>4, <1>5, <2>1, <2>2, <2>3, <2>5 DEF BroadcastOK
<1>9. OneLoop'
  BY Zenon, <1>5 DEF Order, OneLoop
<1>10. \A k, l \in Listeners : Agree(Log(k), Log(l))'
  BY Zenon, <1>4 DEF Order
<1> QED
  BY Zenon, <1>6, <1>7, <1>8, <1>9, <1>10 DEF Order

\* channel.go, the loop of Start: it takes the next message and all subscribers.
LEMMA TakeOK ==
    ASSUME TypeInv, Order, NEW g \in Gens, Take(g)
    PROVE  Order'
<1>1. /\ channel \in Seq(Msgs) /\ channel # <<>> /\ channel' = Tail(channel)
      /\ UNCHANGED <<cur, sending, mpc, got, buffer>>
      /\ gpc[g] = "select" /\ subs \subseteq Listeners
  BY Zenon DEF Take, TypeInv, lvars
<1>2. /\ msg'[g] = <<Head(channel)>> /\ gpc'[g] # "none"
      /\ \A i \in Gens : i # g => gpc'[i] = gpc[i]
      /\ todo'[g] = subs
  BY Zenon DEF Take, TypeInv
<1>3. PICK h : h = Head(channel)
  BY Zenon
<1>4. /\ h \in Msgs /\ In(h, channel)
      /\ \A n \in Msgs : In(n, channel') => In(n, channel)
      /\ Once(channel) => Once(channel') /\ ~In(h, channel')
  BY Zenon, <1>1, <1>3, InTail
<1>5. \A l \in Listeners : Log(l)' = Log(l)
  BY Zenon, <1>1 DEF Log
<1>6. ChannelOK' /\ ~In(h, channel') /\ mpc[h] = "sent"
  BY Zenon, <1>1, <1>4 DEF Order, ChannelOK
<1>7. ASSUME NEW l \in Listeners PROVE LogOK(l)'
  BY Zenon, <1>1, <1>4, <1>5 DEF Order, LogOK
<1>8. OneLoop'
  BY Zenon, <1>1, <1>2 DEF Order, OneLoop
<1>9. ASSUME NEW i \in Gens PROVE BroadcastOK(i)'
  <2>1. CASE i # g
    <3>1. gpc'[i] = "none"
      BY Zenon, <1>1, <1>2, <2>1 DEF Order, OneLoop, TypeInv
    <3> QED
      BY Zenon, <3>1 DEF BroadcastOK
  <2>2. CASE i = g
    <3>1. Head(msg'[g]) = h
      BY <1>2, <1>3
    <3>2. \A l \in Listeners : ~In(h, Log(l))
      BY Zenon, <1>4 DEF Order, LogOK
    <3>3. \A l \in Listeners : Latest(h, Log(l))
      BY Zenon, <3>2 DEF In, Latest
    <3> QED
      BY Zenon, <1>1, <1>2, <1>5, <1>6, <2>2, <3>1, <3>2, <3>3 DEF BroadcastOK
  <2> QED
    BY Zenon, <2>1, <2>2
<1>10. \A k, l \in Listeners : Agree(Log(k), Log(l))'
  BY Zenon, <1>5 DEF Order
<1> QED
  BY Zenon, <1>1, <1>6, <1>7, <1>8, <1>9, <1>10 DEF Order

\* The broadcast message is put into the Go channel of l.
LEMMA PutOK ==
    ASSUME TypeInv, Order, NEW g \in Gens, NEW l \in Listeners, NEW m \in Msgs,
           gpc[g] = "broadcast", l \in todo[g], m = Head(msg[g]),
           Log(l)' = Append(Log(l), m), \A k \in Listeners : k # l => Log(k)' = Log(k),
           todo' = [todo EXCEPT ![g] = @ \ {l}],
           gpc' = [gpc EXCEPT ![g] = IF todo[g] = {l} THEN "top" ELSE @],
           UNCHANGED <<cur, channel, msg, mpc, sending>>
    PROVE  Order'
<1>1. /\ \A k \in Listeners : Log(k) \in Seq(Msgs)
      /\ todo \in [Gens -> SUBSET Listeners]
  BY DEF TypeInv, Log
<1>2. /\ mpc[m] = "sent" /\ ~In(m, channel) /\ ~In(m, Log(l))
      /\ \A k \in Listeners : Latest(m, Log(k))
      /\ \A k \in todo[g] : ~In(m, Log(k))
  BY Zenon DEF Order, BroadcastOK
<1>3. PICK s \in Seq(Msgs) : s = Log(l)
  BY Zenon, <1>1
<1>4. PICK t : t = Append(s, m)
  BY Zenon
<1>5. /\ t \in Seq(Msgs) /\ Log(l)' = t
      /\ \A n \in Msgs : In(n, t) <=> n = m \/ In(n, s)
      /\ Latest(m, t)
      /\ Once(s) => Once(t)
  BY Zenon, <1>2, <1>3, <1>4, InAppend
<1>6. ASSUME NEW k \in Listeners PROVE LogOK(k)'
  BY Zenon, <1>2, <1>3, <1>5 DEF Order, LogOK
<1>7. OneLoop' /\ \A i \in Gens : gpc'[i] = "broadcast" => i = g /\ gpc[i] = "broadcast"
  <2>1. gpc'[g] # "none" /\ \A i \in Gens : i # g => gpc'[i] = gpc[i]
    BY Zenon DEF TypeInv
  <2>2. g = 1 /\ cur > 0 /\ \A i \in Gens : i # g => gpc[i] = "none"
    BY Zenon DEF Order, OneLoop
  <2> QED
    BY Zenon, <2>1, <2>2 DEF OneLoop
<1>8. ASSUME NEW i \in Gens PROVE BroadcastOK(i)'
  <2> SUFFICES ASSUME gpc'[i] = "broadcast" PROVE BroadcastOK(i)'
    BY Zenon DEF BroadcastOK
  <2>1. i = g
    BY Zenon, <1>7
  <2>2. todo'[g] \subseteq todo[g] /\ l \notin todo'[g] /\ todo'[g] \subseteq Listeners
    BY Zenon, <1>1
  <2>3. \A k \in todo'[g] : k # l /\ ~In(m, Log(k)')
    BY Zenon, <1>2, <2>2
  <2>4. \A k \in Listeners : Latest(m, Log(k)')
    BY Zenon, <1>2, <1>5
  <2> QED
    BY Zenon, <1>2, <2>1, <2>3, <2>4 DEF BroadcastOK
<1>9. ASSUME NEW k \in Listeners, NEW j \in Listeners PROVE Agree(Log(k), Log(j))'
  <2>1. Once(s)
    BY Zenon, <1>3 DEF Order, LogOK
  <2>2. Agree(t, t)
    BY Zenon, <1>5, <2>1, AgreeSelf
  <2>3. ASSUME NEW i \in Listeners, i # l PROVE Agree(t, Log(i)) /\ Agree(Log(i), t)
    <3>1. PICK r \in Seq(Msgs) : r = Log(i)
      BY Zenon, <1>1
    <3>2. Agree(s, r) /\ Agree(r, s) /\ Latest(m, r)
      BY Zenon, <1>2, <1>3, <3>1 DEF Order
    <3> QED
      BY Zenon, <1>4, <3>1, <3>2, AgreeAppend
  <2>4. Agree(Log(k), Log(j))
    BY Zenon DEF Order
  <2> QED
    BY Zenon, <1>5, <2>2, <2>3, <2>4
<1>10. ChannelOK' /\ sending' = {}
  BY Zenon DEF Order, ChannelOK
<1> QED
  BY Zenon, <1>6, <1>7, <1>8, <1>9, <1>10 DEF Order

\* channel.go, a broadcast to one subscriber.
LEMMA BroadcastStepOK ==
    ASSUME TypeInv, Order, mode.blocking, NEW g \in Gens, NEW l \in Listeners, Broadcast(g, l)
    PROVE  Order'
<1>1. /\ gpc[g] = "broadcast" /\ l \in todo[g]
      /\ todo' = [todo EXCEPT ![g] = @ \ {l}]
      /\ gpc' = [gpc EXCEPT ![g] = IF todo[g] = {l} THEN "top" ELSE @]
      /\ UNCHANGED <<cur, channel, msg, mpc, got>>
  BY Zenon DEF Broadcast, lvars
<1>2. PICK m \in Msgs : m = Head(msg[g])
  BY Zenon, <1>1, HeadType
<1>3. /\ Put(m, l) \/ buffer' = buffer
      /\ sending' = sending
  BY Zenon, <1>2 DEF Broadcast
<1>4. /\ buffer \in [Listeners -> Seq(Msgs)] /\ got \in [Listeners -> Seq(Msgs)]
      /\ gpc \in [Gens -> {"none", "top", "select", "broadcast", "drain", "end"}]
      /\ todo \in [Gens -> SUBSET Listeners]
  BY Zenon DEF TypeInv
<1>5. buffer' = buffer \/ buffer' = [buffer EXCEPT ![l] = Append(@, m)]
  BY Zenon, <1>3, <1>4 DEF Put
<1>6. CASE buffer' = buffer
  <2>1. \A i \in Gens : gpc'[i] = "broadcast" => gpc[i] = "broadcast" /\ todo'[i] \subseteq todo[i]
    BY Zenon, <1>1, <1>4
  <2>2. OneLoop'
    <3>1. \A i \in Gens : gpc'[i] # "none" => gpc[i] # "none"
      BY Zenon, <1>1, <1>4
    <3> QED
      BY Zenon, <1>1, <3>1 DEF Order, OneLoop
  <2>3. Undisturbed
    BY Zenon, <1>1, <1>3, <1>6, <2>1 DEF Undisturbed, Log
  <2> QED
    BY Zenon, <2>2, <2>3, UndisturbedOK
<1>7. CASE buffer' = [buffer EXCEPT ![l] = Append(@, m)]
  <2>1. buffer'[l] = Append(buffer[l], m) /\ \A k \in Listeners : k # l => buffer'[k] = buffer[k]
    BY Zenon, <1>4, <1>7
  <2>2. Log(l)' = Append(Log(l), m)
    <3>1. got[l] \in Seq(Msgs) /\ buffer[l] \in Seq(Msgs)
      BY Zenon, <1>4
    <3>2. got[l] \o Append(buffer[l], m) = Append(got[l] \o buffer[l], m)
      BY Zenon, <3>1, LogGrows
    <3> QED
      BY Zenon, <1>1, <2>1, <3>2 DEF Log
  <2>3. \A k \in Listeners : k # l => Log(k)' = Log(k)
    BY Zenon, <1>1, <2>1 DEF Log
  <2> QED
    BY Zenon, <1>1, <1>2, <1>3, <2>2, <2>3, PutOK
<1> QED
  BY Zenon, <1>5, <1>6, <1>7

\* A subscriber takes a message from its buffer.
LEMMA ReceiveOK ==
    ASSUME TypeInv, Order, NEW l \in Listeners, Receive(l)
    PROVE  Order'
<1>1. /\ buffer \in [Listeners -> Seq(Msgs)] /\ got \in [Listeners -> Seq(Msgs)]
      /\ buffer[l] # <<>>
      /\ got' = [got EXCEPT ![l] = Append(@, Head(buffer[l]))]
      /\ buffer' = [buffer EXCEPT ![l] = Tail(@)]
      /\ UNCHANGED <<cur, channel, gpc, msg, todo, mpc, sending>>
  BY Zenon DEF TypeInv, Receive, gvars
<1>2. /\ got'[l] = Append(got[l], Head(buffer[l])) /\ buffer'[l] = Tail(buffer[l])
      /\ \A k \in Listeners : k # l => got'[k] = got[k] /\ buffer'[k] = buffer[k]
  BY Zenon, <1>1
<1>3. Log(l)' = Log(l)
  BY Zenon, <1>1, <1>2, LogReceives DEF Log
<1>4. \A k \in Listeners : Log(k)' = Log(k)
  BY Zenon, <1>2, <1>3 DEF Log
<1>5. Undisturbed /\ OneLoop'
  BY Zenon, <1>1, <1>4 DEF Undisturbed, Order, OneLoop
<1> QED
  BY Zenon, <1>5, UndisturbedOK

-----------------------------------------------------------------------------

\* Every step keeps the order as long as no Close has been signalled.
LEMMA OrderInductive ==
    ASSUME TypeInv, Order, Unclosed, Unclosed', [Next]_vars
    PROVE  Order'
<1> USE DEF setup, lvars, gvars
<1>1. /\ OneLoop /\ cur \in Nat /\ signalled = {} /\ signalled' = {}
      /\ mpc \in [Msgs -> {"idle", "waits", "sent", "refused", "cancelled"}]
      /\ gpc \in [Gens -> {"none", "top", "select", "broadcast", "drain", "end"}]
  BY Zenon DEF Order, TypeInv, Unclosed
<1>2. ASSUME NEW m \in Msgs, Publish(m) PROVE Order'
  <2>1. PublishSteps(m) /\ mpc[m] # "sent"
    BY Zenon, <1>2, PublishCases DEF Publish
  <2>2. UNCHANGED <<cur, gvars, sending, got, buffer>>
    BY Zenon, <1>2 DEF Publish
  <2>3. CASE channel' = Append(channel, m) /\ mpc' = [mpc EXCEPT ![m] = "sent"]
    BY Zenon, <2>1, <2>2, <2>3, SendsOK
  <2>4. CASE channel' = channel /\ \A n \in Msgs : mpc[n] = "sent" => mpc'[n] = "sent"
    <3>1. Undisturbed /\ OneLoop'
      BY Zenon, <1>1, <2>2, <2>4 DEF Undisturbed, OneLoop, Log
    <3> QED
      BY Zenon, <3>1, UndisturbedOK
  <2>5. channel' = channel => \A n \in Msgs : mpc[n] = "sent" => mpc'[n] = "sent"
    BY Zenon, <1>1, <2>1 DEF PublishSteps
  <2> QED
    BY Zenon, <2>1, <2>3, <2>4, <2>5 DEF PublishSteps
<1>3. ASSUME NEW m \in Msgs, PublishSend(m) PROVE Order'
  <2>1. /\ mpc[m] # "sent" /\ channel' = Append(channel, m)
        /\ mpc' = [mpc EXCEPT ![m] = "sent"]
        /\ UNCHANGED <<cur, gvars, sending, got, buffer>>
    BY Zenon, <1>3 DEF PublishSend
  <2> QED
    BY Zenon, <2>1, SendsOK
<1>4. ASSUME NEW m \in Msgs, PublishGiveUp(m) \/ Cancel(m) PROVE Order'
  <2>1. UNCHANGED <<channel, cur, gpc, msg, todo, sending, got, buffer>>
    BY Zenon, <1>4 DEF PublishGiveUp, Cancel
  <2>2. \A n \in Msgs : mpc[n] = "sent" => mpc'[n] = "sent"
    BY Zenon, <1>1, <1>4 DEF PublishGiveUp, Cancel
  <2>3. Undisturbed /\ OneLoop'
    BY Zenon, <1>1, <2>1, <2>2 DEF Undisturbed, OneLoop, Log
  <2> QED
    BY Zenon, <2>3, UndisturbedOK
<1>5. ASSUME NEW g \in Gens, Enter(g) PROVE Order'
  <2>1. UNCHANGED <<channel, cur, msg, todo, sending, mpc, got, buffer>>
    BY Zenon, <1>5 DEF Enter
  <2>2. \A i \in Gens : /\ gpc'[i] = "broadcast" => gpc[i] = "broadcast"
                        /\ gpc'[i] # "none" => gpc[i] # "none"
    BY Zenon, <1>1, <1>5 DEF Enter
  <2>3. Undisturbed /\ OneLoop'
    BY Zenon, <1>1, <2>1, <2>2 DEF Undisturbed, OneLoop, Log
  <2> QED
    BY Zenon, <2>3, UndisturbedOK
<1>6. ASSUME NEW g \in Gens, Take(g) PROVE Order'
  BY Zenon, <1>6, TakeOK
<1>7. ASSUME NEW g \in Gens, Signal(g) PROVE Order'
  BY Zenon, <1>1, <1>7 DEF Signal
<1>8. ASSUME NEW g \in Gens, NEW l \in Listeners, Broadcast(g, l) PROVE Order'
  BY Zenon, <1>8, BroadcastStepOK DEF Unclosed
<1>9. ASSUME NEW g \in Gens, NEW l \in Listeners, Drain(g, l) PROVE Order'
  <2>1. UNCHANGED <<channel, cur, msg, sending, mpc, got, buffer>> /\ gpc[g] = "drain"
    BY Zenon, <1>9 DEF Drain
  <2>2. \A i \in Gens : /\ gpc'[i] = "broadcast" => i # g /\ gpc[i] = "broadcast"
                        /\ gpc'[i] # "none" => gpc[i] # "none"
    BY Zenon, <1>1, <1>9 DEF Drain
  <2>3. \A i \in Gens : gpc'[i] = "broadcast" => todo'[i] = todo[i]
    BY Zenon, <1>9, <2>2 DEF Drain, TypeInv
  <2>4. Undisturbed /\ OneLoop'
    BY Zenon, <1>1, <2>1, <2>2, <2>3 DEF Undisturbed, OneLoop, Log
  <2> QED
    BY Zenon, <2>4, UndisturbedOK
<1>10. ASSUME NEW m \in Msgs, NEW l \in Listeners, SendLate(m, l) PROVE Order'
  BY Zenon, <1>10 DEF SendLate, Order
<1>11. ASSUME NEW l \in Listeners,
              \/ CheckFirst(l) \/ CheckLast(l) \/ Close(l) \/ Subscribe(l) \/ Unsubscribe(l)
       PROVE  Order'
  <2>1. UNCHANGED <<channel, cur, gpc, msg, todo, sending, mpc, got, buffer>>
    BY Zenon, <1>11 DEF CheckFirst, CheckLast, Close, Subscribe, Unsubscribe
  <2>2. Undisturbed /\ OneLoop'
    BY Zenon, <1>1, <2>1 DEF Undisturbed, OneLoop, Log
  <2> QED
    BY Zenon, <2>2, UndisturbedOK
<1>12. ASSUME NEW l \in Listeners, Start(l) PROVE Order'
  <2>1. UNCHANGED <<channel, msg, todo, sending, mpc, got, buffer>>
    BY Zenon, <1>12 DEF Start
  <2>2. \/ UNCHANGED <<cur, gpc>>
        \/ cur = 0 /\ cur' = 1 /\ gpc' = [gpc EXCEPT ![1] = "top"]
    BY <1>1, <1>12 DEF Start, Running
  <2>3. OneLoop' /\ \A i \in Gens : gpc'[i] = "broadcast" => gpc[i] = "broadcast"
    BY <1>1, <2>2 DEF OneLoop
  <2>4. Undisturbed
    BY Zenon, <2>1, <2>3 DEF Undisturbed, Log
  <2> QED
    BY Zenon, <2>3, <2>4, UndisturbedOK
<1>13. ASSUME NEW l \in Listeners, Receive(l) PROVE Order'
  BY Zenon, <1>13, ReceiveOK
<1>14. CASE UNCHANGED vars
  <2>1. UNCHANGED <<channel, cur, gpc, msg, todo, sending, mpc, got, buffer>>
    BY Zenon, <1>14 DEF vars
  <2>2. Undisturbed /\ OneLoop'
    BY Zenon, <1>1, <2>1 DEF Undisturbed, OneLoop, Log
  <2> QED
    BY Zenon, <2>2, UndisturbedOK
<1> QED
  BY Zenon, <1>2, <1>3, <1>4, <1>5, <1>6, <1>7, <1>8, <1>9, <1>10, <1>11, <1>12, <1>13,
     <1>14 DEF Next, Publisher, Loop, Listener

\* What has not been signalled now was not signalled before.
LEMMA UnclosedBefore ==
    ASSUME [Next]_vars, Unclosed'
    PROVE  Unclosed
<1> USE DEF setup, lvars, gvars
<1>1. mode' = mode /\ signalled \subseteq signalled'
  BY Zenon DEF Next, vars, Publisher, Publish, PublishSend, PublishGiveUp, Cancel, Loop,
     Enter, Take, Signal, Broadcast, Drain, SendLate, Listener, CheckFirst, Start, Subscribe,
     Unsubscribe, CheckLast, Close, Receive
<1> QED
  BY Zenon, <1>1 DEF Unclosed

\* Logs that agree are heard in one order.
LEMMA OrderConsequence ==
    ASSUME TypeInv, Order
    PROVE  SameOrder
<1> SUFFICES ASSUME NEW k \in Listeners, NEW l \in Listeners,
                    NEW i \in 1 .. Len(got[k]), NEW j \in 1 .. Len(got[k]), i < j,
                    NEW x \in 1 .. Len(got[l]), NEW y \in 1 .. Len(got[l]), x < y,
                    got[l][x] = got[k][j], got[l][y] = got[k][i]
             PROVE  FALSE
  BY DEF SameOrder
<1>1. /\ got[k] \in Seq(Msgs) /\ buffer[k] \in Seq(Msgs)
      /\ got[l] \in Seq(Msgs) /\ buffer[l] \in Seq(Msgs)
  BY Zenon DEF TypeInv
<1>2. /\ i \in 1 .. Len(Log(k)) /\ j \in 1 .. Len(Log(k))
      /\ Log(k)[i] = got[k][i] /\ Log(k)[j] = got[k][j]
  BY Zenon, <1>1, LogBegins DEF Log
<1>3. /\ x \in 1 .. Len(Log(l)) /\ y \in 1 .. Len(Log(l))
      /\ Log(l)[x] = got[l][x] /\ Log(l)[y] = got[l][y]
  BY Zenon, <1>1, LogBegins DEF Log
<1>4. Agree(Log(k), Log(l))
  BY Zenon DEF Order
<1> QED
  BY Zenon, <1>2, <1>3, <1>4 DEF Agree

\* The invariant holds at the start.
LEMMA InitOK == Init => IInv
<1> SUFFICES ASSUME Init PROVE IInv
  OBVIOUS
<1>1. TypeInv
  BY DEF Init, TypeInv
<1>2. \A l \in Listeners : Log(l) = <<>>
  BY DEF Init, Log
<1>3. Order
  <2>1. OneLoop /\ sending = {} /\ ChannelOK
    BY DEF Init, OneLoop, ChannelOK, Once, In
  <2>2. \A l \in Listeners : LogOK(l)
    BY <1>2 DEF LogOK, Once, In
  <2>3. \A g \in Gens : BroadcastOK(g)
    BY Zenon DEF Init, BroadcastOK
  <2>4. \A k, l \in Listeners : Agree(Log(k), Log(l))
    BY <1>2 DEF Agree
  <2> QED
    BY Zenon, <2>1, <2>2, <2>3, <2>4 DEF Order
<1> QED
  BY Zenon, <1>1, <1>3 DEF IInv

\* Whatever the number of messages, listeners and restarts and the size of the
\* buffers, the subscribers of a blocking channel that has not been closed hear
\* one order: Start, the goroutine and broadcast together.
THEOREM SubscribersHearOneOrder == Spec => []SameOrder
<1>1. IInv /\ [Next]_vars => IInv'
  BY Zenon, TypeInvInductive, OrderInductive, UnclosedBefore DEF IInv
<1>2. IInv => SameOrder
  BY Zenon, OrderConsequence DEF IInv, SameOrder, Unclosed
<1> QED
  BY InitOK, <1>1, <1>2, PTL DEF Spec

-----------------------------------------------------------------------------
(* PubSub *)

ServiceCounters == [Subs -> Nat]

\* Every message that a subscriber was to see is accounted for, closed
\* subscribers included, and an open subscriber is on the list.
ServiceIInv ==
    /\ open \subseteq Subs /\ open \subseteq psubs
    /\ pbuffer \in ServiceCounters /\ lost \in ServiceCounters
    /\ taken \in ServiceCounters /\ seen \in ServiceCounters
    /\ \A s \in Subs : taken[s] + pbuffer[s] + lost[s] = seen[s]

\* The initial state satisfies the invariant.
LEMMA ServiceInitIInv == ASSUME Service!Init PROVE ServiceIInv
  BY DEF Service!Init, ServiceIInv, ServiceCounters

\* Publish counts a message for a subscriber where it counts it as seen.
LEMMA ServicePublishIInv == ASSUME ServiceIInv, Service!Publish PROVE ServiceIInv'
  <1>1. /\ pbuffer \in [Subs -> Nat] /\ lost \in [Subs -> Nat]
        /\ taken \in [Subs -> Nat] /\ seen \in [Subs -> Nat]
        /\ open \subseteq psubs
        /\ \A s \in Subs : taken[s] + pbuffer[s] + lost[s] = seen[s]
    BY Zenon DEF ServiceIInv, ServiceCounters
  <1>2. PICK to, full :
          /\ to = psubs \cap open /\ full = {s \in to : pbuffer[s] = Capacity}
          /\ pbuffer' = [s \in Subs |-> pbuffer[s] + IF s \in to \ full THEN 1 ELSE 0]
          /\ lost' = [s \in Subs |-> lost[s] + IF s \in full THEN 1 ELSE 0]
    BY Zenon DEF Service!Publish
  <1>3. /\ seen' = [s \in Subs |-> seen[s] + IF s \in open THEN 1 ELSE 0]
        /\ UNCHANGED <<psubs, open, taken>>
    BY Zenon DEF Service!Publish
  <1>4. full \subseteq to /\ \A s : s \in to <=> s \in open
    BY Zenon, <1>1, <1>2
  <1>5. /\ pbuffer' \in [Subs -> Nat] /\ lost' \in [Subs -> Nat]
        /\ seen' \in [Subs -> Nat]
    BY <1>1, <1>2, <1>3
  <1>6. ASSUME NEW s \in Subs
        PROVE  taken'[s] + pbuffer'[s] + lost'[s] = seen'[s]
    <2>1. /\ pbuffer'[s] = pbuffer[s] + IF s \in to \ full THEN 1 ELSE 0
          /\ lost'[s] = lost[s] + IF s \in full THEN 1 ELSE 0
          /\ seen'[s] = seen[s] + IF s \in open THEN 1 ELSE 0
          /\ taken'[s] = taken[s]
      BY Zenon, <1>2, <1>3
    <2>2. /\ pbuffer[s] \in Nat /\ lost[s] \in Nat /\ taken[s] \in Nat /\ seen[s] \in Nat
          /\ taken[s] + pbuffer[s] + lost[s] = seen[s]
      BY Zenon, <1>1
    <2>3. CASE s \in open
      BY <1>4, <2>1, <2>2, <2>3
    <2>4. CASE s \notin open
      BY <1>4, <2>1, <2>2, <2>4
    <2> QED BY Zenon, <2>3, <2>4
  <1> QED BY Zenon, <1>1, <1>3, <1>5, <1>6 DEF ServiceIInv, ServiceCounters

\* Receive moves a message from the buffer to what was taken.
LEMMA ServiceReceiveIInv == ASSUME ServiceIInv, NEW s \in Subs, Service!Receive(s) PROVE ServiceIInv'
  <1>1. /\ pbuffer \in [Subs -> Nat] /\ lost \in [Subs -> Nat]
        /\ taken \in [Subs -> Nat] /\ seen \in [Subs -> Nat]
        /\ \A u \in Subs : taken[u] + pbuffer[u] + lost[u] = seen[u]
    BY Zenon DEF ServiceIInv, ServiceCounters
  <1>2. /\ pbuffer[s] > 0 /\ pbuffer' = [pbuffer EXCEPT ![s] = @ - 1]
        /\ taken' = [taken EXCEPT ![s] = @ + 1]
        /\ UNCHANGED <<psubs, open, lost, seen>>
    BY Zenon DEF Service!Receive
  <1>3. pbuffer' \in [Subs -> Nat] /\ taken' \in [Subs -> Nat]
    BY <1>1, <1>2
  <1>4. \A u \in Subs : taken'[u] + pbuffer'[u] + lost'[u] = seen'[u]
    BY <1>1, <1>2
  <1> QED BY Zenon, <1>1, <1>2, <1>3, <1>4 DEF ServiceIInv, ServiceCounters

\* Every step keeps the invariant.
LEMMA ServiceNextIInv == ASSUME ServiceIInv, [Service!Next]_Service!vars PROVE ServiceIInv'
  <1>1. CASE UNCHANGED <<open, Service!msgs>> /\ psubs' \in {psubs, psubs \cap open}
    BY Zenon, <1>1 DEF ServiceIInv, Service!msgs
  <1>2. CASE \E s \in Subs : Service!Subscribe(s)
    BY Zenon, <1>2 DEF Service!Subscribe, ServiceIInv, Service!msgs
  <1>3. CASE \E s \in Subs : Service!CloseSub(s)
    BY Zenon, <1>3 DEF Service!CloseSub, ServiceIInv, Service!msgs
  <1>4. \A p : Service!Periodic(p) => UNCHANGED <<open, Service!msgs>> /\ psubs' \in {psubs, psubs \cap open}
    BY Zenon DEF Service!Periodic, Service!CheckClosed, Service!Execute, Service!Stop, Service!Arm, Service!Remaining
  <1>5. \A p : Service!Start(p) \/ Service!Fire(p) => UNCHANGED <<open, Service!msgs>> /\ psubs' = psubs
    BY Zenon DEF Service!Start, Service!Fire
  <1>6. UNCHANGED Service!vars => UNCHANGED <<open, Service!msgs>> /\ psubs' = psubs
    BY Zenon DEF Service!vars, Service!msgs
  <1> QED BY Zenon, <1>1, <1>2, <1>3, <1>4, <1>5, <1>6, ServicePublishIInv, ServiceReceiveIInv
             DEF Service!Next

\* pubsub.go, periodic.go: whichever goroutines run Cleanup, and whenever, an
\* open subscriber misses only what found its buffer full.
THEOREM SubscribersMissNothing == Service!Spec => []NothingMissed
  <1>1. Service!Init => ServiceIInv
    BY Zenon, ServiceInitIInv
  <1>2. ServiceIInv /\ [Service!Next]_Service!vars => ServiceIInv'
    BY Zenon, ServiceNextIInv
  <1>3. ServiceIInv => Service!NothingMissed
    BY Zenon DEF ServiceIInv, Service!NothingMissed
  <1> QED BY <1>1, <1>2, <1>3, PTL DEF Service!Spec, NothingMissed

-----------------------------------------------------------------------------
(* HealthPing *)

\* A round that has registered and not yet unregistered is registered, or
\* cancelled, or about to be cancelled by the one that replaced it.
PingIInv ==
    /\ DOMAIN hpc = Ping!Checks /\ DOMAIN old = Rounds
    /\ \A r \in Rounds :
         hpc[r] \in {"cancel", "check"} =>
             \/ cancelPending = r \/ r \in hcancelled
             \/ \E s \in Rounds : hpc[s] = "cancel" /\ old[s] = r

\* The initial state satisfies the invariant.
LEMMA PingInitIInv == ASSUME Init0 \notin Rounds, Ping!Init PROVE PingIInv
  <1>1. PICK r \in Rounds :
          hpc = [c \in Ping!Checks |-> IF c \in {r, Init0} THEN "select" ELSE "idle"]
    BY Zenon DEF Ping!Init
  <1>2. \A c \in Ping!Checks : hpc[c] \in {"select", "idle"}
    BY Zenon, <1>1
  <1>3. DOMAIN hpc = Ping!Checks /\ DOMAIN old = Rounds
    BY Zenon, <1>1 DEF Ping!Init
  <1> QED BY Zenon, <1>2, <1>3 DEF PingIInv, Ping!Checks

\* A goroutine moves on; who is registered or cancelled stays so.
LEMMA PingMoveIInv ==
  ASSUME PingIInv, UNCHANGED <<cancelPending, hcancelled, old>>,
         NEW c \in Ping!Checks, NEW l, hpc' = [hpc EXCEPT ![c] = l],
         c \in Rounds => hpc[c] # "cancel" /\ (l \in {"cancel", "check"} => hpc[c] = "check")
  PROVE  PingIInv'
  <1>1. DOMAIN hpc' = Ping!Checks /\ \A d \in Ping!Checks : hpc'[d] = IF d = c THEN l ELSE hpc[d]
    BY Zenon DEF PingIInv
  <1>2. Rounds \subseteq Ping!Checks
    BY Zenon DEF Ping!Checks
  <1>3. ASSUME NEW u \in Rounds, hpc'[u] \in {"cancel", "check"}
        PROVE  \/ cancelPending' = u \/ u \in hcancelled'
               \/ \E s \in Rounds : hpc'[s] = "cancel" /\ old'[s] = u
    <2>1. hpc[u] \in {"cancel", "check"}
      BY Zenon, <1>1, <1>2, <1>3
    <2>2. CASE \E s \in Rounds : hpc[s] = "cancel" /\ old[s] = u
      BY Zenon, <1>1, <1>2, <2>2
    <2> QED BY Zenon, <2>1, <2>2 DEF PingIInv
  <1> QED BY Zenon, <1>1, <1>3 DEF PingIInv

\* The round that was registered is from now on known to r, and r registered.
LEMMA PingSwapIInv == ASSUME PingIInv, NEW r \in Rounds, Ping!Swap(r) PROVE PingIInv'
  <1>1. Rounds \subseteq Ping!Checks
    BY Zenon DEF Ping!Checks
  <1>2. \A s \in Rounds : /\ hpc'[s] = IF s = r THEN "cancel" ELSE hpc[s]
                          /\ old'[s] = IF s = r THEN cancelPending ELSE old[s]
    BY Zenon, <1>1 DEF Ping!Swap, PingIInv
  <1>3. DOMAIN hpc' = Ping!Checks /\ DOMAIN old' = Rounds
    BY Zenon DEF Ping!Swap, PingIInv
  <1>4. hpc[r] = "swap" /\ cancelPending' = r /\ hcancelled' = hcancelled
    BY Zenon DEF Ping!Swap
  <1>5. ASSUME NEW u \in Rounds, hpc'[u] \in {"cancel", "check"}, u # r,
               u \notin hcancelled'
        PROVE  \E s \in Rounds : hpc'[s] = "cancel" /\ old'[s] = u
    <2>1. hpc[u] \in {"cancel", "check"} /\ u \notin hcancelled
      BY Zenon, <1>2, <1>4, <1>5
    <2>2. CASE cancelPending = u
      BY Zenon, <1>2, <2>2
    <2>3. CASE \E s \in Rounds : hpc[s] = "cancel" /\ old[s] = u
      BY Zenon, <1>2, <1>4, <2>3
    <2> QED BY Zenon, <2>1, <2>2, <2>3 DEF PingIInv
  <1> QED BY Zenon, <1>3, <1>4, <1>5 DEF PingIInv

\* The round that r replaced is cancelled, unless it is over.
LEMMA PingCancelIInv == ASSUME PingIInv, NEW r \in Rounds, Ping!Cancel(r) PROVE PingIInv'
  <1>1. Rounds \subseteq Ping!Checks
    BY Zenon DEF Ping!Checks
  <1>2. \A s \in Rounds : /\ hpc'[s] = IF s = r THEN "check" ELSE hpc[s]
                          /\ old'[s] = IF s = r THEN None ELSE old[s]
    BY Zenon, <1>1 DEF Ping!Cancel, PingIInv
  <1>3. DOMAIN hpc' = Ping!Checks /\ DOMAIN old' = Rounds
    BY Zenon DEF Ping!Cancel, PingIInv
  <1>4. /\ hpc[r] = "cancel" /\ cancelPending' = cancelPending
        /\ hcancelled' = hcancelled \cup {s \in Rounds : s = old[r] /\ hpc[s] # "idle"}
    BY Zenon DEF Ping!Cancel
  <1>5. ASSUME NEW u \in Rounds, hpc'[u] \in {"cancel", "check"},
               u \notin hcancelled', cancelPending' # u
        PROVE  \E s \in Rounds : hpc'[s] = "cancel" /\ old'[s] = u
    <2>1. hpc[u] \in {"cancel", "check"}
      BY Zenon, <1>2, <1>4, <1>5
    <2>2. PICK s \in Rounds : hpc[s] = "cancel" /\ old[s] = u
      BY Zenon, <1>4, <1>5, <2>1 DEF PingIInv
    <2>3. s # r
      BY Zenon, <1>4, <1>5, <2>1, <2>2
    <2> QED BY Zenon, <1>2, <2>2, <2>3
  <1> QED BY Zenon, <1>3, <1>5 DEF PingIInv

\* A round that ends takes back its own registration and no other.
LEMMA PingEndIInv ==
  ASSUME PingIInv, NEW r \in Rounds, Ping!Unregister(r) \/ Ping!Cleanup(r)
  PROVE  PingIInv'
  <1>1. Rounds \subseteq Ping!Checks
    BY Zenon DEF Ping!Checks
  <1>2. /\ DOMAIN hpc' = Ping!Checks /\ old' = old /\ hpc[r] \notin {"cancel", "check"}
        /\ \A s \in Rounds : hpc'[s] = IF s = r THEN hpc'[r] ELSE hpc[s]
        /\ hpc'[r] \notin {"cancel", "check"}
    BY Zenon, <1>1 DEF Ping!Unregister, Ping!Cleanup, PingIInv
  <1>3. \A s \in Rounds : /\ s \in hcancelled /\ s # r => s \in hcancelled'
                          /\ cancelPending = s /\ s # r => cancelPending' = s
    BY Zenon DEF Ping!Unregister, Ping!Cleanup
  <1>4. ASSUME NEW u \in Rounds, hpc'[u] \in {"cancel", "check"}
        PROVE  \/ cancelPending' = u \/ u \in hcancelled'
               \/ \E s \in Rounds : hpc'[s] = "cancel" /\ old'[s] = u
    <2>1. u # r /\ hpc[u] \in {"cancel", "check"}
      BY Zenon, <1>2, <1>4
    <2>2. CASE cancelPending = u \/ u \in hcancelled
      BY Zenon, <1>3, <2>1, <2>2
    <2>3. CASE \E s \in Rounds : hpc[s] = "cancel" /\ old[s] = u
      BY Zenon, <1>2, <2>3
    <2> QED BY Zenon, <2>1, <2>2, <2>3 DEF PingIInv
  <1> QED BY Zenon, <1>2, <1>4 DEF PingIInv

\* Every step keeps the invariant.
LEMMA PingNextIInv == ASSUME Init0 \notin Rounds, PingIInv, [Ping!Next]_Ping!vars PROVE PingIInv'
  <1>1. CASE UNCHANGED <<cancelPending, hcancelled, old, hpc>>
    BY Zenon, <1>1 DEF PingIInv
  <1>2. CASE \E c \in Ping!Checks : Ping!Select(c)
    <2>1. PICK c \in Ping!Checks : Ping!Select(c)
      BY Zenon, <1>2
    <2>2. /\ UNCHANGED <<cancelPending, hcancelled, old>> /\ hpc[c] = "select"
          /\ \/ c = Init0 /\ hpc' = [hpc EXCEPT ![c] = "check"]
             \/ hpc' = [hpc EXCEPT ![c] = "swap"]
      BY Zenon, <2>1 DEF Ping!Select
    <2> QED BY Zenon, <2>2, PingMoveIInv
  <1>3. CASE \E c \in Ping!Checks : Ping!Return(c)
    <2>1. PICK c \in Ping!Checks : Ping!Return(c)
      BY Zenon, <1>3
    <2>2. /\ UNCHANGED <<cancelPending, hcancelled, old>> /\ hpc[c] = "check"
          /\ \/ hpc' = [hpc EXCEPT ![c] = "over"]
             \/ hpc' = [hpc EXCEPT ![c] = "unregister"]
      BY Zenon, <2>1 DEF Ping!Return
    <2> QED BY Zenon, <2>2, PingMoveIInv
  <1>4. CASE \E r \in Rounds : Ping!Tick(r)
    <2>1. PICK r \in Rounds : Ping!Tick(r)
      BY Zenon, <1>4
    <2>2. /\ UNCHANGED <<cancelPending, hcancelled, old>> /\ hpc[r] = "idle"
          /\ hpc' = [hpc EXCEPT ![r] = "select"] /\ r \in Ping!Checks
      BY Zenon, <2>1 DEF Ping!Tick, Ping!Checks
    <2> QED BY Zenon, <2>2, PingMoveIInv
  <1>5. /\ Ping!Stop => UNCHANGED <<cancelPending, hcancelled, old, hpc>>
        /\ \A t : Ping!Configure(t) => UNCHANGED <<cancelPending, hcancelled, old, hpc>>
        /\ \A c, t : Ping!Ping(c, t) \/ Ping!Receive(c, t)
                       => UNCHANGED <<cancelPending, hcancelled, old, hpc>>
        /\ UNCHANGED Ping!vars => UNCHANGED <<cancelPending, hcancelled, old, hpc>>
    BY Zenon DEF Ping!Stop, Ping!Configure, Ping!Ping, Ping!Receive, Ping!vars
  <1> QED BY Zenon, <1>1, <1>2, <1>3, <1>4, <1>5, PingSwapIInv, PingCancelIInv, PingEndIInv
             DEF Ping!Next, Ping!Round, Ping!Check

\* healthping.go: however many rounds overlap, one that still pings is the
\* registered one, or is cancelled, or is about to be.
THEOREM RoundsPingAlone == ASSUME Init0 \notin Rounds PROVE Ping!Spec => []OneRoundPings
  <1>1. Ping!Init => PingIInv
    BY Zenon, PingInitIInv
  <1>2. PingIInv /\ [Ping!Next]_Ping!vars => PingIInv'
    BY Zenon, PingNextIInv
  <1>3. PingIInv => Ping!OneRoundPings
    BY Zenon DEF PingIInv, Ping!OneRoundPings
  <1> QED BY <1>1, <1>2, <1>3, PTL DEF Ping!Spec, OneRoundPings

=============================================================================
