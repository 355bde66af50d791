------------------------------ MODULE KCPWindow ------------------------------
(***************************************************************************)
(* transport/internet/kcp: the SendingWorker of one end and the            *)
(* ReceivingWorker of the other over an unreliable packet network, that    *)
(* is one direction of an mKCP connection while both ends are active.      *)
(* Segments are numbered from 0.  The sender resends what it holds until   *)
(* an acknowledgement or the receiver's ReceivingNext releases it; the     *)
(* receiver repeats an acknowledgement until the sender's SendingNext      *)
(* shows that it is no longer needed.  The numbers are uint32 in the code; *)
(* here they do not wrap.                                                  *)
(***************************************************************************)
EXTENDS Integers, FiniteSets

CONSTANTS
    SendWindow,    \* SendingWorker.windowSize
    InFlight,      \* Config.GetSendingInFlightSize()
    CwndMultiplier,   \* Config.CwndMultiplier
    RecvWindow,    \* ReceivingWorker.windowSize
    RemoteInit,    \* the initial remoteNextNumber, 32 in the code
    MaxNumber,     \* bound: segments pushed
    MaxNet         \* bound: segments the network holds at a time

ASSUME WindowAssumption ==
    /\ SendWindow \in Nat /\ InFlight \in Nat /\ RecvWindow \in Nat
    /\ CwndMultiplier \in Nat /\ RemoteInit \in Nat
    /\ MaxNumber \in Nat /\ MaxNet \in Nat

VARIABLES
    window,       \* the numbers in SendingWindow.cache
    transmitted,  \* those with transmit > 0
    firstUnack,   \* firstUnacknowledged
    sendNext,     \* SendingWorker.nextNumber
    remoteNext,   \* remoteNextNumber
    updated,      \* firstUnacknowledgedUpdated
    recvNext,     \* ReceivingWorker.nextNumber
    cache,        \* the numbers in ReceivingWindow.cache
    acks,         \* the numbers in AckList
    dirty,        \* AckList.dirty
    net           \* segments under way

senderVars == <<window, transmitted, firstUnack, sendNext, remoteNext, updated>>
receiverVars == <<recvNext, cache, acks, dirty>>
vars == <<senderVars, receiverVars, net>>

\* The segments, with the fields the two workers look at.
Data(n, una) == [type |-> "data", number |-> n, sendingNext |-> una]
Ack(nums, next) ==
    [type |-> "ack", numbers |-> nums, receivingNext |-> next,
     receivingWindow |-> next + RecvWindow]
PingToReceiver(una) == [type |-> "pingR", sendingNext |-> una]
PingToSender(next) == [type |-> "pingS", receivingNext |-> next]

Segments ==
    [type : {"data"}, number : Nat, sendingNext : Nat]
    \cup [type : {"ack"}, numbers : SUBSET Nat, receivingNext : Nat,
          receivingWindow : Nat]
    \cup [type : {"pingR"}, sendingNext : Nat]
    \cup [type : {"pingS"}, receivingNext : Nat]

Init ==
    /\ window = {} /\ transmitted = {}
    /\ firstUnack = 0 /\ sendNext = 0
    /\ remoteNext = RemoteInit
    /\ updated = FALSE
    /\ recvNext = 0 /\ cache = {} /\ acks = {} /\ dirty = FALSE
    /\ net = {}

\* output.Write: the network drops some of what it is given.
Write(segs) ==
    \E kept \in SUBSET segs :
        /\ Cardinality(net \cup kept) <= MaxNet
        /\ net' = net \cup kept

-----------------------------------------------------------------------------
(* The sender. *)

Push ==
    /\ Cardinality(window) <= SendWindow
    /\ sendNext < MaxNumber
    /\ window' = window \cup {sendNext}
    /\ sendNext' = sendNext + 1
    /\ UNCHANGED <<transmitted, firstUnack, remoteNext, updated, receiverVars,
                   net>>

\* remoteNextNumber-firstUnacknowledged is a uint32: below zero it is huge.
\* OnPacketLoss may lower it to controlWindow, at least 16.
Cwnd ==
    CwndMultiplier *
        (IF remoteNext >= firstUnack /\ remoteNext - firstUnack < InFlight
         THEN remoteNext - firstUnack
         ELSE InFlight)

\* SendingWindow.Flush visits the segments in order, skips those that are not
\* due, and stops after the one that fills the window: one is always sent.
FlushSends(due, chosen) ==
    /\ chosen # {}
    /\ \A n \in due \ chosen, c \in chosen : c < n
    /\ due # chosen => Cardinality(chosen) <= Cwnd \/ Cardinality(chosen) = 1

\* Flush with segments in the window.  A segment that was never sent is due,
\* any other when its timeout has passed.
FlushWindow ==
    \E due \in SUBSET window :
        /\ window \ transmitted \subseteq due
        /\ \E chosen \in SUBSET due :
              /\ FlushSends(due, chosen)
              /\ Write({Data(n, firstUnack) : n \in chosen})
              /\ transmitted' = transmitted \cup chosen
        /\ updated' = FALSE
        /\ UNCHANGED <<window, firstUnack, sendNext, remoteNext, receiverVars>>

\* Flush with an empty window pings when firstUnacknowledged has moved.
FlushEmpty ==
    /\ window = {} /\ updated
    /\ Write({PingToReceiver(firstUnack)})
    /\ updated' = FALSE
    /\ UNCHANGED <<window, transmitted, firstUnack, sendNext, remoteNext,
                   receiverVars>>

\* The ping of Connection.flush every three seconds, both ways.
SenderPings ==
    /\ Write({PingToReceiver(firstUnack)})
    /\ UNCHANGED <<senderVars, receiverVars>>

FindFirstUnacknowledged(w) ==
    /\ IF w = {} THEN firstUnack' = sendNext
       ELSE firstUnack' \in w /\ \A n \in w : firstUnack' <= n
    /\ updated' = (updated \/ firstUnack' # firstUnack)

\* Mutant: the number una itself is released too.
ClearThrough(una) == {n \in window : n > una}

\* Mutant: off by one the other way.
ClearShort(una) == {n \in window : n + 1 >= una}

\* What SendingWindow.Clear leaves.
Clear(una) == {n \in window : n >= una}

\* ProcessSegment of an acknowledgement: Clear, then processAck of each number.
RecvAck(m) ==
    LET w == Clear(m.receivingNext) \ m.numbers IN
    /\ m.type = "ack"
    /\ remoteNext' = IF remoteNext < m.receivingWindow THEN m.receivingWindow
                     ELSE remoteNext
    /\ window' = w
    /\ transmitted' = transmitted \cap w
    /\ FindFirstUnacknowledged(w)
    /\ UNCHANGED <<sendNext, receiverVars>>

\* ProcessReceivingNext of a ping.
RecvPingS(m) ==
    LET w == Clear(m.receivingNext) IN
    /\ m.type = "pingS"
    /\ window' = w
    /\ transmitted' = transmitted \cap w
    /\ FindFirstUnacknowledged(w)
    /\ UNCHANGED <<sendNext, remoteNext, receiverVars>>

-----------------------------------------------------------------------------
(* The receiver. *)

\* number - nextNumber < windowSize, in uint32
InWindow(n) == recvNext <= n /\ n < recvNext + RecvWindow

\* What AckList.Clear leaves.
AckListClear(una) == {n \in acks : n >= una}

RecvData(m) ==
    /\ m.type = "data"
    /\ IF InWindow(m.number)
         THEN /\ acks' = AckListClear(m.sendingNext) \cup {m.number}
              /\ dirty' = TRUE
              /\ cache' = cache \cup {m.number}
         ELSE UNCHANGED <<acks, dirty, cache>>
    /\ UNCHANGED <<senderVars, recvNext>>

\* ProcessSendingNext of a ping.
RecvPingR(m) ==
    LET a == AckListClear(m.sendingNext) IN
    /\ m.type = "pingR"
    /\ acks' = a
    /\ dirty' = (dirty \/ a # acks)
    /\ UNCHANGED <<senderVars, recvNext, cache>>

\* ReadMultiBuffer: everything from nextNumber up to the first gap.
Read ==
    \E k \in cache :
        /\ recvNext .. k \subseteq cache
        /\ k + 1 \notin cache
        /\ recvNext <= k
        /\ recvNext' = k + 1
        /\ cache' = cache \ (recvNext .. k)
        /\ UNCHANGED <<senderVars, acks, dirty, net>>

\* AckList.Flush: the numbers that are due, and as many others as fit.  They
\* stay in the list.
FlushReceiver ==
    \E nums \in SUBSET acks :
        /\ nums # {} \/ dirty
        /\ Write({Ack(nums, recvNext)})
        /\ dirty' = FALSE
        /\ UNCHANGED <<senderVars, recvNext, cache, acks>>

ReceiverPings ==
    /\ Write({PingToSender(recvNext)})
    /\ UNCHANGED <<senderVars, receiverVars>>

-----------------------------------------------------------------------------
(* Connection.Input, and the network: it loses, repeats and reorders. *)

Input(m) == RecvData(m) \/ RecvAck(m) \/ RecvPingR(m) \/ RecvPingS(m)

Deliver(m) ==
    /\ m \in net
    /\ net' = net \/ net' = net \ {m}
    /\ Input(m)

Lose(m) ==
    /\ m \in net
    /\ net' = net \ {m}
    /\ UNCHANGED <<senderVars, receiverVars>>

Next ==
    \/ Push \/ FlushWindow \/ FlushEmpty \/ SenderPings
    \/ Read \/ FlushReceiver \/ ReceiverPings
    \/ \E m \in net : Deliver(m) \/ Lose(m)

Spec == Init /\ [][Next]_vars

\* The updaters flush and ping as long as the connection lives, the
\* application reads, and the network does not lose a segment that is sent,
\* nor delay one that is under way, for ever.
Fairness ==
    /\ WF_vars(Read)
    /\ SF_vars(FlushWindow /\ Data(firstUnack, firstUnack) \in net')
    /\ SF_vars(ReceiverPings /\ PingToSender(recvNext) \in net')
    /\ SF_vars(\E m \in net :
                  m.type = "data" /\ m.number = recvNext /\ Deliver(m))
    /\ SF_vars(\E m \in net :
                  m.type = "pingS" /\ m.receivingNext = recvNext /\ Deliver(m))
    /\ WF_vars(\E m \in net : Deliver(m) /\ net' = net \ {m})

FairSpec == Spec /\ Fairness

-----------------------------------------------------------------------------
(* Properties *)

\* The variables have their types.
TypeOK ==
    /\ window \in SUBSET Nat
    /\ transmitted \in SUBSET Nat
    /\ firstUnack \in Nat /\ sendNext \in Nat /\ remoteNext \in Nat
    /\ updated \in BOOLEAN
    /\ recvNext \in Nat
    /\ cache \in SUBSET Nat
    /\ acks \in SUBSET Nat
    /\ dirty \in BOOLEAN
    /\ net \in SUBSET Segments

\* Every number the receiver has or has handed to the application.
Received == cache \cup (0 .. recvNext - 1)

\* Whatever the network loses, repeats or reorders, the sender gives up its
\* only copy of a segment only when the receiver has it: no acknowledgement
\* and no ReceivingNext, however old, releases a segment that never arrived.
SafeRelease ==
    \A n \in 0 .. sendNext - 1 : n \in window \/ n \in Received

\* The receiver never forgets an acknowledgement the sender still waits for:
\* of a segment that waits in its cache and in the sender's window it keeps
\* the number in its list, whatever old SendingNext arrives.
AcksAreKept ==
    \A n \in window \cap cache : n \in acks

\* The receiver holds at most RecvWindow segments, all within its window and
\* all numbers the sender has used.
ReceiverBounded ==
    \A n \in cache :
        /\ recvNext <= n /\ n < recvNext + RecvWindow
        /\ n < sendNext

\* firstUnacknowledged, which the receiver uses to drop acknowledgements and
\* Flush to size its window, is a number below which nothing is held.
FirstUnackIsFirst ==
    /\ \A n \in window : firstUnack <= n
    /\ firstUnack <= sendNext

\* Every segment that is pushed is read.
PushedIsRead == \A n \in 0 .. MaxNumber - 1 : (n < sendNext) ~> (n < recvNext)

\* The sending window drains, so that a closing connection can terminate.
WindowDrains == (window # {}) ~> (window = {})

=============================================================================
