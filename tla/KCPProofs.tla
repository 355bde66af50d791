----------------------------- MODULE KCPProofs ------------------------------
(***************************************************************************)
(* Proofs about the windows of an mKCP connection, for every window size and *)
(* every number of segments, and about its closing handshake.              *)
(*                                                                         *)
(* KCPWindow: the inductive invariant adds to the properties what is true of *)
(* every segment under way, however old: its SendingNext is not above the  *)
(* sender's firstUnacknowledged, its ReceivingNext not above the receiver's *)
(* nextNumber, and what it acknowledges has been received.                 *)
(*                                                                         *)
(* KCPClose: until "a" was forced, no goroutine of "a" goes past ReadyToClose *)
(* while the datum is in its window, and what "b" acknowledges it has.     *)
(***************************************************************************)
EXTENDS MCKCP, TLAPS

-----------------------------------------------------------------------------
(* KCPWindow *)

\* What is true of a segment under way.
SegmentOK(m) ==
    /\ m.type = "data" => m.number < sendNext /\ m.sendingNext <= firstUnack
    /\ m.type = "pingR" => m.sendingNext <= firstUnack
    /\ m.type = "ack" => /\ m.numbers \subseteq Received
                         /\ m.receivingNext <= recvNext
    /\ m.type = "pingS" => m.receivingNext <= recvNext

\* The inductive invariant.
IInv ==
    /\ TypeOK
    /\ FirstUnackIsFirst
    /\ \A n \in window : n < sendNext
    /\ recvNext <= sendNext
    /\ ReceiverBounded
    /\ SafeRelease
    /\ AcksAreKept
    /\ acks \subseteq Received
    /\ \A m \in net : SegmentOK(m)

\* The initial state satisfies the invariant.
LEMMA InitIInv == Init => IInv
<1> SUFFICES ASSUME Init PROVE IInv
  OBVIOUS
<1>1. TypeOK
  BY Zenon, WindowAssumption DEF Init, TypeOK
<1>2. FirstUnackIsFirst /\ ReceiverBounded /\ AcksAreKept /\ recvNext <= sendNext
  BY DEF Init, FirstUnackIsFirst, ReceiverBounded, AcksAreKept
<1>3. SafeRelease
  BY DEF Init, SafeRelease
<1> QED
  BY Zenon, <1>1, <1>2, <1>3 DEF Init, IInv

\* Segments are not disturbed when the counters only grow and nothing that was
\* received is forgotten.
LEMMA SegmentsStayOK ==
    ASSUME TypeOK, firstUnack' \in Nat, sendNext' \in Nat, recvNext' \in Nat,
           firstUnack <= firstUnack', sendNext <= sendNext',
           recvNext <= recvNext', Received \subseteq Received',
           NEW m \in net, SegmentOK(m)
    PROVE  SegmentOK(m)'
<1>1. m \in Segments
  BY Zenon DEF TypeOK
<1>2. CASE m.type = "data"
  <2>1. m.number \in Nat /\ m.sendingNext \in Nat
    BY Zenon, <1>1, <1>2 DEF Segments
  <2> QED BY <2>1, <1>2 DEF SegmentOK, TypeOK
<1>3. CASE m.type = "pingR"
  <2>1. m.sendingNext \in Nat
    BY Zenon, <1>1, <1>3 DEF Segments
  <2> QED BY <2>1, <1>3 DEF SegmentOK, TypeOK
<1>4. CASE m.type = "ack"
  <2>1. m.receivingNext \in Nat
    BY Zenon, <1>1, <1>4 DEF Segments
  <2> QED BY <2>1, <1>4 DEF SegmentOK, TypeOK
<1>5. CASE m.type = "pingS"
  <2>1. m.receivingNext \in Nat
    BY Zenon, <1>1, <1>5 DEF Segments
  <2> QED BY <2>1, <1>5 DEF SegmentOK, TypeOK
<1> QED BY Zenon, <1>1, <1>2, <1>3, <1>4, <1>5 DEF Segments

\* The sender's side of the invariant after a release: w is what is left of
\* the window, and everything released has been received.
LEMMA Release ==
    ASSUME IInv, NEW w, w \subseteq window,
           \A n \in window \ w : n \in Received,
           window' = w, transmitted' = transmitted \cap w,
           FindFirstUnacknowledged(w),
           UNCHANGED <<sendNext, receiverVars>>,
           remoteNext' \in Nat, net' \subseteq net
    PROVE  IInv'
<1> USE DEF IInv
<1>1. firstUnack' \in Nat /\ firstUnack <= firstUnack'
      /\ firstUnack' <= sendNext /\ (\A n \in w : firstUnack' <= n)
  <2>1. CASE w = {}
    BY <2>1 DEF FindFirstUnacknowledged, FirstUnackIsFirst, TypeOK
  <2>2. CASE w # {}
    <3>1. firstUnack' \in w /\ \A n \in w : firstUnack' <= n
      BY Zenon, <2>2 DEF FindFirstUnacknowledged
    <3>2. firstUnack' \in window /\ firstUnack' \in Nat /\ sendNext \in Nat
      BY Zenon, <3>1 DEF TypeOK
    <3>3. firstUnack <= firstUnack' /\ firstUnack' < sendNext
      BY Zenon, <3>2 DEF FirstUnackIsFirst
    <3> QED BY <3>1, <3>2, <3>3
  <2> QED BY Zenon, <2>1, <2>2
<1>2. updated' \in BOOLEAN
  BY Zenon DEF FindFirstUnacknowledged, TypeOK
<1>3. TypeOK'
  BY Zenon, <1>1, <1>2 DEF TypeOK, receiverVars
<1>4. FirstUnackIsFirst'
  BY Zenon, <1>1 DEF FirstUnackIsFirst
<1>5. Received' = Received
  BY Zenon DEF Received, receiverVars
<1>6. SafeRelease'
  BY Zenon, <1>5 DEF SafeRelease
<1>7. AcksAreKept'
  BY Zenon DEF AcksAreKept, receiverVars
<1>8. ReceiverBounded'
  BY Zenon DEF ReceiverBounded, receiverVars
<1>9. ASSUME NEW m \in net' PROVE SegmentOK(m)'
  <2>1. m \in net /\ SegmentOK(m)
    OBVIOUS
  <2>2. sendNext' \in Nat /\ recvNext' \in Nat /\ sendNext <= sendNext'
        /\ recvNext <= recvNext'
    BY DEF TypeOK, receiverVars
  <2> QED BY Zenon, <2>1, <2>2, <1>1, <1>5, SegmentsStayOK
<1> QED
  BY Zenon, <1>3, <1>4, <1>5, <1>6, <1>7, <1>8, <1>9 DEF receiverVars

\* Segments that are written join the ones under way.
LEMMA WriteOK ==
    ASSUME IInv, NEW segs, segs \subseteq Segments,
           \A m \in segs : SegmentOK(m), Write(segs),
           UNCHANGED <<window, firstUnack, sendNext, remoteNext, recvNext, cache,
                       acks>>,
           transmitted' \in SUBSET Nat, updated' \in BOOLEAN, dirty' \in BOOLEAN
    PROVE  IInv'
<1> USE DEF IInv
<1>1. net' \subseteq net \cup segs
  BY Zenon DEF Write
<1>2. TypeOK'
  BY Zenon, <1>1 DEF TypeOK
<1>3. ASSUME NEW m \in net' PROVE SegmentOK(m)'
  <2>1. SegmentOK(m)
    BY Zenon, <1>1
  <2> QED BY Zenon, <2>1 DEF SegmentOK, Received
<1> QED
  BY Zenon, <1>2, <1>3 DEF FirstUnackIsFirst, ReceiverBounded, SafeRelease, AcksAreKept,
     Received

\* Every step preserves the invariant.
LEMMA NextIInv == IInv /\ [Next]_vars => IInv'
<1> SUFFICES ASSUME IInv, [Next]_vars PROVE IInv'
  OBVIOUS
<1> USE DEF IInv
<1>1. CASE Push
  <2>1. TypeOK'
    BY <1>1 DEF Push, TypeOK, receiverVars
  <2>2. FirstUnackIsFirst' /\ (\A n \in window : n < sendNext)'
        /\ (recvNext <= sendNext)'
    BY <1>1 DEF Push, TypeOK, receiverVars, FirstUnackIsFirst
  <2>3. ReceiverBounded'
    BY <1>1 DEF Push, TypeOK, receiverVars, ReceiverBounded
  <2>4. Received' = Received
    BY Zenon, <1>1 DEF Push, Received, receiverVars
  <2>5. SafeRelease'
    BY <1>1, <2>4 DEF Push, TypeOK, SafeRelease
  <2>6. AcksAreKept'
    BY <1>1 DEF Push, TypeOK, AcksAreKept, ReceiverBounded, receiverVars
  <2>7. ASSUME NEW m \in net' PROVE SegmentOK(m)'
    <3>1. m \in net /\ SegmentOK(m)
      BY Zenon, <1>1 DEF Push
    <3>2. firstUnack' \in Nat /\ sendNext' \in Nat /\ recvNext' \in Nat
          /\ firstUnack <= firstUnack' /\ sendNext <= sendNext'
          /\ recvNext <= recvNext'
      BY <1>1 DEF Push, TypeOK, receiverVars
    <3> QED BY Zenon, <3>1, <3>2, <2>4, SegmentsStayOK
  <2> QED
    BY Zenon, <1>1, <2>1, <2>2, <2>3, <2>4, <2>5, <2>6, <2>7 DEF Push, receiverVars
<1>2. CASE FlushWindow
  <2>1. PICK due \in SUBSET window, chosen \in SUBSET window :
           /\ Write({Data(n, firstUnack) : n \in chosen})
           /\ transmitted' = transmitted \cup chosen
           /\ updated' = FALSE
           /\ UNCHANGED <<window, firstUnack, sendNext, remoteNext,
                          receiverVars>>
    BY Zenon, <1>2 DEF FlushWindow
  <2> DEFINE segs == {Data(n, firstUnack) : n \in chosen}
  <2>2. \A m \in segs : m \in Segments /\ SegmentOK(m)
    BY DEF Data, Segments, SegmentOK, TypeOK
  <2>3. transmitted' \in SUBSET Nat
    BY Zenon, <2>1 DEF TypeOK
  <2> HIDE DEF segs
  <2>4. Write(segs)
    BY Zenon, <2>1 DEF segs
  <2>5. UNCHANGED <<window, firstUnack, sendNext, remoteNext, recvNext, cache,
                    acks>> /\ updated' \in BOOLEAN /\ dirty' \in BOOLEAN
    BY Zenon, <2>1 DEF receiverVars, TypeOK
  <2> QED BY Zenon, <2>2, <2>3, <2>4, <2>5, WriteOK
<1>3. CASE FlushEmpty \/ SenderPings
  <2>1. PingToReceiver(firstUnack) \in Segments
        /\ SegmentOK(PingToReceiver(firstUnack))
    BY DEF PingToReceiver, Segments, SegmentOK, TypeOK
  <2>2. Write({PingToReceiver(firstUnack)})
        /\ UNCHANGED <<window, firstUnack, sendNext, remoteNext, recvNext, cache,
                       acks>>
        /\ transmitted' \in SUBSET Nat /\ updated' \in BOOLEAN
        /\ dirty' \in BOOLEAN
    BY Zenon, <1>3 DEF FlushEmpty, SenderPings, senderVars, receiverVars, TypeOK
  <2> QED BY Zenon, <2>1, <2>2, WriteOK
<1>4. CASE FlushReceiver
  <2>1. PICK nums \in SUBSET acks :
           /\ Write({Ack(nums, recvNext)})
           /\ dirty' = FALSE
           /\ UNCHANGED <<senderVars, recvNext, cache, acks>>
    BY Zenon, <1>4 DEF FlushReceiver
  <2>2. Ack(nums, recvNext) \in Segments /\ SegmentOK(Ack(nums, recvNext))
    BY WindowAssumption DEF Ack, Segments, SegmentOK, TypeOK
  <2>3. UNCHANGED <<window, firstUnack, sendNext, remoteNext, recvNext, cache,
                    acks>>
        /\ transmitted' \in SUBSET Nat /\ updated' \in BOOLEAN
        /\ dirty' \in BOOLEAN
    BY Zenon, <2>1 DEF senderVars, TypeOK
  <2> QED BY Zenon, <2>1, <2>2, <2>3, WriteOK
<1>5. CASE ReceiverPings
  <2>1. PingToSender(recvNext) \in Segments /\ SegmentOK(PingToSender(recvNext))
    BY DEF PingToSender, Segments, SegmentOK, TypeOK
  <2>2. Write({PingToSender(recvNext)})
        /\ UNCHANGED <<window, firstUnack, sendNext, remoteNext, recvNext, cache,
                       acks>>
        /\ transmitted' \in SUBSET Nat /\ updated' \in BOOLEAN
        /\ dirty' \in BOOLEAN
    BY Zenon, <1>5 DEF ReceiverPings, senderVars, receiverVars, TypeOK
  <2> QED BY Zenon, <2>1, <2>2, WriteOK
<1>6. CASE Read
  <2>1. PICK k \in cache :
           /\ recvNext .. k \subseteq cache
           /\ recvNext <= k
           /\ recvNext' = k + 1
           /\ cache' = cache \ (recvNext .. k)
           /\ UNCHANGED <<senderVars, acks, dirty, net>>
    BY Zenon, <1>6 DEF Read
  <2>2. k \in Nat /\ k < sendNext
    BY Zenon DEF TypeOK, ReceiverBounded
  <2>3. TypeOK'
    BY <2>1, <2>2 DEF TypeOK, senderVars
  <2>4. Received' = Received
    BY <2>1, <2>2 DEF Received, TypeOK, ReceiverBounded
  <2>5. ReceiverBounded'
    BY <2>1, <2>2, WindowAssumption DEF ReceiverBounded, TypeOK, senderVars
  <2>6. SafeRelease' /\ AcksAreKept' /\ FirstUnackIsFirst'
    BY Zenon, <2>1, <2>4 DEF SafeRelease, AcksAreKept, FirstUnackIsFirst, senderVars
  <2>7. (recvNext <= sendNext)'
    BY <2>1, <2>2 DEF TypeOK, senderVars
  <2>8. ASSUME NEW m \in net' PROVE SegmentOK(m)'
    <3>1. m \in net /\ SegmentOK(m)
      BY Zenon, <2>1
    <3>2. firstUnack' \in Nat /\ sendNext' \in Nat /\ recvNext' \in Nat
          /\ firstUnack <= firstUnack' /\ sendNext <= sendNext'
          /\ recvNext <= recvNext'
      BY <2>1, <2>2 DEF TypeOK, senderVars
    <3> QED BY Zenon, <3>1, <3>2, <2>4, SegmentsStayOK
  <2> QED
    BY Zenon, <2>1, <2>3, <2>4, <2>5, <2>6, <2>7, <2>8 DEF senderVars
<1>7. ASSUME NEW m \in net, RecvAck(m) \/ RecvPingS(m), net' \subseteq net
      PROVE  IInv'
  <2>1. m \in Segments /\ SegmentOK(m)
    BY Zenon DEF TypeOK
  <2>2. CASE RecvAck(m)
    <3> DEFINE w == Clear(m.receivingNext) \ m.numbers
    <3>1. m.receivingNext \in Nat /\ m.receivingWindow \in Nat
          /\ m.receivingNext <= recvNext /\ m.numbers \subseteq Received
      BY Zenon, <2>1, <2>2 DEF RecvAck, Segments, SegmentOK
    <3>2. w \subseteq window /\ \A n \in window \ w : n \in Received
      BY <3>1 DEF Clear, Received, TypeOK
    <3>3. window' = w /\ transmitted' = transmitted \cap w
          /\ FindFirstUnacknowledged(w) /\ UNCHANGED <<sendNext, receiverVars>>
      BY Zenon, <2>2 DEF RecvAck
    <3>4. remoteNext' \in Nat
      BY Zenon, <2>2, <3>1 DEF RecvAck, TypeOK
    <3> HIDE DEF w
    <3> QED BY Zenon, <1>7, <3>2, <3>3, <3>4, Release
  <2>3. CASE RecvPingS(m)
    <3> DEFINE w == Clear(m.receivingNext)
    <3>1. m.receivingNext \in Nat /\ m.receivingNext <= recvNext
      BY Zenon, <2>1, <2>3 DEF RecvPingS, Segments, SegmentOK
    <3>2. w \subseteq window /\ \A n \in window \ w : n \in Received
      BY <3>1 DEF Clear, Received, TypeOK
    <3>3. window' = w /\ transmitted' = transmitted \cap w
          /\ FindFirstUnacknowledged(w) /\ UNCHANGED <<sendNext, receiverVars>>
          /\ remoteNext' \in Nat
      BY Zenon, <2>3 DEF RecvPingS, TypeOK
    <3> HIDE DEF w
    <3> QED BY Zenon, <1>7, <3>2, <3>3, Release
  <2> QED BY Zenon, <1>7, <2>2, <2>3
<1>8. ASSUME NEW m \in net, RecvData(m) \/ RecvPingR(m), net' \subseteq net
      PROVE  IInv'
  <2>1. m \in Segments /\ SegmentOK(m)
    BY Zenon DEF TypeOK
  <2>2. m.sendingNext \in Nat /\ m.sendingNext <= firstUnack
    BY Zenon, <1>8, <2>1 DEF RecvData, RecvPingR, Segments, SegmentOK
  <2>3. m.type = "data" => m.number \in Nat /\ m.number < sendNext
    BY Zenon, <2>1 DEF Segments, SegmentOK
  <2>4. UNCHANGED <<senderVars, recvNext>>
    BY Zenon, <1>8 DEF RecvData, RecvPingR
  <2>5. cache \subseteq cache' /\ dirty' \in BOOLEAN
        /\ (\A n \in cache' : n \in cache \/ (/\ n \in Nat /\ n < sendNext
                                            /\ InWindow(n) /\ n \in acks'))
    BY Zenon, <1>8, <2>3 DEF RecvData, RecvPingR, TypeOK
  <2>6. \A n \in acks : n >= m.sendingNext => n \in acks'
    BY Zenon, <1>8 DEF RecvData, RecvPingR, AckListClear
  <2>7. \A n \in acks' : n \in acks \/ n \in cache'
    BY Zenon, <1>8 DEF RecvData, RecvPingR, AckListClear
  <2>8. Received \subseteq Received'
    BY Zenon, <2>4, <2>5 DEF Received
  <2>9. TypeOK'
    BY Zenon, <1>8, <2>4, <2>5, <2>7 DEF TypeOK, senderVars
  <2>10. ReceiverBounded'
    BY Zenon, <2>4, <2>5 DEF ReceiverBounded, InWindow, senderVars
  <2>11. AcksAreKept'
    <3> SUFFICES ASSUME NEW n \in window, n \in cache' PROVE n \in acks'
      BY Zenon, <2>4 DEF AcksAreKept, senderVars
    <3>1. CASE n \in cache
      <4>1. n \in acks /\ n \in Nat /\ firstUnack <= n
        BY Zenon, <3>1 DEF AcksAreKept, TypeOK, FirstUnackIsFirst
      <4>2. n >= m.sendingNext
        BY <4>1, <2>2 DEF TypeOK
      <4> QED BY Zenon, <4>1, <4>2, <2>6
    <3> QED BY Zenon, <3>1, <2>5
  <2>12. SafeRelease' /\ FirstUnackIsFirst'
    BY Zenon, <2>4, <2>8 DEF SafeRelease, FirstUnackIsFirst, senderVars
  <2>13. (acks \subseteq Received)'
    BY Zenon, <2>7, <2>8 DEF Received
  <2>14. ASSUME NEW k \in net' PROVE SegmentOK(k)'
    <3>1. k \in net /\ SegmentOK(k)
      BY Zenon, <1>8
    <3>2. firstUnack' \in Nat /\ sendNext' \in Nat /\ recvNext' \in Nat
          /\ firstUnack <= firstUnack' /\ sendNext <= sendNext'
          /\ recvNext <= recvNext'
      BY <2>4 DEF TypeOK, senderVars
    <3> QED BY Zenon, <3>1, <3>2, <2>8, SegmentsStayOK
  <2> QED
    BY Zenon, <2>4, <2>9, <2>10, <2>11, <2>12, <2>13, <2>14 DEF senderVars
<1>9. CASE \E m \in net : Deliver(m)
  <2>1. PICK m \in net : Deliver(m)
    BY Zenon, <1>9
  <2>2. net' \subseteq net /\ Input(m)
    BY Zenon, <2>1 DEF Deliver
  <2> QED BY Zenon, <2>2, <1>7, <1>8 DEF Input
<1>10. CASE \E m \in net : Lose(m)
  <2>1. net' \subseteq net /\ UNCHANGED <<senderVars, receiverVars>>
    BY Zenon, <1>10 DEF Lose
  <2>2. ASSUME NEW m \in net' PROVE SegmentOK(m)'
    BY Zenon, <2>1 DEF SegmentOK, Received, senderVars, receiverVars
  <2>3. TypeOK'
    BY Zenon, <2>1 DEF TypeOK, senderVars, receiverVars
  <2> QED
    BY Zenon, <2>1, <2>2, <2>3 DEF FirstUnackIsFirst, ReceiverBounded, SafeRelease,
       AcksAreKept, Received, senderVars, receiverVars
<1>11. CASE UNCHANGED vars
  <2>1. UNCHANGED <<senderVars, receiverVars, net>>
    BY Zenon, <1>11 DEF vars
  <2>2. ASSUME NEW m \in net' PROVE SegmentOK(m)'
    BY Zenon, <2>1 DEF SegmentOK, Received, senderVars, receiverVars
  <2>3. TypeOK'
    BY Zenon, <2>1 DEF TypeOK, senderVars, receiverVars
  <2> QED
    BY Zenon, <2>1, <2>2, <2>3 DEF FirstUnackIsFirst, ReceiverBounded, SafeRelease,
       AcksAreKept, Received, senderVars, receiverVars
<1> QED
  BY Zenon, <1>1, <1>2, <1>3, <1>4, <1>5, <1>6, <1>9, <1>10, <1>11 DEF Next

\* The invariant holds always.
LEMMA SpecIInv == Spec => []IInv
  BY InitIInv, NextIInv, PTL DEF Spec

\* The variables of both workers keep their types; in particular no segment
\* carries a number below zero.
THEOREM KCPTypeOK == Spec => []TypeOK
<1>1. IInv => TypeOK
  BY Zenon DEF IInv
<1> QED BY <1>1, SpecIInv, PTL

\* SendingWindow.Clear and Remove never release a segment the receiver does
\* not have, whatever old acknowledgements and pings arrive.
THEOREM KCPSafeRelease == Spec => []SafeRelease
<1>1. IInv => SafeRelease
  BY Zenon DEF IInv
<1> QED BY <1>1, SpecIInv, PTL

\* AckList.Clear never drops an acknowledgement the sender still needs.
THEOREM KCPAcksAreKept == Spec => []AcksAreKept
<1>1. IInv => AcksAreKept
  BY Zenon DEF IInv
<1> QED BY <1>1, SpecIInv, PTL

\* The receiving window never holds more than its size allows.
THEOREM KCPReceiverBounded == Spec => []ReceiverBounded
<1>1. IInv => ReceiverBounded
  BY Zenon DEF IInv
<1> QED BY <1>1, SpecIInv, PTL

-----------------------------------------------------------------------------
(* KCPClose *)

\* The values of Connection.state, of a decision, and the segments.
ConnStates == {"Active", "ReadyToClose", "PeerClosed", "Terminating",
               "PeerTerminating", "Terminated"}
ConnDecisions == [from : ConnStates \cup {"none"}, to : ConnStates \cup {"none"}]
ConnSegments == [kind : {"none", "ping", "data", "term"}, close : BOOLEAN, acked : BOOLEAN]

\* The variables have their types.
ConnTyped ==
    /\ state \in [Conn!Ends -> ConnStates]
    /\ pend \in [Conn!Ends -> [Conn!Actors -> ConnDecisions]]
    /\ under \in [Conn!Ends -> SUBSET ConnSegments]
    /\ input \in [Conn!Ends -> ConnSegments]
    /\ wpc \in {"idle", "checked", "done"}
    /\ holds \in BOOLEAN /\ rcvd \in BOOLEAN
    /\ released \in [Conn!Ends -> Nat]
    /\ early \in BOOLEAN /\ forced \in BOOLEAN

\* Nothing that tells "b" of the termination of "a" is under way.
ConnNoTerm ==
    /\ \A m \in under["b"] : m.kind # "term"
    /\ input["b"].kind # "term"
    /\ \A x \in Conn!Actors : pend["b"][x].to # "PeerTerminating"
    /\ state["b"] # "PeerTerminating"

\* No goroutine of "a" has decided to go further than ReadyToClose.
ConnPatient == \A x \in Conn!Actors : pend["a"][x].to \in {"none", "ReadyToClose"}

\* The datum waits for its acknowledgement.
ConnKept == holds /\ state["a"] \in {"Active", "ReadyToClose"} /\ ConnPatient /\ ConnNoTerm

\* No goroutine goes back to Active.
ConnNoReturn == \A x \in Conn!Actors : pend["a"][x].to # "Active"

\* Only what "b" has received is acknowledged.
ConnAckedIsIn ==
    \A e \in Conn!Ends : (\A m \in under[e] : m.acked => rcvd) /\ (input[e].acked => rcvd)

\* While "a" is Active nothing is terminated, nor about to be of its own.
ConnFresh == state["a"] = "Active" => released["a"] = 0 /\ ConnNoTerm /\ (forced \/ ConnPatient)

\* A datum that "a" wrote before its Close arrives before the termination.
ConnSafe == ~forced /\ wpc = "done" /\ (early \/ state["a"] = "Active") => rcvd \/ ConnKept

\* The inductive invariant.
ConnIInv ==
    ConnTyped /\ ConnNoReturn /\ ConnAckedIsIn /\ ConnFresh /\ (early => wpc = "done") /\ ConnSafe

\* The ends are two, each the peer of the other.
LEMMA ConnEndsDiffer ==
  "a" # "b" /\ "a" \in Conn!Ends /\ "b" \in Conn!Ends /\ Conn!Peer("a") = "b" /\ Conn!Peer("b") = "a"
  BY Zenon DEF Conn!Ends, Conn!Peer

\* The initial state satisfies the invariant.
LEMMA ConnInitIInv == ASSUME Conn!Init PROVE ConnIInv
  <1>1. /\ state = [e \in Conn!Ends |-> "Active"]
        /\ pend = [e \in Conn!Ends |-> [x \in Conn!Actors |-> Conn!Undecided]]
        /\ under = [e \in Conn!Ends |-> {}]
        /\ input = [e \in Conn!Ends |-> Conn!NoSegment]
        /\ wpc = "idle" /\ holds = FALSE /\ rcvd = FALSE
        /\ released = [e \in Conn!Ends |-> 0]
        /\ early = FALSE /\ forced = FALSE
    BY Zenon DEF Conn!Init
  <1>2. /\ Conn!Undecided \in ConnDecisions /\ Conn!Undecided.to = "none"
        /\ Conn!NoSegment \in ConnSegments /\ Conn!NoSegment.kind = "none" /\ ~Conn!NoSegment.acked
    BY Zenon DEF Conn!Undecided, Conn!NoSegment, ConnDecisions, ConnSegments, ConnStates
  <1>3. ConnTyped
    <2>1. released \in [Conn!Ends -> Nat]
      BY Zenon, <1>1
    <2>2. state \in [Conn!Ends -> ConnStates]
      BY Zenon, <1>1 DEF ConnStates
    <2>3. pend \in [Conn!Ends -> [Conn!Actors -> ConnDecisions]]
      BY Zenon, <1>1, <1>2
    <2>4. under \in [Conn!Ends -> SUBSET ConnSegments] /\ input \in [Conn!Ends -> ConnSegments]
      BY Zenon, <1>1, <1>2
    <2> QED BY Zenon, <1>1, <2>1, <2>2, <2>3, <2>4 DEF ConnTyped
  <1>4. \A e \in Conn!Ends : /\ state[e] = "Active" /\ under[e] = {} /\ input[e] = Conn!NoSegment
                             /\ released[e] = 0 /\ \A x \in Conn!Actors : pend[e][x] = Conn!Undecided
    BY Zenon, <1>1
  <1>5. ConnNoTerm /\ ConnPatient
    BY Zenon, <1>2, <1>4, ConnEndsDiffer DEF ConnNoTerm, ConnPatient
  <1>6. ConnNoReturn /\ ConnAckedIsIn /\ ConnFresh /\ ConnSafe
    BY Zenon, <1>1, <1>2, <1>4, <1>5, ConnEndsDiffer DEF ConnNoReturn, ConnAckedIsIn, ConnFresh, ConnSafe
  <1> QED BY Zenon, <1>1, <1>3, <1>6 DEF ConnIInv

\* A decision is of one goroutine of one end.
LEMMA ConnDecideMoves ==
  ASSUME ConnTyped, NEW e \in Conn!Ends, NEW x \in Conn!Actors, NEW s \in ConnStates \cup {"none"},
         Conn!Decide(e, x, s)
  PROVE  /\ pend' \in [Conn!Ends -> [Conn!Actors -> ConnDecisions]]
         /\ pend'[e][x].to = s
         /\ \A f \in Conn!Ends, y \in Conn!Actors : f # e \/ y # x => pend'[f][y] = pend[f][y]
  <1>1. PICK d : /\ d = IF s = "none" THEN Conn!Undecided ELSE [from |-> state[e], to |-> s]
                 /\ pend' = [pend EXCEPT ![e][x] = d]
    BY Zenon DEF Conn!Decide
  <1>2. state[e] \in ConnStates /\ pend \in [Conn!Ends -> [Conn!Actors -> ConnDecisions]]
    BY Zenon DEF ConnTyped
  <1>3. d \in ConnDecisions /\ d.to = s
    <2>1. CASE s = "none"
      BY Zenon, <1>1, <2>1 DEF Conn!Undecided, ConnDecisions
    <2>2. CASE s # "none"
      BY Zenon, <1>1, <1>2, <2>2 DEF ConnDecisions
    <2> QED BY Zenon, <2>1, <2>2
  <1> QED BY Zenon, <1>1, <1>2, <1>3

\* A goroutine of "b" decides; it did not hear of the termination of "a", or
\* that was under way already.
LEMMA ConnPeerDecides ==
  ASSUME ConnIInv, NEW x \in Conn!Actors, NEW s \in ConnStates \cup {"none"}, Conn!Decide("b", x, s),
         UNCHANGED <<state, released, Conn!dataVars>>,
         /\ under' \in [Conn!Ends -> SUBSET ConnSegments] /\ input' \in [Conn!Ends -> ConnSegments]
         /\ under'["b"] \subseteq under["b"] /\ under'["a"] = under["a"] /\ input'["a"] = input["a"]
         /\ input'["b"] \in under["b"] \cup {input["b"]},
         ConnNoTerm => s # "PeerTerminating"
  PROVE  ConnIInv'
  <1>1. UNCHANGED <<wpc, holds, rcvd, early, forced>>
    BY Zenon DEF Conn!dataVars
  <1>9. ConnTyped /\ "b" \in Conn!Ends
    BY Zenon, ConnEndsDiffer DEF ConnIInv
  <1>2. /\ pend' \in [Conn!Ends -> [Conn!Actors -> ConnDecisions]] /\ pend'["b"][x].to = s
        /\ \A f \in Conn!Ends, y \in Conn!Actors : f # "b" \/ y # x => pend'[f][y] = pend[f][y]
    BY Zenon, <1>9, ConnDecideMoves
  <1>3. ConnTyped'
    BY Zenon, <1>1, <1>2 DEF ConnIInv, ConnTyped
  <1>4. \A y \in Conn!Actors : pend'["a"][y] = pend["a"][y]
    BY Zenon, <1>2, ConnEndsDiffer
  <1>5. ConnNoReturn' /\ (ConnPatient => ConnPatient')
    BY Zenon, <1>4 DEF ConnIInv, ConnNoReturn, ConnPatient
  <1>6. ConnAckedIsIn'
    BY Zenon, <1>1 DEF ConnIInv, ConnAckedIsIn, Conn!Ends
  <1>7. ConnNoTerm => ConnNoTerm'
    BY Zenon, <1>2, ConnEndsDiffer DEF ConnNoTerm
  <1>8. ConnFresh' /\ ConnSafe'
    BY Zenon, <1>1, <1>5, <1>7 DEF ConnIInv, ConnFresh, ConnSafe, ConnKept
  <1> QED BY Zenon, <1>1, <1>3, <1>5, <1>6, <1>8 DEF ConnIInv

\* A goroutine of "a" decides: to close, or it was forced to end.
LEMMA ConnOwnDecides ==
  ASSUME ConnIInv, NEW x \in Conn!Actors, NEW s \in ConnStates \cup {"none"}, Conn!Decide("a", x, s),
         s # "Active", UNCHANGED <<state, released, wpc, holds, rcvd>>,
         /\ under' \in [Conn!Ends -> SUBSET ConnSegments] /\ input' \in [Conn!Ends -> ConnSegments]
         /\ under'["a"] \subseteq under["a"] /\ under'["b"] = under["b"] /\ input'["b"] = input["b"]
         /\ input'["a"] \in under["a"] \cup {input["a"]},
         early' \in BOOLEAN /\ forced' \in BOOLEAN,
         forced => forced',
         early' => early \/ (state["a"] = "Active" /\ wpc = "done"),
         state["a"] = "Active" \/ ConnKept => forced' \/ s \in {"none", "ReadyToClose"}
  PROVE  ConnIInv'
  <1>1. /\ pend' \in [Conn!Ends -> [Conn!Actors -> ConnDecisions]] /\ pend'["a"][x].to = s
        /\ \A f \in Conn!Ends, y \in Conn!Actors : f # "a" \/ y # x => pend'[f][y] = pend[f][y]
    BY Zenon, ConnEndsDiffer, ConnDecideMoves DEF ConnIInv
  <1>2. ConnTyped'
    BY Zenon, <1>1 DEF ConnIInv, ConnTyped
  <1>3. \A y \in Conn!Actors : pend'["b"][y] = pend["b"][y]
    BY Zenon, <1>1, ConnEndsDiffer
  <1>4. ConnNoReturn'
    BY Zenon, <1>1, ConnEndsDiffer DEF ConnIInv, ConnNoReturn
  <1>5. ConnPatient /\ s \in {"none", "ReadyToClose"} => ConnPatient'
    BY Zenon, <1>1, ConnEndsDiffer DEF ConnPatient
  <1>6. ConnAckedIsIn'
    BY Zenon DEF ConnIInv, ConnAckedIsIn, Conn!Ends
  <1>7. ConnNoTerm => ConnNoTerm'
    BY Zenon, <1>3 DEF ConnNoTerm
  <1>8. ConnFresh'
    BY Zenon, <1>5, <1>7 DEF ConnIInv, ConnFresh
  <1>9. ConnSafe'
    BY Zenon, <1>5, <1>7 DEF ConnIInv, ConnSafe, ConnKept
  <1>10. early' => wpc' = "done"
    BY Zenon DEF ConnIInv
  <1> QED BY Zenon, <1>2, <1>4, <1>6, <1>8, <1>9, <1>10 DEF ConnIInv

\* Where the decisions of the code lead.
LEMMA ConnLeads ==
  ASSUME NEW s \in ConnStates
  PROVE  /\ \A t \in {Conn!CloseTo(s), Conn!OnPeerClosedTo(s), Conn!TerminateTo(s), Conn!TimeoutTo(s)} :
              t \in ConnStates \cup {"none"} /\ t # "Active"
         /\ Conn!CloseTo(s) # "PeerTerminating" /\ Conn!OnPeerClosedTo(s) # "PeerTerminating"
         /\ Conn!TimeoutTo(s) # "PeerTerminating"
         /\ s = "Active" => Conn!CloseTo(s) = "ReadyToClose" /\ Conn!TimeoutTo(s) = "ReadyToClose"
         /\ s = "ReadyToClose" => Conn!CloseTo(s) = "none"
  <1>1. Conn!CloseTo(s) \in {"ReadyToClose", "Terminating", "Terminated", "none"}
    BY Zenon DEF Conn!CloseTo
  <1>2. Conn!OnPeerClosedTo(s) \in {"Terminating", "PeerClosed", "none"}
    BY Zenon DEF Conn!OnPeerClosedTo
  <1>3. Conn!TerminateTo(s) \in {"PeerTerminating", "Terminating", "Terminated", "none"}
    BY Zenon DEF Conn!TerminateTo
  <1>4. Conn!TimeoutTo(s) \in {"ReadyToClose", "Terminating", "Terminated", "none"}
    BY Zenon DEF Conn!TimeoutTo
  <1>5. /\ s = "Active" => Conn!CloseTo(s) = "ReadyToClose" /\ Conn!TimeoutTo(s) = "ReadyToClose"
        /\ s = "ReadyToClose" => Conn!CloseTo(s) = "none"
    BY Zenon DEF Conn!CloseTo, Conn!TimeoutTo
  <1>6. /\ Conn!CloseTo(s) # "PeerTerminating" /\ Conn!OnPeerClosedTo(s) # "PeerTerminating"
        /\ Conn!TimeoutTo(s) # "PeerTerminating"
    BY Zenon, <1>1, <1>2, <1>4
  <1>7. \A t \in {Conn!CloseTo(s), Conn!OnPeerClosedTo(s), Conn!TerminateTo(s), Conn!TimeoutTo(s)} :
              t \in ConnStates \cup {"none"} /\ t # "Active"
    <2>1. Conn!CloseTo(s) \in ConnStates \cup {"none"} /\ Conn!CloseTo(s) # "Active"
      BY Zenon, <1>1 DEF ConnStates
    <2>2. Conn!OnPeerClosedTo(s) \in ConnStates \cup {"none"} /\ Conn!OnPeerClosedTo(s) # "Active"
      BY Zenon, <1>2 DEF ConnStates
    <2>3. Conn!TerminateTo(s) \in ConnStates \cup {"none"} /\ Conn!TerminateTo(s) # "Active"
      BY Zenon, <1>3 DEF ConnStates
    <2>4. Conn!TimeoutTo(s) \in ConnStates \cup {"none"} /\ Conn!TimeoutTo(s) # "Active"
      BY Zenon, <1>4 DEF ConnStates
    <2> QED BY Zenon, <2>1, <2>2, <2>3, <2>4
  <1> QED BY Zenon, <1>5, <1>6, <1>7

\* What stays when no segment moves.
LEMMA ConnNetStays ==
  ASSUME ConnIInv, UNCHANGED <<under, input>>
  PROVE  /\ under' \in [Conn!Ends -> SUBSET ConnSegments] /\ input' \in [Conn!Ends -> ConnSegments]
         /\ \A e \in Conn!Ends : /\ under'[e] \subseteq under[e] /\ under'[e] = under[e]
                                 /\ input'[e] = input[e] /\ input'[e] \in under[e] \cup {input[e]}
         /\ \A e \in Conn!Ends : state[e] \in ConnStates
         /\ early \in BOOLEAN /\ forced \in BOOLEAN
  BY Zenon DEF ConnIInv, ConnTyped

\* connection.go, Close.
LEMMA ConnCloseIInv == ASSUME ConnIInv, NEW e \in Conn!Ends, Conn!Close(e) PROVE ConnIInv'
  <1>1. /\ Conn!Decide(e, "app", Conn!CloseTo(state[e])) /\ Conn!CloseTo(state[e]) # "none"
        /\ early' = (early \/ (e = "a" /\ state[e] = "Active" /\ wpc = "done"))
        /\ UNCHANGED <<state, under, input, released, wpc, holds, rcvd, forced>>
        /\ "app" \in Conn!Actors
    BY Zenon DEF Conn!Close, Conn!Actors
  <1>2. state[e] \in ConnStates
    BY Zenon DEF ConnIInv, ConnTyped
  <1>3. PICK s \in ConnStates \cup {"none"} : s = Conn!CloseTo(state[e])
    BY Zenon, <1>2, ConnLeads
  <1>4. s # "Active" /\ s # "PeerTerminating" /\ Conn!Decide(e, "app", s)
    BY Zenon, <1>1, <1>2, <1>3, ConnLeads
  <1>5. CASE e = "a"
    <2>1. state["a"] = "Active" \/ ConnKept => s = "ReadyToClose"
      BY Zenon, <1>1, <1>2, <1>3, <1>5, ConnLeads DEF ConnKept
    <2>2. /\ early' \in BOOLEAN /\ forced' \in BOOLEAN
          /\ early' => early \/ (state["a"] = "Active" /\ wpc = "done")
      BY Zenon, <1>1, <1>5 DEF ConnIInv, ConnTyped
    <2> QED BY Zenon, <1>1, <1>4, <1>5, <2>1, <2>2, ConnNetStays, ConnEndsDiffer, ConnOwnDecides
  <1>6. CASE e = "b"
    <2>1. early' = early
      BY Zenon, <1>1, <1>6, ConnEndsDiffer DEF ConnIInv, ConnTyped
    <2> QED BY Zenon, <1>1, <1>4, <1>6, <2>1, ConnNetStays, ConnEndsDiffer, ConnPeerDecides
            DEF Conn!dataVars
  <1> QED BY Zenon, <1>5, <1>6 DEF Conn!Ends

\* connection.go, flush, after the time a state may last.
LEMMA ConnFlushTimeoutIInv ==
  ASSUME ConnIInv, NEW e \in Conn!Ends, NEW u \in Updaters, Conn!FlushTimeout(e, u) PROVE ConnIInv'
  <1>1. /\ Conn!Decide(e, u, Conn!TimeoutTo(state[e]))
        /\ forced' = (forced \/ (e = "a" /\ state[e] = "ReadyToClose"))
        /\ UNCHANGED <<state, under, input, released, wpc, holds, rcvd, early>>
        /\ u \in Conn!Actors
    BY Zenon DEF Conn!FlushTimeout, Conn!Actors
  <1>2. state[e] \in ConnStates
    BY Zenon DEF ConnIInv, ConnTyped
  <1>3. PICK s \in ConnStates \cup {"none"} : s = Conn!TimeoutTo(state[e])
    BY Zenon, <1>2, ConnLeads
  <1>4. s # "Active" /\ s # "PeerTerminating" /\ Conn!Decide(e, u, s)
    BY Zenon, <1>1, <1>2, <1>3, ConnLeads
  <1>5. CASE e = "a"
    <2>1. state["a"] = "Active" \/ ConnKept => forced' \/ s = "ReadyToClose"
      BY Zenon, <1>1, <1>2, <1>3, <1>5, ConnLeads DEF ConnKept
    <2>2. early' \in BOOLEAN /\ forced' \in BOOLEAN /\ (forced => forced')
      BY Zenon, <1>1 DEF ConnIInv, ConnTyped
    <2> QED BY Zenon, <1>1, <1>4, <1>5, <2>1, <2>2, ConnNetStays, ConnEndsDiffer, ConnOwnDecides
  <1>6. CASE e = "b"
    <2>1. forced' = forced
      BY Zenon, <1>1, <1>6, ConnEndsDiffer DEF ConnIInv, ConnTyped
    <2> QED BY Zenon, <1>1, <1>4, <1>6, <2>1, ConnNetStays, ConnEndsDiffer, ConnPeerDecides
            DEF Conn!dataVars
  <1> QED BY Zenon, <1>5, <1>6 DEF Conn!Ends

\* connection.go, flush, once the sending window is empty.
LEMMA ConnFlushDrainedIInv ==
  ASSUME ConnIInv, NEW e \in Conn!Ends, NEW u \in Updaters, Conn!FlushDrained(e, u) PROVE ConnIInv'
  <1>1. /\ Conn!Decide(e, u, "Terminating") /\ state[e] = "ReadyToClose" /\ Conn!Drained(e)
        /\ UNCHANGED <<state, under, input, released, wpc, holds, rcvd, early, forced>>
        /\ u \in Conn!Actors /\ "Terminating" \in ConnStates \cup {"none"}
    BY Zenon DEF Conn!FlushDrained, Conn!Actors, ConnStates, Conn!dataVars
  <1>2. CASE e = "a"
    <2>1. ~(state["a"] = "Active" \/ ConnKept)
      BY Zenon, <1>1, <1>2 DEF ConnKept, Conn!Drained
    <2> QED BY Zenon, <1>1, <1>2, <2>1, ConnNetStays, ConnEndsDiffer, ConnOwnDecides
  <1>3. CASE e = "b"
    BY Zenon, <1>1, <1>3, ConnNetStays, ConnEndsDiffer, ConnPeerDecides DEF Conn!dataVars
  <1> QED BY Zenon, <1>2, <1>3 DEF Conn!Ends

\* connection.go, Input: a segment arrives.
LEMMA ConnReceiveIInv == ASSUME ConnIInv, NEW e \in Conn!Ends, Conn!Receive(e) PROVE ConnIInv'
  <1>1. PICK m \in under[e], again \in BOOLEAN :
          /\ under' = [under EXCEPT ![e] = IF again THEN @ ELSE @ \ {m}]
          /\ input' = [input EXCEPT ![e] = m]
          /\ Conn!Decide(e, "input",
                         IF m.close THEN Conn!OnPeerClosedTo(state[e])
                         ELSE IF m.kind = "term" THEN Conn!TerminateTo(state[e])
                         ELSE "none")
          /\ forced' = (forced \/ (e = "a" /\ (m.close \/ m.kind = "term")))
          /\ UNCHANGED <<state, released, wpc, holds, rcvd, early>>
    BY Zenon DEF Conn!Receive
  <1>2. /\ state[e] \in ConnStates /\ under \in [Conn!Ends -> SUBSET ConnSegments]
        /\ input \in [Conn!Ends -> ConnSegments] /\ early \in BOOLEAN /\ forced \in BOOLEAN
        /\ "input" \in Conn!Actors
    BY Zenon DEF ConnIInv, ConnTyped, Conn!Actors
  <1>3. PICK s \in ConnStates \cup {"none"} :
          s = IF m.close THEN Conn!OnPeerClosedTo(state[e])
              ELSE IF m.kind = "term" THEN Conn!TerminateTo(state[e]) ELSE "none"
    BY Zenon, <1>2, ConnLeads
  <1>4. /\ s # "Active" /\ Conn!Decide(e, "input", s)
        /\ s = "PeerTerminating" => m.kind = "term"
        /\ ~m.close /\ m.kind # "term" => s = "none"
    BY Zenon, <1>1, <1>2, <1>3, ConnLeads
  <1>5. /\ under' \in [Conn!Ends -> SUBSET ConnSegments] /\ input' \in [Conn!Ends -> ConnSegments]
        /\ under'[e] \subseteq under[e] /\ input'[e] = m
        /\ \A f \in Conn!Ends : f # e => under'[f] = under[f] /\ input'[f] = input[f]
    <2>1. PICK n : n = (IF again THEN under[e] ELSE under[e] \ {m})
                   /\ under' = [under EXCEPT ![e] = n]
      BY Zenon, <1>1, <1>2
    <2>2. n \subseteq under[e] /\ n \in SUBSET ConnSegments /\ m \in ConnSegments
      BY Zenon, <1>2, <2>1
    <2> QED BY Zenon, <1>1, <1>2, <2>1, <2>2
  <1>6. CASE e = "a"
    <2>1. /\ early' \in BOOLEAN /\ forced' \in BOOLEAN /\ (forced => forced')
          /\ ~forced' => s = "none"
      BY Zenon, <1>1, <1>2, <1>4, <1>6
    <2> QED BY Zenon, <1>1, <1>2, <1>4, <1>5, <1>6, <2>1, ConnEndsDiffer, ConnOwnDecides
  <1>7. CASE e = "b"
    <2>1. forced' = forced
      BY Zenon, <1>1, <1>2, <1>7, ConnEndsDiffer
    <2>2. ConnNoTerm => s # "PeerTerminating"
      BY Zenon, <1>4, <1>7 DEF ConnNoTerm
    <2> QED BY Zenon, <1>1, <1>2, <1>4, <1>5, <1>7, <2>1, <2>2, ConnEndsDiffer, ConnPeerDecides
            DEF Conn!dataVars
  <1> QED BY Zenon, <1>6, <1>7 DEF Conn!Ends

\* SetState: "a" stores what it has decided, and clears its window when it
\* goes beyond ReadyToClose.
LEMMA ConnStoreIInv == ASSUME ConnIInv, NEW e \in Conn!Ends, NEW x \in Conn!Actors, Conn!Store(e, x) PROVE ConnIInv'
  <1>1. PICK s : /\ s = pend[e][x].to /\ s # "none"
                 /\ state' = [state EXCEPT ![e] = s]
                 /\ holds' = (holds /\ ~(e = "a" /\ s # "ReadyToClose"))
    BY Zenon DEF Conn!Store
  <1>2. /\ Conn!Decide(e, x, "none") /\ UNCHANGED <<under, input, wpc, rcvd, early, forced>>
        /\ released' = [released EXCEPT ![e] =
                            IF s = "Terminated" /\ @ < MaxReleases THEN @ + 1 ELSE @]
    <2>1. released \in [Conn!Ends -> Nat]
      BY Zenon DEF ConnIInv, ConnTyped
    <2>2. CASE s = "Terminated"
      BY Zenon, <1>1, <2>2 DEF Conn!Store
    <2>3. CASE s # "Terminated"
      <3>1. released' = released
        BY Zenon, <1>1, <2>3 DEF Conn!Store
      <3>2. released' = [released EXCEPT ![e] = released[e]]
        BY Zenon, <2>1, <3>1
      <3> QED BY Zenon, <2>3, <3>2 DEF Conn!Store
    <2> QED BY Zenon, <2>2, <2>3
  <1>3. /\ pend' \in [Conn!Ends -> [Conn!Actors -> ConnDecisions]] /\ pend'[e][x].to = "none"
        /\ \A f \in Conn!Ends, y \in Conn!Actors : f # e \/ y # x => pend'[f][y] = pend[f][y]
    BY Zenon, <1>2, ConnDecideMoves DEF ConnIInv
  <1>4. s \in ConnStates
    <2>1. pend[e][x] \in ConnDecisions
      BY Zenon DEF ConnIInv, ConnTyped
    <2>2. pend[e][x].to \in ConnStates \cup {"none"}
      BY Zenon, <2>1 DEF ConnDecisions
    <2> QED BY Zenon, <1>1, <2>2
  <1>5. /\ state' \in [Conn!Ends -> ConnStates] /\ state'[e] = s
        /\ \A f \in Conn!Ends : f # e => state'[f] = state[f] /\ released'[f] = released[f]
        /\ released' \in [Conn!Ends -> Nat]
    <2>1. state \in [Conn!Ends -> ConnStates] /\ released \in [Conn!Ends -> Nat]
      BY Zenon DEF ConnIInv, ConnTyped
    <2>2. released' \in [Conn!Ends -> Nat]
      BY <1>2, <2>1
    <2> QED BY Zenon, <1>1, <1>2, <1>4, <2>1, <2>2
  <1>6. ConnTyped'
    BY Zenon, <1>1, <1>2, <1>3, <1>5 DEF ConnIInv, ConnTyped
  <1>7. ConnNoReturn' /\ (ConnPatient => ConnPatient') /\ ConnAckedIsIn'
    BY Zenon, <1>2, <1>3, ConnEndsDiffer DEF ConnIInv, ConnNoReturn, ConnPatient, ConnAckedIsIn
  <1>8. ConnNoTerm => ConnNoTerm'
    <2>1. ConnNoTerm => \A y \in Conn!Actors : pend'["b"][y].to # "PeerTerminating"
      BY Zenon, <1>3, ConnEndsDiffer DEF ConnNoTerm
    <2>2. ConnNoTerm => state'["b"] # "PeerTerminating"
      BY Zenon, <1>1, <1>5, ConnEndsDiffer DEF ConnNoTerm
    <2> QED BY Zenon, <1>2, <2>1, <2>2 DEF ConnNoTerm
  <1>9. CASE e = "a"
    <2>1. s # "Active"
      BY Zenon, <1>1, <1>9 DEF ConnIInv, ConnNoReturn
    <2>2. ConnFresh'
      BY Zenon, <1>5, <1>9, <2>1 DEF ConnFresh
    <2>3. ConnKept => ConnKept'
      <3>1. ConnKept => s = "ReadyToClose"
        BY Zenon, <1>1, <1>9 DEF ConnKept, ConnPatient
      <3> QED BY Zenon, <1>1, <1>5, <1>7, <1>8, <1>9, <3>1 DEF ConnKept
    <2>4. ConnSafe'
      BY Zenon, <1>2, <1>5, <1>9, <2>1, <2>3 DEF ConnIInv, ConnSafe
    <2> QED BY Zenon, <1>2, <1>6, <1>7, <2>2, <2>4 DEF ConnIInv
  <1>10. CASE e = "b"
    <2>1. state'["a"] = state["a"] /\ released'["a"] = released["a"] /\ holds' = holds
      BY Zenon, <1>1, <1>5, <1>10, ConnEndsDiffer DEF ConnIInv, ConnTyped
    <2>2. ConnFresh' /\ ConnSafe'
      BY Zenon, <1>2, <1>7, <1>8, <2>1 DEF ConnIInv, ConnFresh, ConnSafe, ConnKept
    <2> QED BY Zenon, <1>2, <1>6, <1>7, <2>2 DEF ConnIInv
  <1> QED BY Zenon, <1>9, <1>10 DEF Conn!Ends

\* A segment is written: a terminate command only by a terminating end.
LEMMA ConnFlushWriteIInv ==
  ASSUME ConnIInv, NEW e \in Conn!Ends, NEW u \in Updaters, Conn!FlushWrite(e, u) PROVE ConnIInv'
  <1>1. /\ UNCHANGED <<state, pend, input, released, wpc, holds, rcvd, early, forced>>
        /\ \E k \in {"ping", "data", "term"} :
                 Conn!Write(e, k) /\ (k = "term" => state[e] = "Terminating")
    BY Zenon DEF Conn!FlushWrite, Conn!dataVars
  <1>2. PICK k \in {"ping", "data", "term"} :
             Conn!Write(e, k) /\ (k = "term" => state[e] = "Terminating")
    BY Zenon, <1>1
  <1>3. PICK m : m = Conn!Segment(e, k)
    BY Zenon
  <1>4. m \in ConnSegments /\ m.kind = k /\ (m.acked => rcvd)
    BY Zenon, <1>3 DEF Conn!Segment, ConnSegments
  <1>5. under \in [Conn!Ends -> SUBSET ConnSegments] /\ Conn!Peer(e) \in Conn!Ends
    BY Zenon DEF ConnIInv, ConnTyped, Conn!Peer, Conn!Ends
  <1>6. under' = under \/ under' = [under EXCEPT ![Conn!Peer(e)] = @ \cup {m}]
    BY Zenon, <1>2, <1>3 DEF Conn!Write
  <1>7. /\ under' \in [Conn!Ends -> SUBSET ConnSegments]
        /\ \A f \in Conn!Ends : \A n \in under'[f] : n \in under[f] \/ (f = Conn!Peer(e) /\ n = m)
    <2>1. CASE under' = under
      BY Zenon, <1>5, <2>1
    <2>2. CASE under' = [under EXCEPT ![Conn!Peer(e)] = @ \cup {m}]
      <3>1. under[Conn!Peer(e)] \cup {m} \in SUBSET ConnSegments
        BY Zenon, <1>4, <1>5
      <3> QED BY Zenon, <1>5, <2>2, <3>1
    <2> QED BY Zenon, <1>6, <2>1, <2>2
  <1>8. ConnTyped'
    BY Zenon, <1>1, <1>7 DEF ConnIInv, ConnTyped
  <1>9. ConnNoReturn' /\ ConnPatient' = ConnPatient
    BY Zenon, <1>1 DEF ConnIInv, ConnNoReturn, ConnPatient
  <1>10. ConnAckedIsIn'
    BY Zenon, <1>1, <1>4, <1>7 DEF ConnIInv, ConnAckedIsIn
  <1>11. ConnNoTerm /\ state["a"] # "Terminating" => ConnNoTerm'
    <2>1. ASSUME ConnNoTerm, state["a"] # "Terminating", NEW n \in under'["b"]
          PROVE  n.kind # "term"
      <3>1. n \in under["b"] \/ (e = "a" /\ n = m)
        BY Zenon, <1>7, <2>1, ConnEndsDiffer DEF Conn!Ends
      <3> QED BY Zenon, <1>2, <1>4, <2>1, <3>1 DEF ConnNoTerm
    <2> QED BY Zenon, <1>1, <2>1 DEF ConnNoTerm
  <1>12. ConnFresh' /\ ConnSafe'
    BY Zenon, <1>1, <1>9, <1>11 DEF ConnIInv, ConnFresh, ConnSafe, ConnKept
  <1> QED BY Zenon, <1>1, <1>8, <1>9, <1>10, <1>12 DEF ConnIInv

\* The rest of Input: the datum arrives, or the news that it did.
LEMMA ConnInputPayloadIInv == ASSUME ConnIInv, NEW e \in Conn!Ends, Conn!InputPayload(e) PROVE ConnIInv'
  <1>1. /\ UNCHANGED <<state, pend, under, released, wpc, early, forced>>
        /\ input' = [input EXCEPT ![e] = Conn!NoSegment]
        /\ rcvd' = (rcvd \/ input[e].kind = "data")
        /\ holds' = (holds /\ ~input[e].acked)
    BY Zenon DEF Conn!InputPayload
  <1>2. Conn!NoSegment \in ConnSegments /\ Conn!NoSegment.kind = "none" /\ ~Conn!NoSegment.acked
    BY Zenon DEF Conn!NoSegment, ConnSegments
  <1>3. /\ input' \in [Conn!Ends -> ConnSegments] /\ holds' \in BOOLEAN /\ rcvd' \in BOOLEAN
        /\ \A f \in Conn!Ends : input'[f] = IF f = e THEN Conn!NoSegment ELSE input[f]
    BY Zenon, <1>1, <1>2 DEF ConnIInv, ConnTyped
  <1>4. ConnTyped'
    BY Zenon, <1>1, <1>3 DEF ConnIInv, ConnTyped
  <1>5. ConnNoReturn' /\ ConnPatient' = ConnPatient
    BY Zenon, <1>1 DEF ConnIInv, ConnNoReturn, ConnPatient
  <1>6. ConnAckedIsIn'
    BY Zenon, <1>1, <1>2, <1>3 DEF ConnIInv, ConnAckedIsIn
  <1>7. ConnNoTerm => ConnNoTerm'
    BY Zenon, <1>1, <1>2, <1>3, ConnEndsDiffer DEF ConnNoTerm
  <1>8. ConnKept => rcvd' \/ ConnKept'
    BY Zenon, <1>1, <1>5, <1>7 DEF ConnIInv, ConnAckedIsIn, ConnKept
  <1>9. ConnFresh' /\ ConnSafe'
    BY Zenon, <1>1, <1>5, <1>7, <1>8 DEF ConnIInv, ConnFresh, ConnSafe
  <1> QED BY Zenon, <1>1, <1>4, <1>5, <1>6, <1>9 DEF ConnIInv

\* A segment is lost, or nothing happens.
LEMMA ConnLoseIInv ==
  ASSUME ConnIInv, UNCHANGED <<state, pend, input, released, Conn!dataVars>>,
         under' \in [Conn!Ends -> SUBSET ConnSegments], \A f \in Conn!Ends : under'[f] \subseteq under[f]
  PROVE  ConnIInv'
  <1>1. UNCHANGED <<wpc, holds, rcvd, early, forced>>
    BY Zenon DEF Conn!dataVars
  <1>2. ConnTyped'
    BY Zenon, <1>1 DEF ConnIInv, ConnTyped
  <1>3. ConnNoReturn' /\ ConnPatient' = ConnPatient
    BY Zenon DEF ConnIInv, ConnNoReturn, ConnPatient
  <1>4. ConnAckedIsIn'
    BY Zenon, <1>1 DEF ConnIInv, ConnAckedIsIn
  <1>5. ConnNoTerm => ConnNoTerm'
    BY Zenon, ConnEndsDiffer DEF ConnNoTerm
  <1>6. ConnFresh' /\ ConnSafe'
    BY Zenon, <1>1, <1>3, <1>5 DEF ConnIInv, ConnFresh, ConnSafe, ConnKept
  <1> QED BY Zenon, <1>1, <1>2, <1>3, <1>4, <1>6 DEF ConnIInv

\* The writer of "a": a datum that is pushed while "a" is Active is kept.
LEMMA ConnWriterIInv == ASSUME ConnIInv, Conn!WriteCheck \/ Conn!Push PROVE ConnIInv'
  <1>1. UNCHANGED <<state, pend, under, input, released, rcvd, early, forced>>
    BY Zenon DEF Conn!WriteCheck, Conn!Push
  <1>2. wpc' \in {"checked", "done"} /\ wpc # "done" /\ holds' \in BOOLEAN
    BY Zenon DEF Conn!WriteCheck, Conn!Push, ConnIInv, ConnTyped
  <1>3. ConnTyped'
    BY Zenon, <1>1, <1>2 DEF ConnIInv, ConnTyped
  <1>4. ConnNoReturn' /\ ConnPatient' = ConnPatient /\ ConnAckedIsIn' /\ ConnNoTerm' = ConnNoTerm
    BY Zenon, <1>1 DEF ConnIInv, ConnNoReturn, ConnPatient, ConnAckedIsIn, ConnNoTerm
  <1>5. ConnFresh' /\ ~early
    BY Zenon, <1>1, <1>2, <1>4 DEF ConnIInv, ConnFresh
  <1>6. wpc' = "done" /\ state["a"] = "Active" => holds'
    BY Zenon DEF Conn!WriteCheck, Conn!Push, ConnIInv, ConnFresh
  <1>7. ConnSafe'
    BY Zenon, <1>1, <1>4, <1>5, <1>6 DEF ConnSafe, ConnKept, ConnFresh
  <1> QED BY Zenon, <1>1, <1>3, <1>4, <1>5, <1>7 DEF ConnIInv

\* Every step keeps the invariant.
LEMMA ConnNextIInv == ASSUME ConnIInv, [Conn!Next]_Conn!vars PROVE ConnIInv'
  <1>1. under \in [Conn!Ends -> SUBSET ConnSegments]
    BY Zenon DEF ConnIInv, ConnTyped
  <1>2. CASE UNCHANGED Conn!vars
    BY Zenon, <1>1, <1>2, ConnLoseIInv DEF Conn!vars
  <1>3. CASE \E e \in Conn!Ends : Conn!Lose(e)
    <2>0. PICK e \in Conn!Ends : Conn!Lose(e)
      BY Zenon, <1>3
    <2>1. PICK m \in under[e] :
             /\ under' = [under EXCEPT ![e] = @ \ {m}]
             /\ UNCHANGED <<state, pend, input, released, Conn!dataVars>>
      BY Zenon, <2>0 DEF Conn!Lose
    <2>2. under[e] \ {m} \in SUBSET ConnSegments
      BY Zenon, <1>1
    <2>3. /\ under' \in [Conn!Ends -> SUBSET ConnSegments]
          /\ \A f \in Conn!Ends : under'[f] \subseteq under[f]
      BY Zenon, <1>1, <2>1, <2>2
    <2> QED BY Zenon, <2>1, <2>3, ConnLoseIInv
  <1> QED BY Zenon, <1>2, <1>3, ConnCloseIInv, ConnReceiveIInv, ConnInputPayloadIInv, ConnStoreIInv,
             ConnFlushTimeoutIInv, ConnFlushDrainedIInv, ConnFlushWriteIInv, ConnWriterIInv DEF Conn!Next

\* kcp/connection.go: an application that wrote and then closed has its peer
\* hear of the termination after the datum, unless it ran out of time or the
\* peer closed too; for all losses, repetitions and delays and for all
\* interleavings of the loads and stores of Connection.state.
THEOREM TerminationFollowsData == Conn!Spec => []DataBeforeTermination
  <1>1. Conn!Init => ConnIInv
    BY Zenon, ConnInitIInv
  <1>2. ConnIInv /\ [Conn!Next]_Conn!vars => ConnIInv'
    BY Zenon, ConnNextIInv
  <1>3. ConnIInv => Conn!DataBeforeTermination
    BY Zenon DEF ConnIInv, ConnSafe, ConnKept, ConnNoTerm, Conn!DataBeforeTermination
  <1> QED BY <1>1, <1>2, <1>3, PTL DEF Conn!Spec, DataBeforeTermination

=============================================================================
