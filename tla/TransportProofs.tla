-------------------------- MODULE TransportProofs ---------------------------
(***************************************************************************)
(* Proofs about the transports, for any number of requests, packets,       *)
(* calls, senders and addresses.                                           *)
(*                                                                         *)
(* UploadQueue: a packet is in the heap, in the channel or read, once, and *)
(* what was read ends at the offset of the packet that is due.             *)
(* XHTTPSession: a session's name is never None.                           *)
(* WaitReadCloser: whoever finds the body not there yet leaves Wait closed *)
(* for the other to find.                                                  *)
(* UDPDispatcher: a link that the dispatcher does not hold has ended, or   *)
(* its timer is about to end it.                                           *)
(* HappyEyeballs: what the counters of TcpRaceDial say of the dials.       *)
(***************************************************************************)
EXTENDS MCTransport, TLAPS

-----------------------------------------------------------------------------
(* UploadQueue *)

\* What the proofs assume of the constants: a script numbers some of the
\* posts and satisfies OneOrWhole; packets are not empty.
QueueParameters ==
    /\ PacketSize \in Nat \ {0}
    /\ None \notin Posts
    /\ \A s \in Scripts :
         /\ DOMAIN s.seq \subseteq Posts
         /\ s.seq \in [DOMAIN s.seq -> Nat]
         /\ s.read \in Nat
         /\ Queue!OneOrWhole(s)

QueueSent == DOMAIN Queue!SeqOf
\* A byte is known by its packet and its place in it.
QueueBytes == Nat \X Nat

QueueOver == {"ok", "refused"}

\* The part of the state that the argument is about has its types.
QueueTyped ==
    /\ script \in Scripts
    /\ chan \in Seq(QueueSent)
    /\ heap \subseteq [post : QueueSent, off : Nat]
    /\ nextSeq \in Nat
    /\ ppc \in [Posts -> {"idle", "send"} \cup QueueOver]
    /\ \A p \in Posts : ppc[p] # "idle" => p \in QueueSent
    /\ out \in Seq(QueueBytes)

\* A packet is in the channel or in the heap once, after its Push.
QueueOnce ==
    /\ \A i \in 1 .. Len(chan) : ppc[chan[i]] \in QueueOver
    /\ \A i, j \in 1 .. Len(chan) : chan[i] = chan[j] => i = j
    /\ \A x \in heap : ppc[x.post] \in QueueOver
    /\ \A x \in heap : \A i \in 1 .. Len(chan) : chan[i] # x.post
    /\ \A x, y \in heap : x.post = y.post => x = y

\* A request that hands over its body is known from its Push on.
QueueKnown == \A p \in Queue!Streams \cap QueueSent : ppc[p] # "idle" => reader # None

\* Read is at work on packets, or will be.
QueueLive == rpc \in {"first", "more", "loop"} \/ (rpc = "read" /\ reader = None)

\* x is what a Read left of the packet that is due.
QueueRest(x) ==
    /\ Queue!SeqOf[x.post] = nextSeq
    /\ x.off < Queue!Size(x.post)
    /\ Len(out) = nextSeq * PacketSize + x.off
    /\ \A y \in heap : Queue!SeqOf[y.post] = nextSeq => y = x

\* What was read ends at the packet that is due, or inside it, and then the
\* rest of it is in the heap.
QueuePosition ==
    /\ \A x \in heap : x.off > 0 => QueueRest(x)
    /\ (\A x \in heap : x.off = 0) => Len(out) = nextSeq * PacketSize

\* Read waits only while the packet that is due is missing.
QueueWaits ==
    /\ rpc = "first" => heap = {}
    /\ rpc = "more" => \A x \in heap : Queue!SeqOf[x.post] > nextSeq

QueueIInv == QueueTyped /\ QueueOnce /\ QueueKnown /\ (QueueLive => QueuePosition) /\ QueueWaits /\ Queue!InOrder

\* The initial state satisfies the invariant.
LEMMA QueueInitIInv == ASSUME QueueParameters, Queue!Init PROVE QueueIInv
  <1>1. /\ chan = <<>> /\ heap = {} /\ nextSeq = 0 /\ out = <<>>
        /\ rpc = "read" /\ script \in Scripts
        /\ ppc = [p \in Posts |-> "idle"]
    BY Zenon DEF Queue!Init
  <1>2. QueueTyped
    BY <1>1 DEF QueueTyped, QueueOver
  <1>3. QueueOnce
    BY <1>1 DEF QueueOnce
  <1>4. QueueKnown
    BY Zenon, <1>1 DEF QueueKnown, QueueParameters, QueueSent, Queue!SeqOf
  <1>5. QueuePosition /\ Queue!InOrder
    BY <1>1 DEF QueuePosition, Queue!InOrder, QueueParameters
  <1>6. QueueWaits
    BY Zenon, <1>1 DEF QueueWaits
  <1> QED BY Zenon, <1>2, <1>3, <1>4, <1>5, <1>6 DEF QueueIInv

\* What a step that leaves the packets alone preserves.
LEMMA QueueSameData ==
  ASSUME QueueIInv, UNCHANGED <<script, heap, nextSeq, out>>, QueueLive' => QueueLive
  PROVE  (QueueLive' => QueuePosition') /\ Queue!InOrder'
  BY Zenon DEF QueueIInv, QueuePosition, QueueRest, Queue!InOrder, Queue!SeqOf, Queue!Size, Queue!Streams

\* Claim sets the reader before a body is sent.
LEMMA QueueClaimIInv ==
  ASSUME QueueParameters, QueueIInv, NEW p \in Posts, Queue!Claim(p)
  PROVE  QueueIInv'
  <1>1. /\ UNCHANGED <<script, chan, heap, nextSeq, qclosed, rpc, out>>
        /\ p \in QueueSent /\ ppc[p] = "idle"
    BY Zenon DEF Queue!Claim, QueueSent
  <1>2. PICK l \in {"send", "refused"} : ppc' = [ppc EXCEPT ![p] = l]
    BY Zenon DEF Queue!Claim
  <1>3. \A q \in Posts : ppc'[q] = IF q = p THEN l ELSE ppc[q]
    BY Zenon, <1>2 DEF QueueIInv, QueueTyped
  <1>4. QueueSent' = QueueSent /\ Queue!Streams' = Queue!Streams
    BY Zenon, <1>1 DEF QueueSent, Queue!SeqOf, Queue!Streams
  <1>5. QueueSent \subseteq Posts
    BY Zenon DEF QueueParameters, QueueIInv, QueueTyped, QueueSent, Queue!SeqOf
  <1>6. QueueTyped'
    <2>1. ppc' \in [Posts -> {"idle", "send"} \cup QueueOver]
      BY Zenon, <1>2 DEF QueueIInv, QueueTyped, QueueOver
    <2> QED BY Zenon, <1>1, <1>3, <1>4, <2>1 DEF QueueIInv, QueueTyped
  <1>7. QueueOnce'
    <2>1. \A q \in Posts : ppc[q] \in QueueOver => ppc'[q] \in QueueOver
      BY Zenon, <1>1, <1>3 DEF QueueOver
    <2>2. /\ \A i \in 1 .. Len(chan) : chan[i] \in Posts
          /\ \A x \in heap : x.post \in Posts
      BY <1>5 DEF QueueIInv, QueueTyped
    <2> QED BY Zenon, <1>1, <2>1, <2>2 DEF QueueIInv, QueueOnce
  <1>8. reader # None => reader' = reader
    BY Zenon DEF Queue!Claim
  <1>9. QueueKnown'
    <2>1. p \in Queue!Streams => reader' # None
      BY Zenon, <1>8 DEF Queue!Claim, QueueParameters
    <2> QED BY Zenon, <1>3, <1>4, <1>5, <1>8, <2>1 DEF QueueIInv, QueueKnown
  <1>10. QueueLive' => QueueLive
    BY Zenon, <1>1, <1>8 DEF QueueLive
  <1>11. QueueWaits'
    BY Zenon, <1>1 DEF QueueIInv, QueueWaits, Queue!SeqOf
  <1> QED BY Zenon, <1>1, <1>6, <1>7, <1>9, <1>10, <1>11, QueueSameData DEF QueueIInv

\* Send puts a packet into the channel at most once.
LEMMA QueueSendIInv ==
  ASSUME QueueParameters, QueueIInv, NEW p \in Posts, Queue!Send(p)
  PROVE  QueueIInv'
  <1>1. /\ UNCHANGED <<script, reader, heap, nextSeq, qclosed, rpc, out>>
        /\ ppc[p] = "send" /\ p \in QueueSent
    BY Zenon DEF Queue!Send, QueueIInv, QueueTyped
  <1>2. PICK l \in QueueOver : ppc' = [ppc EXCEPT ![p] = l]
    BY Zenon DEF Queue!Send, QueueOver
  <1>3. \A q \in Posts : ppc'[q] = IF q = p THEN l ELSE ppc[q]
    BY Zenon, <1>2 DEF QueueIInv, QueueTyped
  <1>4. QueueSent' = QueueSent /\ Queue!Streams' = Queue!Streams
    BY Zenon, <1>1 DEF QueueSent, Queue!SeqOf, Queue!Streams
  <1>5. QueueSent \subseteq Posts
    BY Zenon DEF QueueParameters, QueueIInv, QueueTyped, QueueSent, Queue!SeqOf
  <1>6. chan' = chan \/ chan' = Append(chan, p)
    BY Zenon DEF Queue!Send
  <1>7. chan \in Seq(QueueSent)
    BY Zenon DEF QueueIInv, QueueTyped
  <1>8. QueueTyped'
    <2>1. ppc' \in [Posts -> {"idle", "send"} \cup QueueOver]
      BY Zenon, <1>2 DEF QueueIInv, QueueTyped
    <2>2. chan' \in Seq(QueueSent)
      BY <1>1, <1>6, <1>7
    <2> QED BY Zenon, <1>1, <1>3, <1>4, <2>1, <2>2 DEF QueueIInv, QueueTyped
  <1>9. QueueOnce'
    <2>1. \A q \in Posts : ppc[q] \in QueueOver => ppc'[q] \in QueueOver /\ q # p
      BY Zenon, <1>1, <1>3 DEF QueueOver
    <2>2. \A i \in 1 .. Len(chan) : chan[i] \in Posts /\ ppc[chan[i]] \in QueueOver
      BY <1>5, <1>7 DEF QueueIInv, QueueOnce
    <2>3. \A x \in heap : x.post \in Posts /\ ppc[x.post] \in QueueOver
      BY Zenon, <1>5 DEF QueueIInv, QueueTyped, QueueOnce
    <2>4. CASE chan' = chan
      BY Zenon, <1>1, <2>1, <2>2, <2>3, <2>4 DEF QueueIInv, QueueOnce
    <2>5. CASE chan' = Append(chan, p)
      <3>1. /\ Len(chan') = Len(chan) + 1 /\ Len(chan) \in Nat
            /\ \A i \in 1 .. Len(chan') :
                 chan'[i] = IF i = Len(chan) + 1 THEN p ELSE chan[i]
        BY <1>7, <2>5
      <3>2. \A i \in 1 .. Len(chan') : i = Len(chan) + 1 \/ i \in 1 .. Len(chan)
        BY <3>1
      <3>3. ppc'[p] \in QueueOver
        BY Zenon, <1>3
      <3>4. \A i \in 1 .. Len(chan') : ppc'[chan'[i]] \in QueueOver
        BY Zenon, <2>1, <2>2, <3>1, <3>2, <3>3
      <3>5. \A i, j \in 1 .. Len(chan') : chan'[i] = chan'[j] => i = j
        <4>1. \A i \in 1 .. Len(chan) : chan[i] # p
          BY Zenon, <2>1, <2>2
        <4>2. \A i, j \in 1 .. Len(chan) : chan[i] = chan[j] => i = j
          BY Zenon DEF QueueIInv, QueueOnce
        <4> QED BY Zenon, <3>1, <3>2, <4>1, <4>2
      <3>6. \A x \in heap : \A i \in 1 .. Len(chan') : chan'[i] # x.post
        <4>1. \A x \in heap : x.post # p
          BY Zenon, <2>1, <2>3
        <4>2. \A x \in heap : \A i \in 1 .. Len(chan) : chan[i] # x.post
          BY Zenon DEF QueueIInv, QueueOnce
        <4> QED BY Zenon, <3>1, <3>2, <4>1, <4>2
      <3> QED BY Zenon, <1>1, <2>1, <2>3, <3>4, <3>5, <3>6 DEF QueueIInv, QueueOnce
    <2> QED BY Zenon, <1>6, <2>4, <2>5
  <1>10. QueueKnown'
    BY Zenon, <1>1, <1>3, <1>4, <1>5 DEF QueueIInv, QueueKnown
  <1>11. QueueLive' => QueueLive
    BY Zenon, <1>1 DEF QueueLive
  <1>12. QueueWaits'
    BY Zenon, <1>1 DEF QueueIInv, QueueWaits, Queue!SeqOf
  <1> QED BY Zenon, <1>1, <1>8, <1>9, <1>10, <1>11, <1>12, QueueSameData DEF QueueIInv

\* ReadStart turns to packets only while there is no body to read.
LEMMA QueueReadStartIInv == ASSUME QueueIInv, Queue!ReadStart PROVE QueueIInv'
  <1>1. /\ UNCHANGED <<script, reader, chan, heap, nextSeq, qclosed, ppc, out>>
        /\ rpc = "read" /\ rpc' \in {"stream", "eof", "first", "loop"}
        /\ rpc' \in {"first", "loop"} => reader = None
        /\ rpc' = "first" => heap = {}
    BY Zenon DEF Queue!ReadStart
  <1>2. QueueTyped' /\ QueueOnce' /\ QueueKnown'
    BY Zenon, <1>1 DEF QueueIInv, QueueTyped, QueueOnce, QueueKnown, QueueSent, Queue!SeqOf, Queue!Streams
  <1>3. QueueLive' => QueueLive
    BY Zenon, <1>1 DEF QueueLive
  <1>4. QueueWaits'
    BY Zenon, <1>1 DEF QueueWaits
  <1> QED BY Zenon, <1>1, <1>2, <1>3, <1>4, QueueSameData DEF QueueIInv

\* While Read waits no packet is partly read.
LEMMA QueueWaitsWhole ==
  ASSUME QueueIInv, rpc \in {"first", "more"}
  PROVE  QueueLive /\ \A x \in heap : x.off = 0
  <1>1. QueueLive
    BY Zenon DEF QueueLive
  <1>2. ASSUME NEW x \in heap, x.off > 0 PROVE FALSE
    <2>1. Queue!SeqOf[x.post] = nextSeq
      BY Zenon, <1>1, <1>2 DEF QueueIInv, QueuePosition, QueueRest
    <2>2. Queue!SeqOf[x.post] > nextSeq
      BY Zenon, <1>2 DEF QueueIInv, QueueWaits
    <2> QED BY <2>1, <2>2 DEF QueueIInv, QueueTyped
  <1>3. \A x \in heap : x.off \in Nat
    BY Zenon DEF QueueIInv, QueueTyped
  <1> QED BY <1>1, <1>2, <1>3

\* A packet leaves the channel for the heap.
LEMMA QueueReadWaitIInv == ASSUME QueueParameters, QueueIInv, Queue!ReadWait PROVE QueueIInv'
  <1>1. /\ UNCHANGED <<script, reader, nextSeq, qclosed, ppc, out>>
        /\ rpc \in {"first", "more"}
    BY Zenon DEF Queue!ReadWait
  <1>2. QueueSent' = QueueSent /\ Queue!Streams' = Queue!Streams
    BY Zenon, <1>1 DEF QueueSent, Queue!SeqOf, Queue!Streams
  <1>3. QueueKnown'
    BY Zenon, <1>1, <1>2 DEF QueueIInv, QueueKnown
  <1>4. Queue!InOrder'
    BY Zenon, <1>1 DEF QueueIInv, Queue!InOrder
  <1>5. CASE UNCHANGED <<chan, heap>> /\ rpc' = "eof"
    <2>1. QueueTyped' /\ QueueOnce'
      BY Zenon, <1>1, <1>2, <1>5 DEF QueueIInv, QueueTyped, QueueOnce
    <2>2. ~QueueLive' /\ QueueWaits'
      BY Zenon, <1>5 DEF QueueLive, QueueWaits
    <2> QED BY Zenon, <1>3, <1>4, <2>1, <2>2 DEF QueueIInv
  <1>6. CASE chan # <<>> /\ chan' = Tail(chan)
    <2>1. /\ chan \in Seq(QueueSent) /\ heap \subseteq [post : QueueSent, off : Nat]
      BY Zenon DEF QueueIInv, QueueTyped
    <2>2. /\ chan' \in Seq(QueueSent) /\ Len(chan') + 1 = Len(chan) /\ Len(chan') \in Nat
          /\ \A i \in 1 .. Len(chan') :
               i + 1 \in 1 .. Len(chan) /\ chan'[i] = chan[i + 1]
          /\ Head(chan) = chan[1] /\ 1 \in 1 .. Len(chan) /\ Head(chan) \in QueueSent
      BY <1>6, <2>1
    <2>3. /\ \A i \in 1 .. Len(chan') : ppc'[chan'[i]] \in QueueOver
          /\ \A x \in heap : \A i \in 1 .. Len(chan') : chan'[i] # x.post
      <3>1. /\ \A i \in 1 .. Len(chan) : ppc[chan[i]] \in QueueOver
            /\ \A x \in heap : \A i \in 1 .. Len(chan) : chan[i] # x.post
        BY Zenon DEF QueueIInv, QueueOnce
      <3> QED BY Zenon, <1>1, <2>2, <3>1
    <2>4. \A i, j \in 1 .. Len(chan') : chan'[i] = chan'[j] => i = j
      <3>1. \A i, j \in 1 .. Len(chan) : chan[i] = chan[j] => i = j
        BY Zenon DEF QueueIInv, QueueOnce
      <3> QED BY <2>2, <3>1
    <2>5. \A i \in 1 .. Len(chan') : chan'[i] # Head(chan)
      <3>1. \A i, j \in 1 .. Len(chan) : chan[i] = chan[j] => i = j
        BY Zenon DEF QueueIInv, QueueOnce
      <3> QED BY <2>2, <3>1
    <2>6. CASE rpc' = "stream" /\ heap' = heap
      <3>1. QueueTyped' /\ QueueOnce'
        BY Zenon, <1>1, <1>2, <2>2, <2>3, <2>4, <2>6 DEF QueueIInv, QueueTyped, QueueOnce
      <3>2. ~QueueLive' /\ QueueWaits'
        BY Zenon, <2>6 DEF QueueLive, QueueWaits
      <3> QED BY Zenon, <1>3, <1>4, <3>1, <3>2 DEF QueueIInv
    <2>7. CASE rpc' = "loop" /\ heap' = heap \cup {[post |-> Head(chan), off |-> 0]}
      <3> DEFINE z == [post |-> Head(chan), off |-> 0]
      <3>1. z \in [post : QueueSent, off : Nat] /\ z.post = Head(chan) /\ z.off = 0
        BY Zenon, <2>2
      <3> HIDE DEF z
      <3>2. heap' = heap \cup {z}
        BY Zenon, <2>7 DEF z
      <3>3. QueueTyped'
        <4>1. heap' \subseteq [post : QueueSent, off : Nat]
          BY Zenon, <2>1, <3>1, <3>2
        <4> QED BY Zenon, <1>1, <1>2, <2>2, <4>1 DEF QueueIInv, QueueTyped
      <3>4. QueueOnce'
        <4>0. /\ \A i \in 1 .. Len(chan) : ppc[chan[i]] \in QueueOver
              /\ \A x \in heap : ppc[x.post] \in QueueOver
              /\ \A x \in heap : \A i \in 1 .. Len(chan) : chan[i] # x.post
          BY Zenon DEF QueueIInv, QueueOnce
        <4>1. ppc'[z.post] \in QueueOver
          BY Zenon, <1>1, <2>2, <3>1, <4>0
        <4>2. \A x \in heap : ppc'[x.post] \in QueueOver /\ x.post # z.post
          BY Zenon, <1>1, <2>2, <3>1, <4>0
        <4>3. \A x, y \in heap : x.post = y.post => x = y
          BY Zenon DEF QueueIInv, QueueOnce
        <4> QED BY Zenon, <2>3, <2>4, <2>5, <3>1, <3>2, <4>1, <4>2, <4>3 DEF QueueOnce
      <3>5. QueuePosition'
        <4>1. QueueLive /\ \A x \in heap : x.off = 0
          BY Zenon, <1>1, QueueWaitsWhole
        <4>2. Len(out) = nextSeq * PacketSize
          BY Zenon, <4>1 DEF QueueIInv, QueuePosition
        <4>3. \A x \in heap' : ~(x.off > 0)
          BY <3>1, <3>2, <4>1
        <4> QED BY Zenon, <1>1, <4>2, <4>3 DEF QueuePosition
      <3>6. QueueWaits'
        BY Zenon, <2>7 DEF QueueWaits
      <3> QED BY Zenon, <1>3, <1>4, <3>3, <3>4, <3>5, <3>6 DEF QueueIInv
    <2> QED BY Zenon, <1>6, <2>6, <2>7, <1>1, <1>5 DEF Queue!ReadWait
  <1> QED BY Zenon, <1>5, <1>6 DEF Queue!ReadWait

\* n bytes of packet q from offset f on.
QueueBlock(q, f, n) == [i \in 1 .. n |-> <<q, f + i>>]

\* The place of a byte in what was read is its packet and its offset.
LEMMA QueueDivMod ==
  ASSUME PacketSize \in Nat \ {0}, NEW q \in Nat, NEW r \in 0 .. PacketSize - 1
  PROVE  (q * PacketSize + r) \div PacketSize = q
         /\ (q * PacketSize + r) % PacketSize = r
  OBVIOUS

\* The elements of two sequences joined.
LEMMA QueueJoined ==
  ASSUME NEW S
  PROVE  \A s, t \in Seq(S) :
           /\ s \o t \in Seq(S) /\ Len(s \o t) = Len(s) + Len(t) /\ Len(s) \in Nat
           /\ \A i \in 1 .. Len(s) : (s \o t)[i] = s[i]
           /\ \A i \in 1 .. Len(t) : (s \o t)[Len(s) + i] = t[i]
  <1> TAKE s, t \in Seq(S)
  <1>1. s \o t \in Seq(S) /\ Len(s \o t) = Len(s) + Len(t) /\ Len(s) \in Nat
    OBVIOUS
  <1>2. \A i \in 1 .. Len(s) : (s \o t)[i] = s[i]
    OBVIOUS
  <1>3. \A i \in 1 .. Len(t) : (s \o t)[Len(s) + i] = t[i]
    OBVIOUS
  <1> QED BY Zenon, <1>1, <1>2, <1>3

\* What was read, after a Read.
LEMMA QueueGrown ==
  ASSUME out \in Seq(QueueBytes), NEW b \in Seq(QueueBytes), out' = out \o b
  PROVE  /\ out' \in Seq(QueueBytes) /\ Len(out') = Len(out) + Len(b) /\ Len(out) \in Nat
         /\ \A i \in 1 .. Len(out) : out'[i] = out[i]
         /\ \A i \in 1 .. Len(b) : out'[Len(out) + i] = b[i]
  BY QueueJoined

\* A place after the first l of l + n is one of the n that follow.
LEMMA QueuePlace ==
  ASSUME NEW l \in Nat, NEW n \in Nat, NEW i \in 1 .. l + n, i \notin 1 .. l
  PROVE  \E k \in 1 .. n : i = l + k
  <1>1. i - l \in 1 .. n /\ i = l + (i - l)
    OBVIOUS
  <1> QED BY Zenon, <1>1

\* Bytes that follow on the position keep what was read in order.
LEMMA QueueAppendInOrder ==
  ASSUME PacketSize \in Nat \ {0}, Queue!InOrder, out \in Seq(QueueBytes),
         NEW q \in Nat, NEW f \in Nat, NEW n \in Nat, f + n <= PacketSize,
         Len(out) = q * PacketSize + f,
         out' = out \o QueueBlock(q, f, n)
  PROVE  /\ Queue!InOrder' /\ out' \in Seq(QueueBytes)
         /\ Len(out') = q * PacketSize + f + n
  <1> DEFINE b == QueueBlock(q, f, n)
  <1>1. b \in Seq(QueueBytes) /\ Len(b) = n /\ \A i \in 1 .. n : b[i] = <<q, f + i>>
    BY DEF QueueBytes, QueueBlock
  <1>2. out' = out \o b
    OBVIOUS
  <1> HIDE DEF b
  <1>3. /\ out' \in Seq(QueueBytes) /\ Len(out') = Len(out) + n
        /\ Len(out) \in Nat
        /\ \A i \in 1 .. Len(out) : out'[i] = out[i]
        /\ \A i \in 1 .. n : out'[Len(out) + i] = b[i]
    BY Zenon, <1>1, <1>2, QueueGrown
  <1>4. q * PacketSize \in Nat
    OBVIOUS
  <1>5. ASSUME NEW i \in 1 .. Len(out')
        PROVE  out'[i] = <<(i - 1) \div PacketSize, ((i - 1) % PacketSize) + 1>>
    <2>1. CASE i \in 1 .. Len(out)
      BY Zenon, <1>3, <2>1 DEF Queue!InOrder
    <2>2. CASE i \notin 1 .. Len(out)
      <3>1. PICK k \in 1 .. n : i = Len(out) + k
        <4>1. i \in 1 .. Len(out) + n
          BY Zenon, <1>3
        <4> QED BY Zenon, <1>3, <2>2, <4>1, QueuePlace
      <3>2. out'[i] = <<q, f + k>>
        BY Zenon, <1>1, <1>3, <3>1
      <3>3. f + k - 1 \in 0 .. PacketSize - 1
        OBVIOUS
      <3>4. i - 1 = q * PacketSize + (f + k - 1)
        BY <1>4, <3>1
      <3>5. (i - 1) \div PacketSize = q /\ (i - 1) % PacketSize = f + k - 1
        BY <3>3, <3>4, QueueDivMod
      <3>6. (f + k - 1) + 1 = f + k
        OBVIOUS
      <3> QED BY Zenon, <3>2, <3>5, <3>6
    <2> QED BY Zenon, <2>1, <2>2
  <1>6. Queue!InOrder'
    BY Zenon, <1>5 DEF Queue!InOrder
  <1> QED BY Zenon, <1>3, <1>4, <1>6

\* The packet that is due says where what was read ends.
LEMMA QueueDue ==
  ASSUME QueueParameters, QueueIInv, QueueLive, NEW x \in heap, Queue!SeqOf[x.post] = nextSeq
  PROVE  /\ Len(out) = nextSeq * PacketSize + x.off
         /\ x.off \in Nat /\ nextSeq \in Nat
         /\ x.off <= Queue!Size(x.post) /\ Queue!Size(x.post) \in {0, PacketSize}
         /\ \A y \in heap \ {x} : y.off = 0
  <1>1. /\ \A y \in heap : y.off > 0 => QueueRest(y)
        /\ (\A y \in heap : y.off = 0) => Len(out) = nextSeq * PacketSize
        /\ \A y \in heap : y.off \in Nat
        /\ nextSeq \in Nat
    BY Zenon DEF QueueIInv, QueuePosition, QueueTyped
  <1>2. PacketSize \in Nat /\ Queue!Size(x.post) \in {0, PacketSize}
    BY Zenon DEF QueueParameters, Queue!Size
  <1>3. \A y \in heap \ {x} : ~(y.off > 0)
    BY Zenon, <1>1 DEF QueueRest
  <1>4. \A y \in heap \ {x} : y.off = 0
    BY <1>1, <1>3
  <1>5. CASE x.off > 0
    <2>1. Len(out) = nextSeq * PacketSize + x.off /\ x.off < Queue!Size(x.post)
      BY Zenon, <1>1, <1>5 DEF QueueRest
    <2> QED BY <1>1, <1>2, <1>4, <2>1
  <1>6. CASE x.off = 0
    <2>1. Len(out) = nextSeq * PacketSize
      BY Zenon, <1>1, <1>4, <1>6
    <2> QED BY <1>1, <1>2, <1>4, <1>6, <2>1
  <1>7. x.off > 0 \/ x.off = 0
    BY <1>1
  <1> QED BY Zenon, <1>5, <1>6, <1>7

\* The heap loses a packet, or keeps another entry for it.
LEMMA QueueHeapTypedOnce ==
  ASSUME QueueIInv, NEW x \in heap, UNCHANGED <<script, chan, ppc>>,
         nextSeq' \in Nat, out' \in Seq(QueueBytes),
         \/ heap' = heap \ {x}
         \/ \E z \in [post : {x.post}, off : Nat] : heap' = (heap \ {x}) \cup {z}
  PROVE  QueueTyped' /\ QueueOnce'
  <1>1. /\ QueueSent' = QueueSent /\ x.post \in QueueSent
        /\ heap \subseteq [post : QueueSent, off : Nat]
    BY Zenon DEF QueueSent, Queue!SeqOf, QueueIInv, QueueTyped
  <1>2. /\ \A y \in heap : ppc[y.post] \in QueueOver
        /\ \A y \in heap : \A i \in 1 .. Len(chan) : chan[i] # y.post
        /\ \A y, z \in heap : y.post = z.post => y = z
        /\ \A i \in 1 .. Len(chan) : ppc[chan[i]] \in QueueOver
        /\ \A i, j \in 1 .. Len(chan) : chan[i] = chan[j] => i = j
    BY Zenon DEF QueueIInv, QueueOnce
  <1>3. CASE heap' = heap \ {x}
    <2>1. QueueTyped'
      BY Zenon, <1>1, <1>3 DEF QueueIInv, QueueTyped
    <2>2. QueueOnce'
      BY Zenon, <1>2, <1>3 DEF QueueOnce
    <2> QED BY Zenon, <2>1, <2>2
  <1>4. CASE \E z \in [post : {x.post}, off : Nat] : heap' = (heap \ {x}) \cup {z}
    <2>1. PICK z \in [post : {x.post}, off : Nat] : heap' = (heap \ {x}) \cup {z}
      BY Zenon, <1>4
    <2>2. z.post = x.post /\ z \in [post : QueueSent, off : Nat]
      BY Zenon, <1>1, <2>1
    <2>3. heap' \subseteq [post : QueueSent, off : Nat]
      BY Zenon, <1>1, <2>1, <2>2
    <2>4. QueueTyped'
      BY Zenon, <1>1, <2>3 DEF QueueIInv, QueueTyped
    <2>5. \A y \in heap' : y = z \/ (y \in heap /\ y # x)
      BY Zenon, <2>1
    <2>6. QueueOnce'
      <3>1. \A y \in heap' : ppc'[y.post] \in QueueOver
        BY Zenon, <1>2, <2>2, <2>5
      <3>2. \A y \in heap' : \A i \in 1 .. Len(chan') : chan'[i] # y.post
        BY Zenon, <1>2, <2>2, <2>5
      <3>3. \A y, w \in heap' : y.post = w.post => y = w
        BY Zenon, <1>2, <2>2, <2>5
      <3> QED BY Zenon, <1>2, <3>1, <3>2, <3>3 DEF QueueOnce
    <2> QED BY Zenon, <2>4, <2>6
  <1> QED BY Zenon, <1>3, <1>4

\* What EXCEPT does to the entry of a packet.
LEMMA QueueLaterOff ==
  ASSUME NEW P, NEW x \in [post : P, off : Nat], NEW n \in Nat,
         NEW z, z = [x EXCEPT !.off = @ + n]
  PROVE  z \in [post : {x.post}, off : Nat] /\ z.post = x.post /\ z.off = x.off + n
  OBVIOUS

\* Read delivers what follows on what was read, and keeps the rest.
LEMMA QueueDeliverIInv ==
  ASSUME QueueParameters, QueueIInv, NEW x \in heap, rpc = "loop", Queue!SeqOf[x.post] = nextSeq,
         Queue!Deliver(x), UNCHANGED <<script, reader, chan, qclosed, ppc>>
  PROVE  QueueIInv'
  <1>1. QueueLive
    BY Zenon DEF QueueLive
  <1>2. /\ Len(out) = nextSeq * PacketSize + x.off
        /\ x.off \in Nat /\ nextSeq \in Nat
        /\ x.off <= Queue!Size(x.post) /\ Queue!Size(x.post) \in {0, PacketSize}
        /\ \A y \in heap \ {x} : y.off = 0
    BY Zenon, <1>1, QueueDue
  <1>3. PacketSize \in Nat \ {0} /\ Queue!ReadSize \in Nat /\ Queue!OneOrWhole(script)
    BY Zenon DEF QueueParameters, QueueIInv, QueueTyped, Queue!ReadSize
  <1>4. PICK left, n, z :
          /\ left = Queue!Size(x.post) - x.off
          /\ n = IF Queue!ReadSize < left THEN Queue!ReadSize ELSE left
          /\ z = [x EXCEPT !.off = @ + n]
    BY Zenon
  <1>5. /\ out' = out \o [i \in 1 .. n |-> <<nextSeq, x.off + i>>]
        /\ n < left => heap' = (heap \ {x}) \cup {z} /\ nextSeq' = nextSeq
        /\ ~(n < left) => heap' = heap \ {x} /\ nextSeq' = nextSeq + 1
        /\ rpc' = "read"
    BY Zenon, <1>4 DEF Queue!Deliver
  <1>6. /\ left \in Nat /\ n \in Nat /\ x.off + left = Queue!Size(x.post)
        /\ n <= left /\ x.off + n <= PacketSize
        /\ n < left => n = Queue!ReadSize
        /\ ~(n < left) => n = left
    <2>1. /\ x.off \in Nat /\ Queue!ReadSize \in Nat
          /\ Queue!Size(x.post) \in Nat /\ Queue!Size(x.post) <= PacketSize
          /\ x.off <= Queue!Size(x.post)
      <3>1. PacketSize \in Nat /\ 0 \in Nat /\ 0 <= PacketSize /\ PacketSize <= PacketSize
        BY <1>3
      <3> QED BY Zenon, <1>2, <1>3, <3>1
    <2>2. PacketSize \in Nat
      BY Zenon, <1>3
    <2>3. PICK f \in Nat, t \in Nat, r \in Nat :
            f = x.off /\ t = Queue!Size(x.post) /\ r = Queue!ReadSize
      BY Zenon, <2>1
    <2>4. f <= t /\ t <= PacketSize /\ left = t - f /\ n = IF r < left THEN r ELSE left
      BY Zenon, <1>4, <2>1, <2>3
    <2>5. /\ left \in Nat /\ n \in Nat /\ f + left = t
          /\ n <= left /\ f + n <= PacketSize
          /\ n < left => n = r
          /\ ~(n < left) => n = left
      BY <2>2, <2>4
    <2> QED BY Zenon, <2>3, <2>5
  <1>7. /\ x \in [post : QueueSent, off : Nat]
        /\ z \in [post : {x.post}, off : Nat] /\ z.post = x.post /\ z.off = x.off + n
    <2>1. x \in [post : QueueSent, off : Nat]
      BY Zenon DEF QueueIInv, QueueTyped
    <2> QED BY Zenon, <1>4, <1>6, <2>1, QueueLaterOff
  <1>8. Queue!InOrder' /\ out' \in Seq(QueueBytes) /\ Len(out') = nextSeq * PacketSize + x.off + n
    <2>1. PICK q : q = nextSeq
      BY Zenon
    <2>2. /\ q \in Nat /\ Len(out) = q * PacketSize + x.off
          /\ out' = out \o QueueBlock(q, x.off, n)
      BY Zenon, <1>2, <1>5, <2>1 DEF QueueBlock
    <2>3. Queue!InOrder /\ out \in Seq(QueueBytes) /\ x.off \in Nat
      BY Zenon, <1>2 DEF QueueIInv, QueueTyped
    <2>4. PacketSize \in Nat \ {0} /\ n \in Nat /\ x.off + n <= PacketSize
      BY Zenon, <1>6 DEF QueueParameters
    <2>5. PICK f \in Nat : f = x.off
      BY Zenon, <2>3
    <2>6. Queue!InOrder' /\ out' \in Seq(QueueBytes) /\ Len(out') = q * PacketSize + f + n
      <3>1. f + n <= PacketSize /\ Len(out) = q * PacketSize + f /\ out' = out \o QueueBlock(q, f, n)
        BY Zenon, <2>2, <2>4, <2>5
      <3> HIDE DEF Queue!InOrder
      <3> QED BY Zenon, <2>2, <2>3, <2>4, <3>1, QueueAppendInOrder
    <2> QED BY Zenon, <2>1, <2>5, <2>6
  <1>9. nextSeq' \in Nat
    BY <1>2, <1>5
  <1>10. QueueTyped' /\ QueueOnce'
    BY Zenon, <1>5, <1>7, <1>8, <1>9, QueueHeapTypedOnce
  <1>11. QueueKnown' /\ QueueWaits'
    BY Zenon, <1>5 DEF QueueIInv, QueueKnown, QueueWaits, QueueSent, Queue!SeqOf, Queue!Streams
  <1>12. ASSUME QueueLive' PROVE QueuePosition'
    <2>1. reader = None
      BY Zenon, <1>5, <1>12 DEF QueueLive
    <2>2. x.post \in Posts /\ x.post \in QueueSent /\ ppc[x.post] # "idle"
      BY Zenon, <1>7 DEF QueueIInv, QueueTyped, QueueOnce, QueueOver, QueueParameters, QueueSent, Queue!SeqOf
    <2>3. x.post \notin Queue!Streams
      BY Zenon, <2>1, <2>2 DEF QueueIInv, QueueKnown
    <2>4. Queue!Size(x.post) = PacketSize
      BY Zenon, <2>3 DEF Queue!Size
    <2>5. CASE n < left
      <3>1. Queue!ReadSize < PacketSize
        BY <1>2, <1>3, <1>6, <2>4, <2>5
      <3>2. \A p, q \in QueueSent : Queue!SeqOf[p] = Queue!SeqOf[q] => p = q
        <4>1. ~(Queue!ReadSize >= PacketSize)
          BY <1>3, <3>1
        <4> QED BY Zenon, <1>3, <4>1 DEF Queue!OneOrWhole, QueueSent, Queue!SeqOf, Queue!ReadSize
      <3>3. /\ \A y \in heap : y.post \in QueueSent
            /\ \A y \in heap : y.post = x.post => y = x
        BY Zenon DEF QueueIInv, QueueTyped, QueueOnce
      <3>4. /\ heap' = (heap \ {x}) \cup {z} /\ nextSeq' = nextSeq
            /\ Queue!SeqOf' = Queue!SeqOf /\ \A p : Queue!Size(p)' = Queue!Size(p)
        BY Zenon, <1>5, <2>5 DEF Queue!SeqOf, Queue!Size, Queue!Streams
      <3>5. QueueRest(z)'
        <4>1. Queue!SeqOf'[z.post] = nextSeq'
          BY Zenon, <1>7, <3>4
        <4>2. z.off < PacketSize /\ Len(out') = nextSeq * PacketSize + z.off
          BY <1>2, <1>3, <1>6, <1>7, <1>8, <2>4, <2>5
        <4>3. \A y \in heap' : Queue!SeqOf'[y.post] = nextSeq' => y = z
          BY Zenon, <1>7, <2>2, <3>2, <3>3, <3>4
        <4>4. Queue!Size(z.post)' = PacketSize
          BY Zenon, <1>7, <2>3 DEF Queue!Size, Queue!Streams
        <4> QED BY Zenon, <3>4, <4>1, <4>2, <4>3, <4>4 DEF QueueRest
      <3>6. \A y \in heap' : y = z \/ ~(y.off > 0)
        BY <1>2, <3>4
      <3>7. z \in heap' /\ (z.off = 0 => Len(out') = nextSeq' * PacketSize)
        BY <1>2, <1>3, <1>6, <1>7, <1>8, <3>4
      <3> QED BY Zenon, <3>5, <3>6, <3>7 DEF QueuePosition
    <2>6. CASE ~(n < left)
      <3>1. heap' = heap \ {x} /\ nextSeq' = nextSeq + 1 /\ n = left
        BY Zenon, <1>6, <1>5, <2>6
      <3>2. Len(out') = nextSeq * PacketSize + PacketSize
        <4>1. x.off + n = PacketSize
          BY Zenon, <1>6, <2>4, <3>1
        <4>2. PICK k : k = nextSeq * PacketSize
          BY Zenon
        <4>3. k \in Nat /\ x.off \in Nat /\ n \in Nat /\ PacketSize \in Nat
          BY <1>2, <1>3, <1>6, <4>2
        <4>4. k + x.off + n = k + PacketSize
          BY <4>1, <4>3
        <4> QED BY Zenon, <1>8, <4>2, <4>4
      <3>3. Len(out') = nextSeq' * PacketSize
        BY <1>2, <1>3, <3>1, <3>2
      <3>4. \A y \in heap' : ~(y.off > 0)
        BY <1>2, <3>1
      <3> QED BY Zenon, <3>3, <3>4 DEF QueuePosition
    <2> QED BY Zenon, <2>5, <2>6
  <1> QED BY Zenon, <1>8, <1>10, <1>11, <1>12 DEF QueueIInv

\* The loop of Read: nothing to do, deliver, wait or give up, drop.
LEMMA QueueReadLoopIInv == ASSUME QueueParameters, QueueIInv, Queue!ReadLoop PROVE QueueIInv'
  <1>1. rpc = "loop" /\ UNCHANGED <<script, reader, chan, qclosed, ppc>>
    BY Zenon DEF Queue!ReadLoop
  <1>2. QueueLive
    BY Zenon, <1>1 DEF QueueLive
  <1>3. QueueKnown' /\ QueueSent' = QueueSent /\ Queue!SeqOf' = Queue!SeqOf /\ Queue!Streams' = Queue!Streams
    BY Zenon, <1>1 DEF QueueIInv, QueueKnown, QueueSent, Queue!SeqOf, Queue!Streams
  <1>4. CASE rpc' \in {"read", "error", "more"} /\ UNCHANGED <<heap, nextSeq, out>>
             /\ (rpc' = "more" => \A x \in heap : Queue!SeqOf[x.post] > nextSeq)
    <2>1. QueueTyped' /\ QueueOnce' /\ QueueWaits'
      BY Zenon, <1>1, <1>3, <1>4 DEF QueueIInv, QueueTyped, QueueOnce, QueueWaits
    <2> QED BY Zenon, <1>1, <1>2, <1>3, <1>4, <2>1, QueueSameData DEF QueueIInv
  <1>5. CASE \E x \in heap : Queue!SeqOf[x.post] = nextSeq /\ Queue!Deliver(x)
    BY Zenon, <1>1, <1>5, QueueDeliverIInv
  <1>6. CASE \E x \in heap :
                /\ heap' = heap \ {x} /\ nextSeq' = nextSeq /\ out' = out
                /\ rpc' = "error" \/ (rpc' = "loop" /\ Queue!SeqOf[x.post] < nextSeq)
    <2>1. PICK x \in heap :
                /\ heap' = heap \ {x} /\ nextSeq' = nextSeq /\ out' = out
                /\ rpc' = "error" \/ (rpc' = "loop" /\ Queue!SeqOf[x.post] < nextSeq)
      BY Zenon, <1>6
    <2>2. nextSeq \in Nat /\ out \in Seq(QueueBytes) /\ \A y \in heap : y.off \in Nat
      BY Zenon DEF QueueIInv, QueueTyped
    <2>3. QueueTyped' /\ QueueOnce'
      BY Zenon, <1>1, <2>1, <2>2, QueueHeapTypedOnce
    <2>4. QueueWaits' /\ Queue!InOrder'
      BY Zenon, <2>1 DEF QueueIInv, QueueWaits, Queue!InOrder
    <2>5. ASSUME QueueLive' PROVE QueuePosition'
      <3>1. Queue!SeqOf[x.post] < nextSeq
        BY Zenon, <2>1, <2>5 DEF QueueLive
      <3>2. x.off = 0
        <4>1. Queue!SeqOf[x.post] # nextSeq
          BY <2>2, <3>1
        <4>2. ~(x.off > 0)
          BY Zenon, <1>2, <4>1 DEF QueueIInv, QueuePosition, QueueRest
        <4> QED BY <2>2, <4>2
      <3>3. \A y \in heap : QueueRest(y) => QueueRest(y)'
        BY Zenon, <1>3, <2>1 DEF QueueRest, Queue!Size
      <3> QED BY Zenon, <1>2, <2>1, <3>2, <3>3 DEF QueueIInv, QueuePosition
    <2> QED BY Zenon, <1>3, <2>3, <2>4, <2>5 DEF QueueIInv
  <1>7. CASE heap = {}
    BY Zenon, <1>4, <1>7 DEF Queue!ReadLoop
  <1>8. CASE heap # {}
    <2>1. PICK x \in Queue!Least :
            \/ Queue!SeqOf[x.post] = nextSeq /\ Queue!Deliver(x)
            \/ /\ Queue!SeqOf[x.post] > nextSeq
               /\ rpc' = IF Queue!TooMany(heap \ {x}) THEN "error" ELSE "more"
               /\ heap' = IF Queue!TooMany(heap \ {x}) THEN heap \ {x} ELSE heap
               /\ UNCHANGED <<nextSeq, out>>
            \/ /\ Queue!SeqOf[x.post] < nextSeq
               /\ heap' = heap \ {x}
               /\ UNCHANGED <<rpc, nextSeq, out>>
      BY Zenon, <1>8 DEF Queue!ReadLoop
    <2>2. x \in heap /\ \A y \in heap : Queue!SeqOf[x.post] <= Queue!SeqOf[y.post]
      BY Zenon DEF Queue!Least
    <2>3. CASE Queue!SeqOf[x.post] > nextSeq
      <3>1. \A y \in heap : Queue!SeqOf[y.post] \in Nat
        BY Zenon DEF QueueIInv, QueueTyped, QueueParameters, QueueSent, Queue!SeqOf
      <3>2. \A y \in heap : Queue!SeqOf[y.post] > nextSeq
        BY <2>2, <2>3, <3>1 DEF QueueIInv, QueueTyped
      <3>3. Queue!SeqOf[x.post] # nextSeq /\ ~(Queue!SeqOf[x.post] < nextSeq)
        BY <2>2, <2>3, <3>1 DEF QueueIInv, QueueTyped
      <3> QED BY Zenon, <1>4, <1>6, <2>1, <2>2, <3>2, <3>3
    <2>4. CASE ~(Queue!SeqOf[x.post] > nextSeq)
      BY Zenon, <1>1, <1>5, <1>6, <2>1, <2>2, <2>4
    <2> QED BY Zenon, <2>3, <2>4
  <1> QED BY Zenon, <1>7, <1>8

\* Every step keeps the invariant.
LEMMA QueueNextIInv == ASSUME QueueParameters, QueueIInv, [Queue!Next]_Queue!vars PROVE QueueIInv'
  <1>1. CASE UNCHANGED Queue!vars
    <2>1. /\ UNCHANGED <<script, reader, chan, heap, nextSeq, ppc, rpc, out>>
      BY Zenon, <1>1 DEF Queue!vars
    <2>2. QueueTyped' /\ QueueOnce' /\ QueueKnown' /\ QueueWaits' /\ QueueLive' = QueueLive
      BY Zenon, <2>1 DEF QueueIInv, QueueTyped, QueueOnce, QueueKnown, QueueWaits, QueueLive, QueueSent, Queue!SeqOf, Queue!Streams
    <2> QED BY Zenon, <2>1, <2>2, QueueSameData DEF QueueIInv
  <1>2. CASE Queue!Close
    <2>1. /\ UNCHANGED <<script, reader, chan, heap, nextSeq, ppc, rpc, out>>
      BY Zenon, <1>2 DEF Queue!Close
    <2>2. QueueTyped' /\ QueueOnce' /\ QueueKnown' /\ QueueWaits' /\ QueueLive' = QueueLive
      BY Zenon, <2>1 DEF QueueIInv, QueueTyped, QueueOnce, QueueKnown, QueueWaits, QueueLive, QueueSent, Queue!SeqOf, Queue!Streams
    <2> QED BY Zenon, <2>1, <2>2, QueueSameData DEF QueueIInv
  <1> QED BY Zenon, <1>1, <1>2, QueueClaimIInv, QueueSendIInv, QueueReadStartIInv, QueueReadWaitIInv,
             QueueReadLoopIInv DEF Queue!Next

\* upload_queue.go: what the session reads is the bytes of the packets in the
\* order of their numbers, each once and without a gap, for every number of
\* requests, packet size, buffer length and capacity of the channel.
THEOREM ReadsInOrder == ASSUME QueueParameters PROVE Queue!Spec => []InOrder
  <1>1. Queue!Init => QueueIInv
    BY Zenon, QueueInitIInv
  <1>2. QueueIInv /\ [Queue!Next]_Queue!vars => QueueIInv'
    BY Zenon, QueueNextIInv
  <1>3. QueueIInv => Queue!InOrder
    BY Zenon DEF QueueIInv
  <1> QED BY <1>1, <1>2, <1>3, PTL DEF Queue!Spec, InOrder

-----------------------------------------------------------------------------
(* XHTTPSession *)

\* NoSplitSession is inductive once a session is the name of a request, so
\* never None: a Delete takes the one session there is, and Create adds one
\* only when none is there.
SessionIInv == made \subseteq Session!Requests /\ Session!NoSplitSession

\* sessions.Delete leaves no session behind.
LEMMA SessionDeleteIInv ==
  ASSUME None \notin Session!Requests, SessionIInv, Session!Delete, made' = made
  PROVE  SessionIInv'
  BY Zenon DEF Session!Delete, SessionIInv, Session!NoSplitSession

\* Every step of a request or of a reaper preserves the invariant.
LEMMA SessionNextIInv ==
  ASSUME None \notin Session!Requests, SessionIInv, [Session!Next]_Session!vars
  PROVE  SessionIInv'
  <1>1. ASSUME NEW r \in Session!Requests, Session!Create(r) PROVE SessionIInv'
    <2>1. CASE mapped # None
      BY Zenon, <1>1, <2>1 DEF Session!Create, SessionIInv, Session!NoSplitSession
    <2>2. CASE mapped = None
      <3>1. made' = made \cup {r} /\ mapped' = r /\ deleted' = deleted
        BY Zenon, <1>1, <2>2 DEF Session!Create
      <3> QED BY Zenon, <2>2, <3>1 DEF SessionIInv, Session!NoSplitSession
    <2> QED BY Zenon, <2>1, <2>2
  <1>2. ASSUME NEW r \in Session!Requests,
               Session!Lookup(r) \/ Session!PostPush(r) \/ Session!GetConnect(r) \/ Session!GetEnd(r) \/ Session!Drain(r)
        PROVE  SessionIInv'
    <2>1. UNCHANGED <<made, deleted, mapped>>
      BY Zenon, <1>2 DEF Session!Lookup, Session!PostPush, Session!GetConnect, Session!GetEnd, Session!Drain
    <2> QED BY Zenon, <2>1 DEF SessionIInv, Session!NoSplitSession
  <1>3. ASSUME NEW r \in Session!Requests, Session!GetReturn(r) PROVE SessionIInv'
    BY Zenon, <1>3, SessionDeleteIInv DEF Session!GetReturn
  <1>4. ASSUME NEW s \in Session!Sessions, Session!Expire(s) \/ Session!ReapClose(s) \/ Session!ReapCancel(s)
        PROVE  SessionIInv'
    <2>1. UNCHANGED <<made, deleted, mapped>>
      BY Zenon, <1>4 DEF Session!Expire, Session!ReapClose, Session!ReapCancel
    <2> QED BY Zenon, <2>1 DEF SessionIInv, Session!NoSplitSession
  <1>5. ASSUME NEW s \in Session!Sessions, Session!ReapDelete(s) PROVE SessionIInv'
    BY Zenon, <1>5, SessionDeleteIInv DEF Session!ReapDelete
  <1>6. CASE UNCHANGED Session!vars
    BY Zenon, <1>6 DEF Session!vars, SessionIInv, Session!NoSplitSession
  <1> QED
    BY Zenon, <1>1, <1>2, <1>3, <1>4, <1>5, <1>6
       DEF Session!Next, Session!Upsert, Session!Get, Session!Reaper

\* However many GETs and POSTs of one id race through upsertSession, the
\* reapers and the deferred Deletes, which take no lock, they never leave two
\* sessions that both think they are in the map.
THEOREM SessionsNotSplit ==
  ASSUME None \notin Session!Requests
  PROVE  Session!Spec => []NoSplitSession
  <1>1. Session!Init => SessionIInv
    BY Zenon DEF Session!Init, SessionIInv, Session!NoSplitSession
  <1>2. SessionIInv /\ [Session!Next]_Session!vars => SessionIInv'
    BY Zenon, SessionNextIInv
  <1>3. SessionIInv => Session!NoSplitSession
    BY Zenon DEF SessionIInv
  <1> QED BY <1>1, <1>2, <1>3, PTL DEF Session!Spec, NoSplitSession

-----------------------------------------------------------------------------
(* WaitReadCloser *)

\* What BodyIsClosed needs to be inductive: there is a body exactly while
\* there is a reader, the goroutine ends with Wait closed, and Close with the
\* body closed or, if it found none, with Wait closed, so that Signal panics.
BodyIInv ==
    /\ set \in BOOLEAN /\ wait \in BOOLEAN
    /\ cpc \in [Closers -> {"idle", "signal", "done"}]
    /\ ~set => body = "none"
    /\ spc = "request" => ~set
    /\ spc = "signal" => set
    /\ spc = "done" => wait
    /\ \A c \in Closers : cpc[c] = "done" => wait \/ body = "closed"
    /\ Body!BodyIsClosed

\* The initial state satisfies the invariant.
LEMMA BodyInitIInv == ASSUME Body!Init PROVE BodyIInv
  <1>1. \A c \in Closers : cpc[c] = "idle"
    BY Zenon DEF Body!Init
  <1> QED BY Zenon, <1>1 DEF Body!Init, BodyIInv, Body!BodyIsClosed

\* A step of the goroutine preserves it.
LEMMA BodyOpenerIInv == ASSUME BodyIInv, Body!Opener PROVE BodyIInv'
  <1>1. cpc' = cpc
    BY Zenon DEF Body!Opener, Body!Set, Body!Signal, Body!Fail
  <1>2. CASE Body!Set
    BY Zenon, <1>1, <1>2 DEF Body!Set, BodyIInv, Body!BodyIsClosed
  <1>3. CASE Body!Signal
    BY Zenon, <1>1, <1>3 DEF Body!Signal, BodyIInv, Body!BodyIsClosed
  <1>4. CASE Body!Fail
    BY Zenon, <1>1, <1>4 DEF Body!Fail, BodyIInv, Body!BodyIsClosed
  <1> QED BY Zenon, <1>2, <1>3, <1>4 DEF Body!Opener

\* A step of Close preserves it.
LEMMA BodyCloseIInv ==
  ASSUME BodyIInv, NEW c \in Closers, Body!CloseLook(c) \/ Body!CloseSignal(c)
  PROVE  BodyIInv'
  <1>1. UNCHANGED <<set, spc>>
    BY Zenon DEF Body!CloseLook, Body!CloseSignal
  <1>2. PICK l \in {"done", "signal"} : cpc' = [cpc EXCEPT ![c] = l]
    BY Zenon DEF Body!CloseLook, Body!CloseSignal
  <1>3. \A d \in Closers : cpc'[d] = IF d = c THEN l ELSE cpc[d]
    BY Zenon, <1>2 DEF BodyIInv
  <1>4. cpc' \in [Closers -> {"idle", "signal", "done"}]
    BY Zenon, <1>2 DEF BodyIInv
  <1>5. wait' \in BOOLEAN /\ (wait => wait')
    BY Zenon DEF Body!CloseLook, Body!CloseSignal, BodyIInv
  <1>6. body' = body \/ (body' = "closed" /\ set)
    BY Zenon DEF Body!CloseLook, Body!CloseSignal
  <1>7. l = "done" => wait' \/ body' = "closed"
    <2>1. cpc'[c] = l
      BY Zenon, <1>3
    <2> QED BY Zenon, <2>1 DEF Body!CloseLook, Body!CloseSignal, BodyIInv
  <1>8. l = "done" /\ spc = "done" => body' # "open"
    <2>1. cpc'[c] = l
      BY Zenon, <1>3
    <2> QED BY Zenon, <2>1 DEF Body!CloseLook, Body!CloseSignal, BodyIInv
  <1> QED BY Zenon, <1>1, <1>3, <1>4, <1>5, <1>6, <1>7, <1>8 DEF BodyIInv, Body!BodyIsClosed

\* Every step does.
LEMMA BodyNextIInv == ASSUME BodyIInv, [Body!Next]_Body!vars PROVE BodyIInv'
  <1>1. ASSUME NEW r \in Readers, Body!ReadStart(r) \/ Body!ReadWake(r) PROVE BodyIInv'
    <2>1. UNCHANGED <<set, wait, body, spc, cpc>>
      BY Zenon, <1>1 DEF Body!ReadStart, Body!ReadWake
    <2> QED BY Zenon, <2>1 DEF BodyIInv, Body!BodyIsClosed
  <1>2. CASE UNCHANGED Body!vars
    BY Zenon, <1>2 DEF Body!vars, BodyIInv, Body!BodyIsClosed
  <1> QED BY Zenon, <1>1, <1>2, BodyOpenerIInv, BodyCloseIInv DEF Body!Next

\* Close and the goroutine of OpenStream never both return with the body of
\* the response left open, for any number of calls of Close and Read.
THEOREM BodyClosed == Body!Spec => []BodyIsClosed
  <1>1. Body!Init => BodyIInv
    BY Zenon, BodyInitIInv
  <1>2. BodyIInv /\ [Body!Next]_Body!vars => BodyIInv'
    BY Zenon, BodyNextIInv
  <1>3. BodyIInv => Body!BodyIsClosed
    BY Zenon DEF BodyIInv
  <1> QED BY <1>1, <1>2, <1>3, PTL DEF Body!Spec, BodyIsClosed

-----------------------------------------------------------------------------
(* UDPDispatcher *)

\* The part of the state that the argument is about has its types.
DispatcherTyped ==
    /\ umade \in 0..MaxEntries /\ uconn \in 0..umade
    /\ removed \in BOOLEAN
    /\ utimer \in [Dispatcher!Entries -> {"armed", "finishing", "finished"}]
    /\ uclosed \subseteq Dispatcher!Entries
    /\ terminated \in [Dispatcher!Entries -> Nat]
    /\ input \in [Dispatcher!Entries -> {"none", "loop", "read", "close", "end"}]
    /\ upc \in [Senders -> {"new", "write", "end"}]
    /\ entry \in [Senders -> 0..umade]

\* The once of the timer: terminate has run, and closed is set, exactly when
\* the timer has finished.
DispatcherOnce(e) ==
    IF utimer[e] = "finished" THEN e \in uclosed /\ terminated[e] = 1
    ELSE e \notin uclosed /\ terminated[e] = 0

\* Nothing has happened to an entry that is not made yet.
DispatcherFresh(e) == e > umade => utimer[e] = "armed" /\ input[e] = "none"

\* A link that the dispatcher does not hold has ended, or is about to.
DispatcherHeld(e) ==
    e <= umade /\ e # uconn => e \in uclosed \/ (removed /\ utimer[e] # "armed")

DispatcherIInv ==
    /\ DispatcherTyped
    /\ \A e \in Dispatcher!Entries : DispatcherOnce(e) /\ DispatcherFresh(e) /\ DispatcherHeld(e)
    /\ \A p \in Senders : upc[p] = "write" => entry[p] # 0

\* The initial state satisfies the invariant.
LEMMA DispatcherInitIInv == ASSUME MaxEntries \in Nat, Dispatcher!Init PROVE DispatcherIInv
  <1>1. DispatcherTyped
    <2>1. removed \in BOOLEAN
      BY Zenon DEF Dispatcher!Init
    <2>2. umade \in 0..MaxEntries /\ uconn \in 0..umade
      BY DEF Dispatcher!Init
    <2>3. terminated \in [Dispatcher!Entries -> Nat] /\ entry \in [Senders -> 0..umade]
      BY DEF Dispatcher!Init
    <2>4. /\ utimer \in [Dispatcher!Entries -> {"armed", "finishing", "finished"}]
          /\ uclosed \subseteq Dispatcher!Entries
          /\ input \in [Dispatcher!Entries -> {"none", "loop", "read", "close", "end"}]
          /\ upc \in [Senders -> {"new", "write", "end"}]
      BY Zenon DEF Dispatcher!Init
    <2> QED BY Zenon, <2>1, <2>2, <2>3, <2>4 DEF DispatcherTyped
  <1>2. ASSUME NEW e \in Dispatcher!Entries PROVE DispatcherOnce(e) /\ DispatcherFresh(e) /\ DispatcherHeld(e)
    BY <1>2 DEF Dispatcher!Init, DispatcherOnce, DispatcherFresh, DispatcherHeld, Dispatcher!Entries
  <1> QED BY Zenon, <1>1, <1>2 DEF Dispatcher!Init, DispatcherIInv

\* CloseEntry, by whomever it is called, ends an entry at most once and leaves
\* it with its timer consumed.
LEMMA DispatcherCloseEntryOnce ==
  ASSUME DispatcherTyped, \A e \in Dispatcher!Entries : DispatcherOnce(e),
         NEW c \in Dispatcher!Entries, Dispatcher!CloseEntry(c)
  PROVE  /\ utimer' \in [Dispatcher!Entries -> {"armed", "finishing", "finished"}]
         /\ uclosed' \subseteq Dispatcher!Entries
         /\ terminated' \in [Dispatcher!Entries -> Nat]
         /\ uclosed \subseteq uclosed'
         /\ \A e \in Dispatcher!Entries : DispatcherOnce(e)'
         /\ \A e \in Dispatcher!Entries : e # c => utimer'[e] = utimer[e]
         /\ utimer'[c] # "armed"
         /\ \A e \in Dispatcher!Entries : utimer[e] # "armed" => utimer'[e] # "armed"
  <1>1. CASE utimer[c] = "armed"
    BY <1>1 DEF Dispatcher!CloseEntry, Dispatcher!terminate, DispatcherTyped, DispatcherOnce
  <1>2. CASE utimer[c] # "armed"
    BY Zenon, <1>2 DEF Dispatcher!CloseEntry, Dispatcher!evars, DispatcherTyped, DispatcherOnce
  <1> QED BY Zenon, <1>1, <1>2

\* Every step preserves the invariant.
LEMMA DispatcherNextIInv ==
  ASSUME MaxEntries \in Nat, DispatcherIInv, [Dispatcher!Next]_Dispatcher!vars
  PROVE  DispatcherIInv'
  <1> USE DEF Dispatcher!Entries
  <1>0. DispatcherTyped /\ \A e \in Dispatcher!Entries : DispatcherOnce(e) /\ DispatcherFresh(e) /\ DispatcherHeld(e)
    BY Zenon DEF DispatcherIInv
  <1>1. CASE Dispatcher!RemoveRay
    <2>1. CASE uconn = 0
      <3>1. /\ UNCHANGED <<umade, utimer, uclosed, terminated, input, upc, entry>>
            /\ uconn' = 0 /\ removed' = TRUE
        BY Zenon, <1>1, <2>1 DEF Dispatcher!RemoveRay, Dispatcher!evars
      <3> QED BY Zenon, <2>1, <3>1 DEF DispatcherIInv, DispatcherTyped, DispatcherOnce, DispatcherFresh, DispatcherHeld
    <2>2. CASE uconn # 0
      <3>1. uconn \in Dispatcher!Entries /\ Dispatcher!CloseEntry(uconn)
        BY <1>0, <1>1, <2>2 DEF Dispatcher!RemoveRay, DispatcherTyped
      <3>2. /\ utimer' \in [Dispatcher!Entries -> {"armed", "finishing", "finished"}]
            /\ uclosed' \subseteq Dispatcher!Entries
            /\ terminated' \in [Dispatcher!Entries -> Nat]
            /\ uclosed \subseteq uclosed'
            /\ \A e \in Dispatcher!Entries : DispatcherOnce(e)'
            /\ \A e \in Dispatcher!Entries : e # uconn => utimer'[e] = utimer[e]
            /\ utimer'[uconn] # "armed"
        BY Zenon, <1>0, <3>1, DispatcherCloseEntryOnce
      <3> QED
        BY <1>1, <2>2, <3>1, <3>2 DEF Dispatcher!RemoveRay, DispatcherIInv, DispatcherTyped, DispatcherFresh, DispatcherHeld
    <2> QED BY Zenon, <2>1, <2>2
  <1>2. CASE Dispatcher!ReadFrom \/ Dispatcher!CloseConn
    <2>1. UNCHANGED <<umade, uconn, removed, utimer, uclosed, terminated, input,
                      upc, entry>>
      BY Zenon, <1>2 DEF Dispatcher!ReadFrom, Dispatcher!CloseConn, Dispatcher!evars
    <2> QED BY Zenon, <2>1 DEF DispatcherIInv, DispatcherTyped, DispatcherOnce, DispatcherFresh, DispatcherHeld
  <1>3. ASSUME NEW p \in Senders, Dispatcher!getInboundRay(p) PROVE DispatcherIInv'
    <2>1. CASE removed \/ (~removed /\ uconn # 0 /\ Dispatcher!Reuse(p))
      <3>1. /\ UNCHANGED <<uconn, umade, removed, utimer, uclosed, terminated, input>>
            /\ \/ upc' = [upc EXCEPT ![p] = "end"] /\ entry' = entry
               \/ /\ upc' = [upc EXCEPT ![p] = "write"] /\ uconn # 0
                  /\ entry' = [entry EXCEPT ![p] = uconn]
        BY Zenon, <1>3, <2>1 DEF Dispatcher!getInboundRay, Dispatcher!Reuse, Dispatcher!evars
      <3>2. DispatcherTyped'
        <4>1. upc' \in [Senders -> {"new", "write", "end"}]
          BY Zenon, <1>0, <3>1 DEF DispatcherTyped
        <4>2. entry' \in [Senders -> 0..umade]
          BY Zenon, <1>0, <3>1 DEF DispatcherTyped
        <4> QED BY Zenon, <1>0, <3>1, <4>1, <4>2 DEF DispatcherTyped
      <3>3. \A e \in Dispatcher!Entries : DispatcherOnce(e)' /\ DispatcherFresh(e)' /\ DispatcherHeld(e)'
        BY Zenon, <1>0, <3>1 DEF DispatcherOnce, DispatcherFresh, DispatcherHeld
      <3>4. ASSUME NEW q \in Senders, upc'[q] = "write" PROVE entry'[q] # 0
        BY Zenon, <1>0, <3>1, <3>4 DEF DispatcherIInv, DispatcherTyped
      <3> QED BY Zenon, <3>2, <3>3, <3>4 DEF DispatcherIInv
    <2>3. CASE ~removed /\ Dispatcher!Fail(p)
      <3>1. UNCHANGED <<removed, utimer, uclosed, terminated, umade, input, entry>>
        BY Zenon, <1>3, <2>3 DEF Dispatcher!getInboundRay, Dispatcher!Fail, Dispatcher!evars
      <3>2. upc' = [upc EXCEPT ![p] = "end"]
        BY Zenon, <2>3 DEF Dispatcher!Fail
      <3>3. uconn' = uconn \/ (uconn \in uclosed /\ uconn' = 0)
        BY Zenon, <2>3 DEF Dispatcher!Fail
      <3>4. DispatcherTyped'
        BY <1>0, <3>1, <3>2, <3>3 DEF DispatcherTyped
      <3>5. \A e \in Dispatcher!Entries : DispatcherOnce(e)' /\ DispatcherFresh(e)' /\ DispatcherHeld(e)'
        BY Zenon, <1>0, <3>1, <3>3 DEF DispatcherTyped, DispatcherOnce, DispatcherFresh, DispatcherHeld
      <3> QED BY Zenon, <3>1, <3>2, <3>4, <3>5 DEF DispatcherIInv, DispatcherTyped
    <2>2. CASE ~removed /\ (uconn = 0 \/ uconn \in uclosed) /\ Dispatcher!Open(p)
      BY <1>3, <2>2
         DEF Dispatcher!getInboundRay, Dispatcher!Open, Dispatcher!evars, DispatcherIInv, DispatcherTyped, DispatcherOnce, DispatcherFresh, DispatcherHeld
    <2> QED BY Zenon, <1>3, <2>1, <2>2, <2>3 DEF Dispatcher!getInboundRay
  <1>4. ASSUME NEW p \in Senders, Dispatcher!Write(p) PROVE DispatcherIInv'
    <2>1. CASE entry[p] \in uclosed \cup broken
      <3>1. entry[p] \in Dispatcher!Entries /\ Dispatcher!CloseEntry(entry[p])
        BY <1>4, <2>1 DEF Dispatcher!Write, DispatcherIInv, DispatcherTyped
      <3>2. /\ utimer' \in [Dispatcher!Entries -> {"armed", "finishing", "finished"}]
            /\ uclosed' \subseteq Dispatcher!Entries
            /\ terminated' \in [Dispatcher!Entries -> Nat]
            /\ uclosed \subseteq uclosed'
            /\ \A e \in Dispatcher!Entries : DispatcherOnce(e)'
            /\ \A e \in Dispatcher!Entries : e # entry[p] => utimer'[e] = utimer[e]
            /\ \A e \in Dispatcher!Entries : utimer[e] # "armed" => utimer'[e] # "armed"
        BY Zenon, <1>0, <3>1, DispatcherCloseEntryOnce
      <3>3. entry[p] <= umade
        BY <1>0 DEF DispatcherTyped
      <3> QED BY <1>4, <2>1, <3>2, <3>3 DEF Dispatcher!Write, DispatcherIInv, DispatcherTyped, DispatcherFresh, DispatcherHeld
    <2>2. CASE entry[p] \notin uclosed \cup broken
      <3>1. /\ UNCHANGED <<uconn, umade, removed, utimer, uclosed, terminated, input,
                           entry>>
            /\ upc' = [upc EXCEPT ![p] = "end"]
        BY Zenon, <1>4, <2>2 DEF Dispatcher!Write, Dispatcher!evars
      <3>2. DispatcherTyped' /\ \A q \in Senders : upc'[q] = "write" => entry'[q] # 0
        BY Zenon, <3>1 DEF DispatcherIInv, DispatcherTyped
      <3>3. \A e \in Dispatcher!Entries : DispatcherOnce(e)' /\ DispatcherFresh(e)' /\ DispatcherHeld(e)'
        BY Zenon, <1>0, <3>1 DEF DispatcherOnce, DispatcherFresh, DispatcherHeld
      <3> QED BY Zenon, <3>2, <3>3 DEF DispatcherIInv
    <2> QED BY Zenon, <2>1, <2>2
  <1>5. ASSUME NEW e \in Dispatcher!Entries, Dispatcher!InputLoop(e) \/ Dispatcher!InputPacket(e) \/ Dispatcher!InputEnd(e)
        PROVE  DispatcherIInv'
    <2>1. PICK l \in {"loop", "read", "close"} : input' = [input EXCEPT ![e] = l]
      BY Zenon, <1>5 DEF Dispatcher!InputLoop, Dispatcher!InputPacket, Dispatcher!InputEnd, Dispatcher!Goto
    <2>2. /\ input[e] # "none"
          /\ UNCHANGED <<uconn, removed, umade, utimer, uclosed, terminated, upc,
                         entry>>
      BY Zenon, <1>5 DEF Dispatcher!InputLoop, Dispatcher!InputPacket, Dispatcher!InputEnd, Dispatcher!evars
    <2> QED BY Zenon, <2>1, <2>2 DEF DispatcherIInv, DispatcherTyped, DispatcherOnce, DispatcherFresh, DispatcherHeld
  <1>6. ASSUME NEW c \in Dispatcher!Entries, Dispatcher!InputClose(c) PROVE DispatcherIInv'
    <2>1. Dispatcher!CloseEntry(c) /\ c <= umade
      BY <1>0, <1>6 DEF Dispatcher!InputClose, DispatcherTyped, DispatcherFresh
    <2>2. /\ utimer' \in [Dispatcher!Entries -> {"armed", "finishing", "finished"}]
          /\ uclosed' \subseteq Dispatcher!Entries
          /\ terminated' \in [Dispatcher!Entries -> Nat]
          /\ uclosed \subseteq uclosed'
          /\ \A e \in Dispatcher!Entries : DispatcherOnce(e)'
          /\ \A e \in Dispatcher!Entries : e # c => utimer'[e] = utimer[e]
          /\ \A e \in Dispatcher!Entries : utimer[e] # "armed" => utimer'[e] # "armed"
      BY Zenon, <1>0, <2>1, DispatcherCloseEntryOnce
    <2> QED BY Zenon, <1>6, <2>1, <2>2 DEF Dispatcher!InputClose, Dispatcher!Goto, DispatcherIInv, DispatcherTyped, DispatcherFresh, DispatcherHeld
  <1>7. ASSUME NEW e \in Dispatcher!Entries, Dispatcher!Idle(e) \/ Dispatcher!onTimeout(e) PROVE DispatcherIInv'
    <2>1. CASE Dispatcher!Idle(e)
      <3>1. /\ UNCHANGED <<uconn, umade, removed, uclosed, terminated, input, upc,
                           entry>>
            /\ utimer[e] = "armed" /\ e <= umade
            /\ utimer' = [utimer EXCEPT ![e] = "finishing"]
        BY Zenon, <2>1 DEF Dispatcher!Idle
      <3> QED BY <3>1 DEF DispatcherIInv, DispatcherTyped, DispatcherOnce, DispatcherFresh, DispatcherHeld
    <2>2. CASE Dispatcher!onTimeout(e)
      BY <2>2 DEF Dispatcher!onTimeout, Dispatcher!terminate, DispatcherIInv, DispatcherTyped, DispatcherOnce, DispatcherFresh, DispatcherHeld
    <2> QED BY Zenon, <1>7, <2>1, <2>2
  <1>8. ASSUME NEW e \in Dispatcher!Entries, Dispatcher!Reply(e) \/ Dispatcher!Break(e) PROVE DispatcherIInv'
    BY Zenon, <1>8 DEF Dispatcher!Reply, Dispatcher!Break, Dispatcher!evars, DispatcherIInv, DispatcherTyped, DispatcherOnce, DispatcherFresh, DispatcherHeld
  <1>9. CASE UNCHANGED Dispatcher!vars
    BY Zenon, <1>9 DEF Dispatcher!vars, Dispatcher!evars, DispatcherIInv, DispatcherTyped, DispatcherOnce, DispatcherFresh, DispatcherHeld
  <1> QED
    BY Zenon, <1>1, <1>2, <1>3, <1>4, <1>5, <1>6, <1>7, <1>8, <1>9
       DEF Dispatcher!Next, Dispatcher!Dispatch, Dispatcher!handleInput

\* terminate's panic "terminate called more than once" is never reached, and
\* no link that the dispatcher let go stays open, however many senders,
\* timeouts and ends of input race (connEntry.Close, RemoveRay, handleInput).
THEOREM DispatcherEndedOnce ==
  ASSUME MaxEntries \in Nat
  PROVE  Dispatcher!Spec => []EndedOnce
  <1>1. Dispatcher!Init => DispatcherIInv
    BY Zenon, DispatcherInitIInv
  <1>2. DispatcherIInv /\ [Dispatcher!Next]_Dispatcher!vars => DispatcherIInv'
    BY Zenon, DispatcherNextIInv
  <1>3. DispatcherIInv => Dispatcher!EndedOnce
    BY DEF DispatcherIInv, DispatcherTyped, DispatcherOnce, DispatcherHeld, Dispatcher!EndedOnce
  <1> QED BY <1>1, <1>2, <1>3, PTL DEF Dispatcher!Spec, EndedOnce

-----------------------------------------------------------------------------
(* HappyEyeballs *)

INSTANCE FiniteSetTheorems

\* activeNum counts the tries whose result is awaited.
Counted == activeNum = Cardinality(Outstanding) /\ activeNum <= maxConcurrentTry

\* An armed timer has an address to try, and room for it.
Armed == timer => nextTryIndex < N /\ activeNum < maxConcurrentTry

\* Addresses are tried in their order, and a connection belongs to a try.
Tried(i) ==
    /\ dial[i] = "none" <=> i > nextTryIndex
    /\ conn[i] # "none" => dial[i] \in {"dialed", "sent", "taken"}
    /\ dial[i] = "taken" /\ conn[i] = "open" => i = winConn
    /\ conn[i] = "closed" => cancelled \/ ctxDone

\* The race is cancelled by its winner or by the caller.
Winner ==
    /\ winConn # 0 => /\ cancelled /\ ~timer
                      /\ dial[winConn] = "taken"
                      /\ conn[winConn] = "open" \/ ctxDone
    /\ cancelled => winConn # 0 \/ ctxDone

IInv ==
    /\ TypeOK /\ Counted /\ Armed /\ Winner
    /\ \A i \in Tries : Tried(i)
    /\ NoImpossibleSituation /\ EndsClean

\* The awaited tries are finitely many.
LEMMA FiniteTries == ASSUME NEW S \in SUBSET Tries PROVE IsFiniteSet(S)
  <1>1. IsFiniteSet(Tries)
    BY FS_Interval, RaceAssumption DEF Tries
  <1> QED BY Zenon, <1>1, FS_Subset

\* Nothing is awaited when the count is 0.
LEMMA NoneActive == ASSUME Counted, activeNum = 0 PROVE Outstanding = {}
  <1>1. Outstanding \in SUBSET Tries
    BY Zenon DEF Outstanding
  <1> QED BY Zenon, <1>1, FiniteTries, FS_EmptySet DEF Counted

\* The initial state satisfies the invariant.
LEMMA InitIInv == Init => IInv
  <1> SUFFICES ASSUME Init PROVE IInv
    OBVIOUS
  <1> USE RaceAssumption
  <1>1. TypeOK
    <2>1. timer \in BOOLEAN /\ cancelled \in BOOLEAN /\ ctxDone \in BOOLEAN
      BY Zenon DEF Init
    <2> QED BY <2>1 DEF Init, TypeOK
  <1>4. Armed /\ Winner /\ NoImpossibleSituation /\ EndsClean
    BY DEF Init, Armed, Winner, NoImpossibleSituation, EndsClean
  <1>2. Counted
    <2>1. Outstanding = {}
      BY Zenon DEF Init, Outstanding
    <2> QED BY <2>1, FS_EmptySet DEF Init, Counted
  <1>3. ASSUME NEW i \in Tries PROVE Tried(i)
    BY DEF Init, Tried, Tries
  <1> QED BY Zenon, <1>1, <1>2, <1>3, <1>4 DEF IInv

\* A dialing goroutine's step changes neither the count nor the race.
LEMMA DialIInv ==
  ASSUME IInv, NEW i \in Tries, Dialed(i) \/ Report(i)
  PROVE  IInv'
  <1> USE RaceAssumption
  <1>1. TypeOK'
    BY Zenon DEF IInv, TypeOK, Dialed, Report
  <1>2. Outstanding' = Outstanding
    BY Zenon DEF IInv, TypeOK, Dialed, Report, Outstanding
  <1>3. Counted' /\ Armed' /\ NoImpossibleSituation'
    BY <1>2 DEF IInv, Counted, Armed, NoImpossibleSituation, Dialed, Report
  <1>4. ASSUME NEW k \in Tries PROVE Tried(k)'
    BY Zenon DEF IInv, TypeOK, Tried, Dialed, Report
  <1>5. Winner'
    BY DEF IInv, TypeOK, Winner, Dialed, Report, Tries
  <1>6. result = "none"
    BY Zenon DEF IInv, TypeOK, EndsClean, NoImpossibleSituation, Dialed, Report
  <1>7. EndsClean'
    BY Zenon, <1>6 DEF EndsClean, Dialed, Report
  <1> QED BY Zenon, <1>1, <1>3, <1>4, <1>5, <1>7 DEF IInv

\* A tick starts a try there is an address and room for.
LEMMA TickIInv == ASSUME IInv, Tick PROVE IInv'
  <1> USE RaceAssumption
  <1>1. /\ nextTryIndex < N /\ activeNum < maxConcurrentTry
        /\ result = "none" /\ winConn = 0
    BY Zenon DEF Tick, IInv, Armed, Winner
  <1>2. /\ nextTryIndex' = nextTryIndex + 1 /\ activeNum' = activeNum + 1
        /\ dial' = [dial EXCEPT ![nextTryIndex + 1] = "dialing"]
        /\ timer' = ~ ( \/ nextTryIndex + 1 = N
                        \/ activeNum + 1 = maxConcurrentTry)
        /\ UNCHANGED <<winConn, conn, cancelled, ctxDone, result>>
    <2>1. ~ (nextTryIndex = N \/ activeNum = maxConcurrentTry)
      BY <1>1 DEF IInv, TypeOK
    <2> QED BY Zenon, <2>1, Zenon DEF Tick
  <1>3. nextTryIndex + 1 \in Tries /\ dial[nextTryIndex + 1] = "none"
    BY <1>1 DEF IInv, TypeOK, Tried, Tries
  <1>4. Counted'
    <2>1. Outstanding' = Outstanding \cup {nextTryIndex + 1}
      BY Zenon, <1>2, <1>3 DEF Outstanding, IInv, TypeOK
    <2>2. nextTryIndex + 1 \notin Outstanding /\ Outstanding \in SUBSET Tries
      BY Zenon, <1>3 DEF Outstanding
    <2>3. Cardinality(Outstanding') = Cardinality(Outstanding) + 1
      BY Zenon, <2>1, <2>2, FiniteTries, FS_AddElement
    <2> QED BY <1>1, <1>2, <2>3 DEF Counted, IInv, TypeOK
  <1>5. activeNum' \in 0 .. N
    <2>1. Outstanding' \in SUBSET Tries
      BY Zenon DEF Outstanding
    <2>2. IsFiniteSet(Tries) /\ Cardinality(Tries) = N
      BY FS_Interval DEF Tries
    <2>3. Cardinality(Outstanding') <= N
      BY Zenon, <2>1, <2>2, FS_Subset
    <2> QED BY <1>2, <1>4, <2>3 DEF Counted, IInv, TypeOK
  <1>6. TypeOK'
    <2>1. timer' \in BOOLEAN
      BY Zenon, <1>2, Zenon
    <2> QED BY <1>1, <1>2, <1>3, <1>5, <2>1 DEF IInv, TypeOK
  <1>7. Armed'
    <2>1. timer' => nextTryIndex' # N /\ activeNum' # maxConcurrentTry
      BY Zenon, <1>2, Zenon
    <2> QED BY <1>1, <1>2, <2>1 DEF IInv, TypeOK, Armed
  <1>10. NoImpossibleSituation' /\ EndsClean'
    BY Zenon, <1>1, <1>2 DEF NoImpossibleSituation, EndsClean
  <1>8. ASSUME NEW k \in Tries PROVE Tried(k)'
    BY <1>2, <1>3 DEF IInv, TypeOK, Tried, Tries
  <1>9. Winner'
    BY Zenon, <1>1, <1>2 DEF IInv, Winner
  <1> QED BY Zenon, <1>4, <1>6, <1>7, <1>8, <1>9, <1>10 DEF IInv

\* A result that is received leaves the others awaited.
LEMMA ReceiveCounts ==
  ASSUME IInv, NEW i \in Tries, Receive(i)
  PROVE  /\ Counted' /\ activeNum' \in 0 .. N /\ activeNum' < maxConcurrentTry
         /\ activeNum' = 0 => \A k \in Tries : dial'[k] \in {"none", "taken"}
  <1> USE RaceAssumption
  <1>1. dial[i] = "sent" /\ dial' = [dial EXCEPT ![i] = "taken"]
        /\ activeNum' = activeNum - 1
    BY Zenon DEF Receive
  <1>2. Outstanding' = Outstanding \ {i} /\ i \in Outstanding
    BY Zenon, <1>1 DEF Outstanding, IInv, TypeOK
  <1>3. Outstanding \in SUBSET Tries
    BY Zenon DEF Outstanding
  <1>4. /\ IsFiniteSet(Outstanding') /\ IsFiniteSet(Outstanding)
        /\ Cardinality(Outstanding') = Cardinality(Outstanding) - 1
    BY Zenon, <1>2, <1>3, FiniteTries, FS_RemoveElement
  <1>5. Cardinality(Outstanding') \in Nat
    BY Zenon, <1>4, FS_CardinalityType
  <1>6. Counted' /\ activeNum' \in 0 .. N /\ activeNum' < maxConcurrentTry
    BY <1>1, <1>4, <1>5 DEF Counted, IInv, TypeOK
  <1>7. ASSUME activeNum' = 0, NEW k \in Tries
        PROVE  dial'[k] \in {"none", "taken"}
    <2>1. Outstanding' = {}
      BY Zenon, <1>4, <1>6, <1>7, FS_EmptySet DEF Counted
    <2>2. dial' \in [Tries -> {"none", "dialing", "dialed", "sent", "taken"}]
      BY Zenon, <1>1 DEF IInv, TypeOK
    <2> QED BY Zenon, <2>1, <2>2 DEF Outstanding
  <1> QED BY Zenon, <1>6, <1>7

\* The loop takes a result as one of three cases, and ends clean.
LEMMA ReceiveIInv == ASSUME IInv, NEW i \in Tries, Receive(i) PROVE IInv'
  <1> USE RaceAssumption
  <1>1. /\ result = "none" /\ dial[i] = "sent"
        /\ dial' = [dial EXCEPT ![i] = "taken"]
        /\ UNCHANGED <<nextTryIndex, ctxDone>>
    BY Zenon DEF Receive
  <1>2. /\ Counted' /\ activeNum' \in 0 .. N /\ activeNum' < maxConcurrentTry
        /\ activeNum' = 0 => \A k \in Tries : dial'[k] \in {"none", "taken"}
    BY Zenon, ReceiveCounts
  <1>3. winConn # i /\ i # 0
    BY <1>1 DEF IInv, Winner, Tries
  <1>4. CASE ctxDone /\ AfterDone(i)
    <2>1. TypeOK'
      BY Zenon, <1>1, <1>2, <1>4 DEF IInv, TypeOK, AfterDone, Closed
    <2>2. Armed' /\ NoImpossibleSituation'
      BY Zenon, <1>4 DEF Armed, NoImpossibleSituation, AfterDone
    <2>3. ASSUME NEW k \in Tries PROVE Tried(k)'
      BY Zenon, <1>1, <1>4 DEF IInv, TypeOK, Tried, AfterDone, Closed
    <2>4. Winner'
      BY <1>1, <1>3, <1>4 DEF IInv, TypeOK, Winner, AfterDone, Tries
    <2>5. EndsClean'
      BY Zenon, <1>1, <1>2, <1>4 DEF IInv, TypeOK, EndsClean, AfterDone, Closed, Tried
    <2> QED BY Zenon, <1>2, <2>1, <2>2, <2>3, <2>4, <2>5 DEF IInv
  <1>5. CASE ~ctxDone /\ conn[i] = "open" /\ AfterConn(i)
    <2>1. TypeOK'
      <3>1. timer' \in BOOLEAN /\ cancelled' \in BOOLEAN /\ ctxDone' \in BOOLEAN
        BY Zenon, <1>1, <1>5, Zenon DEF AfterConn, IInv, TypeOK
      <3>2. winConn' \in 0 .. N /\ result' \in {"none", "conn"}
        BY <1>5 DEF AfterConn, IInv, TypeOK, Tries
      <3>3. conn' \in [Tries -> {"none", "open", "closed"}]
        BY Zenon, <1>5 DEF AfterConn, Closed, IInv, TypeOK
      <3> QED BY Zenon, <1>1, <1>2, <3>1, <3>2, <3>3 DEF IInv, TypeOK
    <2>2. Armed' /\ NoImpossibleSituation'
      BY Zenon, <1>5 DEF Armed, NoImpossibleSituation, AfterConn
    <2>3. ASSUME NEW k \in Tries PROVE Tried(k)'
      BY <1>1, <1>3, <1>5 DEF IInv, TypeOK, Tried, AfterConn, Closed, Winner, Tries
    <2>4. Winner'
      BY <1>1, <1>3, <1>5 DEF IInv, TypeOK, Winner, AfterConn, Closed, Tries
    <2>5. EndsClean'
      <3> SUFFICES ASSUME activeNum' = 0, result' = "conn" PROVE EndsClean'
        BY Zenon, <1>5 DEF AfterConn, EndsClean
      <3>1. \A k \in Tries : dial'[k] \in {"none", "taken"}
        BY Zenon, <1>2
      <3>2. winConn' \in Tries /\ conn'[winConn'] = "open"
        BY <1>1, <1>3, <1>5, <2>1, <2>4 DEF TypeOK, Winner, AfterConn, Tries
      <3>3. \A k \in Tries : conn'[k] = "open" <=> k = winConn'
        BY Zenon, <2>1, <2>3, <3>1, <3>2 DEF Tried, TypeOK
      <3> QED BY <3>1, <3>2, <3>3 DEF EndsClean, Tries
    <2> QED BY Zenon, <1>2, <2>1, <2>2, <2>3, <2>4, <2>5 DEF IInv
  <1>6. CASE ~ctxDone /\ conn[i] # "open" /\ AfterError
    <2>1. TypeOK'
      <3>1. timer' \in BOOLEAN
        <4>1. timer \in BOOLEAN
          BY Zenon DEF IInv, TypeOK
        <4>2. timer' = timer \/ timer' = (nextTryIndex < N)
          BY Zenon, <1>6, Zenon DEF AfterError
        <4>3. (nextTryIndex < N) \in BOOLEAN
          BY SMT DEF IInv, TypeOK
        <4> QED BY Zenon, <4>1, <4>2, <4>3, Zenon
      <3> QED BY Zenon, <1>1, <1>2, <1>6, <3>1 DEF IInv, TypeOK, AfterError
    <2>2. Armed'
      BY Zenon, <1>1, <1>2, <1>6 DEF IInv, Armed, Winner, AfterError, TypeOK
    <2>3. NoImpossibleSituation'
      BY Zenon, <1>6 DEF NoImpossibleSituation, AfterError
    <2>4. ASSUME NEW k \in Tries PROVE Tried(k)'
      BY Zenon, <1>1, <1>6 DEF IInv, TypeOK, Tried, AfterError
    <2>5. Winner'
      BY <1>1, <1>3, <1>6 DEF IInv, TypeOK, Winner, AfterError, Tries
    <2>6. EndsClean'
      <3> SUFFICES ASSUME activeNum' = 0, result' \in {"conn", "err"}
                   PROVE  EndsClean'
        BY Zenon, <1>6 DEF AfterError, EndsClean
      <3>1. \A k \in Tries : dial'[k] \in {"none", "taken"}
        BY Zenon, <1>2
      <3>2. CASE result' = "conn"
        <4>1. winConn' \in Tries /\ conn'[winConn'] = "open"
          BY <1>1, <1>6, <2>1, <2>5, <3>2 DEF TypeOK, Winner, AfterError, Tries
        <4>2. \A k \in Tries : conn'[k] = "open" <=> k = winConn'
          BY Zenon, <2>1, <2>4, <3>1, <4>1 DEF Tried, TypeOK
        <4> QED BY <3>1, <3>2, <4>1, <4>2 DEF EndsClean, Tries
      <3>3. CASE result' = "err"
        <4>1. winConn' = 0 /\ nextTryIndex' = N /\ ~ctxDone' /\ ~cancelled'
          BY Zenon, <1>1, <1>6, <3>3 DEF AfterError, IInv, Winner
        <4>2. \A k \in Tries : dial'[k] = "taken"
          BY <2>4, <3>1, <4>1 DEF Tried, Tries
        <4>3. \A k \in Tries : conn'[k] = "none"
          BY <2>1, <2>4, <4>1, <4>2 DEF Tried, TypeOK, Tries
        <4> QED BY Zenon, <3>1, <3>3, <4>2, <4>3 DEF EndsClean
      <3> QED BY Zenon, <3>2, <3>3
    <2> QED BY Zenon, <1>2, <2>1, <2>2, <2>3, <2>4, <2>5, <2>6 DEF IInv
  <1> QED BY Zenon, <1>4, <1>5, <1>6 DEF Receive

\* Every step keeps the invariant.
LEMMA NextIInv == IInv /\ [Next]_vars => IInv'
  <1> SUFFICES ASSUME IInv, [Next]_vars PROVE IInv'
    OBVIOUS
  <1>1. CASE GiveUp
    <2>1. Outstanding' = Outstanding
      BY Zenon, <1>1 DEF GiveUp, Outstanding
    <2>2. ASSUME NEW k \in Tries PROVE Tried(k)'
      BY Zenon, <1>1 DEF GiveUp, IInv, Tried
    <2> QED
      BY Zenon, <1>1, <2>1, <2>2
      DEF GiveUp, IInv, TypeOK, Counted, Armed, Winner, NoImpossibleSituation,
          EndsClean
  <1>2. CASE UNCHANGED vars
    <2>1. Outstanding' = Outstanding
      BY Zenon, <1>2 DEF vars, Outstanding
    <2> QED
      BY Zenon, <1>2, <2>1 DEF vars, IInv, TypeOK, Counted, Armed, Winner, Tried,
                        NoImpossibleSituation, EndsClean
  <1> QED
    BY Zenon, <1>1, <1>2, DialIInv, TickIInv, ReceiveIInv DEF Next, Loop

\* The invariant holds in every reachable state.
LEMMA SpecIInv == Spec => []IInv
  BY InitIInv, NextIInv, PTL DEF Spec

\* TcpRaceDial does not panic.
THEOREM RaceNeverPanics == Spec => []NoImpossibleSituation
  <1>1. IInv => NoImpossibleSituation
    BY Zenon DEF IInv
  <1> QED BY <1>1, SpecIInv, PTL

\* TcpRaceDial returns with nothing left open or under way but the connection
\* it returns, and fails only when the caller gave up or every address failed.
THEOREM RaceEndsClean == Spec => []EndsClean
  <1>1. IInv => EndsClean
    BY Zenon DEF IInv
  <1> QED BY <1>1, SpecIInv, PTL

=============================================================================
