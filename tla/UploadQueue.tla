----------------------------- MODULE UploadQueue -----------------------------
(***************************************************************************)
(* transport/internet/splithttp/upload_queue.go: the POST requests of one  *)
(* XHTTP session push numbered packets, in any order and from concurrent   *)
(* handlers, into a bounded channel; the session's reader puts them back   *)
(* into order with a heap.  In stream-up mode one request hands over its   *)
(* body instead.                                                           *)
(***************************************************************************)
EXTENDS Naturals, Sequences, FiniteSets

CONSTANTS
    Posts,       \* the requests
    Scripts,     \* what they may be: records of
                 \*   seq:     the sequence number of each post that is sent,
                 \*   streams: the posts that hand over their body,
                 \*   read:    len(b) of a Read
    MaxPackets,  \* maxPackets: the capacity of the channel
    PacketSize,  \* bytes in a packet
    NoPost       \* no request

VARIABLES
    script,   \* the script of this behaviour
    reader,   \* h.reader: the post whose body is read, or NoPost
    chan,     \* h.pushedPackets
    heap,     \* h.heap: a set of [post, off]; off bytes were read before
    nextSeq,  \* h.nextSeq
    closed,   \* h.closed
    ppc,      \* per post: where Push is, and what it returned
    rpc,      \* the reader: between reads, waiting in one of the two selects,
              \* in the loop, or stopped
    out       \* the bytes read so far, as <<sequence number, offset>>

vars == <<script, reader, chan, heap, nextSeq, closed, ppc, rpc, out>>

SeqOf == script.seq
Streams == script.streams
ReadSize == script.read

\* len(Payload): a packet that hands over a body has none.
Size(p) == IF p \in Streams THEN 0 ELSE PacketSize

Init ==
    /\ script \in Scripts
    /\ reader = NoPost
    /\ chan = <<>> /\ heap = {} /\ nextSeq = 0 /\ closed = FALSE
    /\ ppc = [p \in Posts |-> "idle"]
    /\ rpc = "read"
    /\ out = <<>>

-----------------------------------------------------------------------------
(* Push *)

\* h.reader is looked at, or claimed with CompareAndSwap.
Claim(p) ==
    /\ p \in DOMAIN SeqOf /\ ppc[p] = "idle"
    /\ IF reader = NoPost
         THEN /\ reader' = IF p \in Streams THEN p ELSE NoPost
              /\ ppc' = [ppc EXCEPT ![p] = "send"]
         ELSE /\ ppc' = [ppc EXCEPT ![p] = "refused"]
              /\ UNCHANGED reader
    /\ UNCHANGED <<script, chan, heap, nextSeq, closed, rpc, out>>

\* The select of Push; when both cases are ready either may be taken.
Send(p) ==
    /\ ppc[p] = "send"
    /\ \/ /\ Len(chan) < MaxPackets
          /\ chan' = Append(chan, p)
          /\ ppc' = [ppc EXCEPT ![p] = IF closed THEN "refused" ELSE "ok"]
       \/ /\ closed
          /\ ppc' = [ppc EXCEPT ![p] = "refused"]
          /\ UNCHANGED chan
    /\ UNCHANGED <<script, reader, heap, nextSeq, closed, rpc, out>>

Close ==
    /\ ~closed
    /\ closed' = TRUE
    /\ UNCHANGED <<script, reader, chan, heap, nextSeq, ppc, rpc, out>>

-----------------------------------------------------------------------------
(* Read *)

ReadStart ==
    /\ rpc = "read"
    /\ rpc' = IF reader # NoPost THEN "stream"
              ELSE IF closed THEN "eof"
              ELSE IF heap = {} THEN "first" ELSE "loop"
    /\ UNCHANGED <<script, reader, chan, heap, nextSeq, closed, ppc, out>>

\* A select on the channel and h.closed: the one before the loop ("first")
\* looks at Packet.Reader, the one inside it ("more") does not.
ReadWait ==
    /\ rpc \in {"first", "more"}
    /\ \/ /\ chan # <<>>
          /\ chan' = Tail(chan)
          /\ IF rpc = "first" /\ Head(chan) \in Streams
               THEN rpc' = "stream" /\ UNCHANGED heap
               ELSE /\ rpc' = "loop"
                    /\ heap' = heap \cup {[post |-> Head(chan), off |-> 0]}
       \/ closed /\ rpc' = "eof" /\ UNCHANGED <<chan, heap>>
    /\ UNCHANGED <<script, reader, nextSeq, closed, ppc, out>>

\* heap.Pop: one of the packets with the least number.
Least == {x \in heap : \A y \in heap : SeqOf[x.post] <= SeqOf[y.post]}

\* Mutant: the expected number moves on although the packet is not finished.
DeliverSkips(x) ==
    LET left == Size(x.post) - x.off
        n == IF ReadSize < left THEN ReadSize ELSE left
        q == SeqOf[x.post]
    IN  /\ out' = out \o [i \in 1 .. n |-> <<q, x.off + i>>]
        /\ nextSeq' = q + 1
        /\ heap' = heap \ {x}
        /\ rpc' = "read"

\* Mutant: the rest of a packet that a Read takes in part is not put back.
DeliverDrops(x) ==
    LET left == Size(x.post) - x.off
        n == IF ReadSize < left THEN ReadSize ELSE left
        q == SeqOf[x.post]
    IN  /\ out' = out \o [i \in 1 .. n |-> <<q, x.off + i>>]
        /\ heap' = heap \ {x}
        /\ nextSeq' = IF n < left THEN nextSeq ELSE q + 1
        /\ rpc' = "read"

\* The expected packet: copy, put the rest back or move on.
Deliver(x) ==
    LET left == Size(x.post) - x.off
        n == IF ReadSize < left THEN ReadSize ELSE left
        q == SeqOf[x.post]
    IN  /\ out' = out \o [i \in 1 .. n |-> <<q, x.off + i>>]
        /\ IF n < left
             THEN /\ heap' = (heap \ {x}) \cup {[x EXCEPT !.off = @ + n]}
                  /\ UNCHANGED nextSeq
             ELSE heap' = heap \ {x} /\ nextSeq' = q + 1
        /\ rpc' = "read"

TooMany(h) == Cardinality(h) > MaxPackets

ReadLoop ==
    /\ rpc = "loop"
    /\ IF heap = {}
         THEN rpc' = "read" /\ UNCHANGED <<heap, nextSeq, out>>
         ELSE \E x \in Least :
            LET q == SeqOf[x.post] IN
            \/ q = nextSeq /\ Deliver(x)
            \/ /\ q > nextSeq
               /\ rpc' = IF TooMany(heap \ {x}) THEN "error" ELSE "more"
               /\ heap' = IF TooMany(heap \ {x}) THEN heap \ {x} ELSE heap
               /\ UNCHANGED <<nextSeq, out>>
            \/ /\ q < nextSeq
               /\ heap' = heap \ {x}
               /\ UNCHANGED <<rpc, nextSeq, out>>
    /\ UNCHANGED <<script, reader, chan, closed, ppc>>

Next ==
    \/ \E p \in Posts : Claim(p) \/ Send(p)
    \/ Close
    \/ ReadStart \/ ReadWait \/ ReadLoop

Spec == Init /\ [][Next]_vars

Reader == ReadStart \/ ReadWait \/ ReadLoop

\* The application reads until the end, and handlers run.
FairSpec ==
    Spec /\ WF_vars(Reader) /\ \A p \in Posts : WF_vars(Claim(p) \/ Send(p))

-----------------------------------------------------------------------------
(* Properties *)

\* Each number is sent once, or a Read takes whole packets.  (A heap of both
\* would not tell the rest of a packet from a packet sent again.)
OneOrWhole(s) ==
    \/ \A p, q \in DOMAIN s.seq : s.seq[p] = s.seq[q] => p = q
    \/ s.read >= PacketSize

\* The reader gets the bytes of packet 0, 1, 2, ... each once, in order and
\* without a gap, in whatever order the requests came, if OneOrWhole(script).
InOrder ==
    \A i \in 1 .. Len(out) :
        out[i] = <<(i - 1) \div PacketSize, ((i - 1) % PacketSize) + 1>>

\* The requests number the packets without a gap.
Complete ==
    LET sent == DOMAIN SeqOf IN
    {SeqOf[p] : p \in sent} = 0 .. Cardinality(sent) - 1

\* When no packet is missing, every accepted packet is read in the end,
\* unless the queue is closed or torn down as too large.  (The number of posts
\* is finite and what holds of one goes on holding.)
AcceptedIsRead ==
    <>[](\A p \in DOMAIN SeqOf \ Streams :
            (Complete /\ ppc[p] = "ok")
                => nextSeq > SeqOf[p] \/ rpc = "error" \/ closed)

=============================================================================
