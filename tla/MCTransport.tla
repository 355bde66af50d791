----------------------------- MODULE MCTransport -----------------------------
(***************************************************************************)
(* Transports side by side.  A behaviour is one of a race of dials,         *)
(* of the UDP dispatcher of one inbound, of the upload queue of an XHTTP    *)
(* session, of the sessions of one id, or of the reader of one response;    *)
(* the others stay as they began.                                           *)
(***************************************************************************)
EXTENDS HappyEyeballs, Sequences, TLC

CONSTANTS
    Posts, Scripts, MaxPackets, PacketSize,      \* of UploadQueue
    p1, p2, p3, p4, p5,                          \* its requests
    Gets, Uploads, Capacity,                     \* of XHTTPSession
    Closers, Readers,                            \* of WaitReadCloser
    MaxEntries, MaxReplies, Senders, CacheSize,  \* of UDPDispatcher
    None

VARIABLES
    part,                                                   \* which of them
    script, reader, chan, heap, nextSeq, qclosed, ppc, rpc, out,
    mapped, made, deleted, connected, reaper, closed, queued, pc, of,
    set, wait, body, spc, cpc, wpc,
    uconn, removed, umade, utimer, uclosed, terminated, broken, input, replies,
    sent, done, cache, upc, entry

qv == <<script, reader, chan, heap, nextSeq, qclosed, ppc, rpc, out>>
sv == <<mapped, made, deleted, connected, reaper, closed, queued, pc, of>>
wv == <<set, wait, body, spc, cpc, wpc>>
uv == <<uconn, removed, umade, utimer, uclosed, terminated, broken, input,
        replies, sent, done, cache, upc, entry>>

\* Scripts: every packet once and read in parts; two of them twice; the first
\* never; two bodies and packets.
MCScripts ==
    { [seq |-> p1 :> 0 @@ p2 :> 1 @@ p3 :> 2,
       streams |-> {}, read |-> 1],
      [seq |-> p1 :> 0 @@ p2 :> 1 @@ p3 :> 2 @@ p4 :> 1 @@ p5 :> 0,
       streams |-> {}, read |-> 2],
      [seq |-> p1 :> 1 @@ p2 :> 2 @@ p3 :> 3 @@ p4 :> 4 @@ p5 :> 5,
       streams |-> {}, read |-> 2],
      [seq |-> p1 :> 0 @@ p2 :> 0 @@ p3 :> 0 @@ p4 :> 1 @@ p5 :> 2,
       streams |-> {p1, p2}, read |-> 2] }

Queue == INSTANCE UploadQueue WITH NoPost <- None, closed <- qclosed

Session == INSTANCE XHTTPSession WITH Posts <- Uploads

Body == INSTANCE WaitReadCloser WITH rpc <- wpc

Dispatcher == INSTANCE UDPDispatcher WITH
    conn <- uconn, made <- umade, timer <- utimer, closed <- uclosed, pc <- upc

MCInit ==
    /\ part \in {"race", "queue", "session", "body", "udp"}
    /\ Init /\ Queue!Init /\ Session!Init /\ Body!Init /\ Dispatcher!Init
    /\ part # "queue" => script = CHOOSE s \in Scripts : TRUE

MCNext ==
    \/ part = "race" /\ Next /\ UNCHANGED <<part, qv, sv, wv, uv>>
    \/ part = "queue" /\ Queue!Next /\ UNCHANGED <<part, vars, sv, wv, uv>>
    \/ part = "session" /\ Session!Next /\ UNCHANGED <<part, vars, qv, wv, uv>>
    \/ part = "body" /\ Body!Next /\ UNCHANGED <<part, vars, qv, sv, uv>>
    \/ part = "udp" /\ Dispatcher!Next /\ UNCHANGED <<part, vars, qv, sv, wv>>

\* The fairness of the five modules, each in its own behaviours.
Fairness ==
    /\ WF_vars(part = "race" /\ Loop)
    /\ \A i \in Tries :
         /\ WF_vars(part = "race" /\ Dialed(i))
         /\ WF_vars(part = "race" /\ Report(i))
    /\ WF_qv(part = "queue" /\ Queue!Reader)
    /\ \A p \in Posts :
         WF_qv(part = "queue" /\ (Queue!Claim(p) \/ Queue!Send(p)))
    /\ \A r \in Session!Requests :
         /\ WF_sv(part = "session" /\ Session!Handler(r))
         /\ WF_sv(part = "session" /\ Session!Reaper(r))
    /\ WF_wv(part = "body" /\ Body!Opener)
    /\ \A c \in Closers : WF_wv(part = "body" /\ Body!CloseSignal(c))
    /\ \A r \in Readers : WF_wv(part = "body" /\ Body!ReadWake(r))
    /\ \A e \in Dispatcher!Entries :
         /\ WF_uv(part = "udp" /\ Dispatcher!handleInput(e))
         /\ WF_uv(part = "udp" /\ Dispatcher!Idle(e))
         /\ WF_uv(part = "udp" /\ Dispatcher!onTimeout(e))

MCSpec == MCInit /\ [][MCNext]_<<part, vars, qv, sv, wv, uv>> /\ Fairness

-----------------------------------------------------------------------------
(* The properties of the modules; those of HappyEyeballs are extended *)

\* HappyEyeballs: the race ends.
RaceEnds == part = "race" => RaceReturns

\* UploadQueue: the reader gets the bytes of packet 0, 1, 2, ... each once, in
\* order and without a gap, however the requests came.
InOrder == Queue!InOrder

\* UploadQueue: an accepted packet is read.
AcceptedIsRead == Queue!AcceptedIsRead

\* XHTTPSession: requests that start together meet in one session.
NoSplitSession == Session!NoSplitSession

\* XHTTPSession: the queue of every session is closed, and no POST hangs.
SessionsEnd == Session!SessionsEnd

\* WaitReadCloser: no body stays open after Close.
BodyIsClosed == Body!BodyIsClosed

\* UDPDispatcher: an entry is terminated once, and none is left behind.
EndedOnce == Dispatcher!EndedOnce

\* UDPDispatcher: every link is interrupted in the end.
LinksEnd == Dispatcher!LinksEnd

=============================================================================
