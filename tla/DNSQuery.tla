------------------------------ MODULE DNSQuery ------------------------------
(***************************************************************************)
(* Queries of one domain at one DNS server (app/dns/nameserver_cached.go).  *)
(* Callers that ask for the same families share one fetch: the first leads, *)
(* and its context is the one that counts.  The fetch subscribes to the     *)
(* answers of its families, sends a request for each, and waits for one     *)
(* after the other.  Over UDP a request may be lost, or answered truncated  *)
(* and sent once more; over TCP, HTTPS or QUIC a goroutine per request ends *)
(* with an answer or an error on noResponseErrCh.  An answer is published   *)
(* to whoever waits for its family, put in the cache, and followed by the   *)
(* cached record of the other family (updateRecord).                        *)
(***************************************************************************)
EXTENDS Naturals, FiniteSets

CONSTANTS
    Callers,     \* calls of queryIP, each made once
    Options,     \* the sets of families that callers ask for
    MaxExpiries  \* bound: how often the cached records expire

Families == {4, 6}
Other(f) == 10 - f

VARIABLES
    udp,         \* the server is a ClassicNameServer
    option,      \* [Callers -> sets of families]
    pc,          \* [Callers -> where the call is]
    leader,      \* [Callers -> Callers]: whose fetch the caller waits for
    flight,      \* requestGroup: [keys -> the leading caller, or none]
    sub,         \* [Callers -> [Families -> BOOLEAN]]: the open subscribers
    inbox,       \* [Callers -> [Families -> BOOLEAN]]: one holds a record
    req,         \* [Callers -> [Families -> state of the request]]
    noResponseErrCh, \* [Callers -> Nat]: how many errors it holds
    ctxDone,     \* the callers whose context is done
    rec,         \* [Callers -> sets of families]: what the fetch received
    found,       \* [Callers -> sets of families]: what the caller was given
    cached,      \* the families whose record in the cache is fresh
    expiries

cvars == <<option, pc, leader, flight, ctxDone, rec, found>>
vars == <<udp, cvars, sub, inbox, req, noResponseErrCh, cached, expiries>>

NoCaller == "none"
ErrCapacity == 2    \* make(chan error, 2)

Init ==
    /\ udp \in BOOLEAN
    /\ option \in [Callers -> Options]
    /\ pc = [p \in Callers |-> "new"]
    /\ leader = [p \in Callers |-> p]
    /\ flight = [k \in SUBSET Families |-> NoCaller]
    /\ sub = [p \in Callers |-> [f \in Families |-> FALSE]]
    /\ inbox = [p \in Callers |-> [f \in Families |-> FALSE]]
    /\ req = [p \in Callers |-> [f \in Families |-> "none"]]
    /\ noResponseErrCh = [p \in Callers |-> 0]
    /\ ctxDone = {}
    /\ rec = [p \in Callers |-> {}]
    /\ found = [p \in Callers |-> {}]
    /\ cached = {}
    /\ expiries = 0

Goto(p, l) == pc' = [pc EXCEPT ![p] = l]

-----------------------------------------------------------------------------
(* The caller *)

\* Mutant: callers share a fetch whatever families they ask for.
KeyOfDomain(o) == Families

\* The key of requestGroup: the domain is fixed, the families are appended.
Key(o) == o

\* queryIP: fresh records for every family wanted are a cache hit, else fetch
\* joins the flight of the key or leads a new one.
queryIP(p) ==
    LET k == Key(option[p]) IN
    /\ pc[p] = "new"
    /\ IF option[p] \subseteq cached
       THEN /\ Goto(p, "done")
            /\ found' = [found EXCEPT ![p] = option[p]]
            /\ UNCHANGED <<leader, flight>>
       ELSE /\ IF flight[k] = NoCaller
               THEN /\ Goto(p, "register")
                    /\ flight' = [flight EXCEPT ![k] = p]
                    /\ UNCHANGED leader
               ELSE /\ Goto(p, "join")
                    /\ leader' = [leader EXCEPT ![p] = flight[k]]
                    /\ UNCHANGED flight
            /\ UNCHANGED found
    /\ UNCHANGED <<udp, option, sub, inbox, req, noResponseErrCh, ctxDone, rec,
                   cached, expiries>>

\* doFetch subscribes before it sends.
registerSubscribers(p) ==
    /\ pc[p] = "register"
    /\ sub' = [sub EXCEPT ![p] = [f \in Families |-> f \in option[p]]]
    /\ Goto(p, "send")
    /\ UNCHANGED <<udp, option, leader, flight, inbox, req, noResponseErrCh,
                   ctxDone, rec, found, cached, expiries>>

First(o) == IF 4 \in o THEN 4 ELSE 6
Waiting(f) == IF f = 4 THEN "wait4" ELSE "wait6"

\* sendQuery: the requests are on their way.
sendQuery(p) ==
    /\ pc[p] = "send"
    /\ req' = [req EXCEPT ![p] = [f \in Families |->
                 IF f \in option[p] THEN "sent" ELSE "none"]]
    /\ Goto(p, Waiting(First(option[p])))
    /\ UNCHANGED <<udp, option, leader, flight, sub, inbox, noResponseErrCh,
                   ctxDone, rec, found, cached, expiries>>

\* After the event for family f: the other one, or the end.
AfterEvent(p, f) ==
    Goto(p, IF f = 4 /\ 6 \in option[p] THEN "wait6" ELSE "fetched")

\* onEvent receives the record, ...
onMessage(p, f) ==
    /\ pc[p] = Waiting(f) /\ inbox[p][f]
    /\ rec' = [rec EXCEPT ![p] = @ \cup {f}]
    /\ inbox' = [inbox EXCEPT ![p][f] = FALSE]
    /\ sub' = [sub EXCEPT ![p][f] = FALSE]
    /\ AfterEvent(p, f)
    /\ UNCHANGED <<udp, option, leader, flight, req, noResponseErrCh, ctxDone,
                   found, cached, expiries>>

\* ... an error, of whichever request reported it first, ...
onError(p, f) ==
    /\ pc[p] = Waiting(f) /\ noResponseErrCh[p] > 0
    /\ noResponseErrCh' = [noResponseErrCh EXCEPT ![p] = @ - 1]
    /\ AfterEvent(p, f)
    /\ UNCHANGED <<udp, option, leader, flight, sub, inbox, req, ctxDone, rec,
                   found, cached, expiries>>

\* ... or finds the context done.  The select takes any case that is ready.
onDone(p, f) ==
    /\ pc[p] = Waiting(f) /\ p \in ctxDone
    /\ AfterEvent(p, f)
    /\ UNCHANGED <<udp, option, leader, flight, sub, inbox, req,
                   noResponseErrCh, ctxDone, rec, found, cached, expiries>>

\* merge: a family without a record makes the whole query "record not found".
Merged(p) == IF option[p] \subseteq rec[p] THEN rec[p] ELSE {}

Sharing(p) == {p} \cup {q \in Callers : pc[q] = "join" /\ leader[q] = p}

\* The fetch is over: its subscribers are closed, and whoever shared it gets
\* what it found.
fetched(p) ==
    /\ pc[p] = "fetched"
    /\ sub' = [sub EXCEPT ![p] = [f \in Families |-> FALSE]]
    /\ inbox' = [inbox EXCEPT ![p] = [f \in Families |-> FALSE]]
    /\ flight' = [flight EXCEPT ![Key(option[p])] = NoCaller]
    /\ pc' = [q \in Callers |-> IF q \in Sharing(p) THEN "done" ELSE pc[q]]
    /\ found' = [q \in Callers |->
                   IF q \in Sharing(p) THEN Merged(p) ELSE found[q]]
    /\ UNCHANGED <<udp, option, leader, req, noResponseErrCh, ctxDone, rec,
                   cached, expiries>>

\* The timeout of Client.QueryIP.
Timeout(p) ==
    /\ pc[p] \notin {"new", "done"} /\ p \notin ctxDone
    /\ ctxDone' = ctxDone \cup {p}
    /\ UNCHANGED <<udp, option, pc, leader, flight, sub, inbox, req,
                   noResponseErrCh, rec, found, cached, expiries>>

-----------------------------------------------------------------------------
(* The requests *)

\* pub.Publish: every open subscriber of the family has the record.
Publish(f) ==
    inbox' = [p \in Callers |-> [inbox[p] EXCEPT ![f] = @ \/ sub[p][f]]]

\* A complete answer: updateRecord publishes it first, ...
Answer(p, f) ==
    /\ req[p][f] \in {"sent", "edns"}
    /\ Publish(f)
    /\ req' = [req EXCEPT ![p][f] = "update"]
    /\ UNCHANGED <<udp, cvars, sub, noResponseErrCh, cached, expiries>>

\* ... puts it in the cache, under the lock of the cache, ...
updateRecord(p, f) ==
    /\ req[p][f] = "update"
    /\ cached' = cached \cup {f}
    /\ req' = [req EXCEPT ![p][f] = IF Other(f) \in cached THEN "other"
                                    ELSE "ended"]
    /\ UNCHANGED <<udp, cvars, sub, inbox, noResponseErrCh, expiries>>

\* ... and publishes the record of the other family that it found there.
publishOther(p, f) ==
    /\ req[p][f] = "other"
    /\ Publish(Other(f))
    /\ req' = [req EXCEPT ![p][f] = "ended"]
    /\ UNCHANGED <<udp, cvars, sub, noResponseErrCh, cached, expiries>>

\* HandleResponse: a truncated answer is asked for again, once.
Truncated(p, f) ==
    /\ udp /\ req[p][f] = "sent"
    /\ req' = [req EXCEPT ![p][f] = "edns"]
    /\ UNCHANGED <<udp, cvars, sub, inbox, noResponseErrCh, cached, expiries>>

\* A datagram is lost: RequestsCleanup forgets the request.
Lost(p, f) ==
    /\ udp /\ req[p][f] \in {"sent", "edns"}
    /\ req' = [req EXCEPT ![p][f] = "lost"]
    /\ UNCHANGED <<udp, cvars, sub, inbox, noResponseErrCh, cached, expiries>>

\* Mutant: the channel has room for one error only.
ReportErrorOne(p, f) ==
    /\ ~udp /\ req[p][f] = "sent"
    /\ noResponseErrCh[p] < 1
    /\ noResponseErrCh' = [noResponseErrCh EXCEPT ![p] = @ + 1]
    /\ req' = [req EXCEPT ![p][f] = "failed"]
    /\ UNCHANGED <<udp, cvars, sub, inbox, cached, expiries>>

\* The goroutine of a request fails, at the deadline of the context if not
\* before, and reports it, which blocks while the channel is full.
ReportError(p, f) ==
    /\ ~udp /\ req[p][f] = "sent"
    /\ noResponseErrCh[p] < ErrCapacity
    /\ noResponseErrCh' = [noResponseErrCh EXCEPT ![p] = @ + 1]
    /\ req' = [req EXCEPT ![p][f] = "failed"]
    /\ UNCHANGED <<udp, cvars, sub, inbox, cached, expiries>>

\* Time passes for the cache.
Expire ==
    /\ expiries < MaxExpiries /\ cached # {}
    /\ cached' = {}
    /\ expiries' = expiries + 1
    /\ UNCHANGED <<udp, cvars, sub, inbox, req, noResponseErrCh>>

-----------------------------------------------------------------------------

Fetch(p) ==
    \/ registerSubscribers(p)
    \/ sendQuery(p)
    \/ \E f \in Families : onMessage(p, f) \/ onError(p, f) \/ onDone(p, f)
    \/ fetched(p)

Request(p, f) ==
    \/ Answer(p, f) \/ updateRecord(p, f) \/ publishOther(p, f)
    \/ Truncated(p, f) \/ Lost(p, f)
    \/ ReportError(p, f)

Next ==
    \/ \E p \in Callers : queryIP(p) \/ Fetch(p) \/ Timeout(p)
    \/ \E p \in Callers, f \in Families : Request(p, f)
    \/ Expire

Spec == Init /\ [][Next]_vars

\* The goroutines run and the contexts have deadlines.  Over TCP a failing
\* request that nothing can receive from stays where it is; for UDP, Lost.
FairSpec ==
    /\ Spec
    /\ \A p \in Callers : WF_vars(Fetch(p)) /\ WF_vars(Timeout(p))
    /\ \A p \in Callers, f \in Families :
         /\ WF_vars(Lost(p, f) \/ ReportError(p, f))
         /\ WF_vars(updateRecord(p, f) \/ publishOther(p, f))

-----------------------------------------------------------------------------
(* Properties *)

\* No answer is missed and none is mixed up: a caller gets the records of
\* exactly the families it asked for, or nothing; and nothing only if the
\* fetch it shared ran into its leader's timeout or had a request fail.
NoAnswerMissed ==
    \A p \in Callers : pc[p] = "done" =>
       \/ found[p] = option[p]
       \/ /\ found[p] = {}
          /\ \/ leader[p] \in ctxDone
             \/ \E f \in Families : req[leader[p]][f] = "failed"

\* Every query returns, and no request is left behind: its goroutine never
\* blocks on noResponseErrCh, even when nobody waits for the error any more.
QueriesEnd ==
    /\ <>[](\A p \in Callers : pc[p] \in {"new", "done"})
    /\ <>[](\A p \in Callers, f \in Families :
              req[p][f] \in {"none", "ended", "lost", "failed"})

=============================================================================
