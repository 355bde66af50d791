# Xray-core: a TLA+ verification project

The repository is a Python binding of Xray-core, a proxy platform written in
Go under `src/xray-go`. This directory holds TLA+ models of its concurrent
parts, TLC configurations that check them on small instances, and TLAPS proofs
of the central safety properties. Every definition that models code is mapped to its
lines in `PROJECT.json` ("map"), and that file also lists components, runs, mutants,
hazards, findings and theorems.

## The system

A connection accepted by an inbound (`app/proxyman/inbound`) is decoded by a
proxy protocol (`proxy/*`), dispatched and routed (`app/dispatcher`,
`app/router`), and leaves by an outbound (`app/proxyman/outbound`) over a transport
(`transport/internet/*`). An instance (`core`) puts these together from a
configuration. What happens between two goroutines on this way goes through a few
shared mechanisms, which are the subject of the models:

| part | source | module | interacts with |
|---|---|---|---|
| core instance | `core/xray.go` | Instance | constructors and callbacks of all features |
| outbound manager, balanced routing | `app/proxyman/outbound`, `app/router/balancing.go`, `app/dispatcher` | OutboundManager | the API that adds and removes handlers; every balanced connection |
| UDP inbound worker | `app/proxyman/inbound/worker.go` | UDPWorker | proxies, the periodic sweep |
| UDP dispatcher | `transport/internet/udp` | UDPDispatcher | UDP proxies, links of the dispatcher |
| pipe | `transport/pipe` | Pipe, ByteStream | both ends of every dispatched link; mux carriers |
| mux workers | `common/mux` | Mux | pipes on both sides, one carrier connection |
| XUDP | `common/mux` (server, session) | XUDP | mux workers that share one UDP flow; pipe errors |
| mKCP windows | `transport/internet/kcp` | KCPWindow | the UDP network |
| mKCP connection | `transport/internet/kcp` | KCPClose | updaters, application, network |
| XHTTP server | `transport/internet/splithttp` | UploadQueue, XHTTPSession | HTTP handlers, reapers |
| XHTTP client | `transport/internet/splithttp` | Xmux, WaitReadCloser | dials, uploads, HTTP client |
| Happy Eyeballs | `transport/internet/happy_eyeballs.go` | HappyEyeballs | dialing goroutines, a timer, the caller's context |
| inactivity timer | `common/signal`, `common/task` | ActivityTimer | the relay loop of every proxy |
| publish/subscribe | `common/signal/pubsub` | PubSub | DNS queries waiting for answers |
| statistics channel | `app/stats` | StatsChannel | API subscribers |
| burst observatory | `app/observatory/burst` | HealthPing | the outbounds a balancer selects from |
| DNS client and servers | `app/dns` | DNSParallel, DNSQuery | name servers, concurrent queries |
| DNS answer cache | `app/dns` | DNSCache | queries, cleanup task, migration |
| fake DNS | `app/dns/fakedns`, `common/cache` | FakeDNS | DNS queries; connections to fake addresses |

The other parts are listed in `PROJECT.json` with the reason why they have no
model, and summed up under "Not modelled" below.

## Modules

Go channels are variables with the capacity the code gives them; a step is
what a goroutine does under one lock or between two operations that another
goroutine can observe. Data is abstract: bytes of a stream are numbered in the
order of acceptance, packets are their sequence numbers, frames are records
of the fields the handlers test.

**Pipe** (`impl.go`, `pipe.go`, `reader.go`). `data`, `state`, `done` and the
two notifiers are the fields of `pipe`; `rpc`/`wpc` say where a reader is
in `ReadMultiBuffer(Timeout)` and a writer in `WriteMultiBuffer`. Internal reads and
writes are atomic (they hold the lock); the signals that follow are separate
steps. `discard` is the `discardOverflow` option, chosen by `Init`.
**ByteStream** is what the pipe promises: bytes are accepted, delivered all at once and
in order, and the stream finishes or aborts. `ImplementsStream` is the refinement.

**Mux**. Both workers of one carrier connection: `mgr` is the
`SessionManager`, `queue` the frames under way, `pump` the goroutine that copies a
session's input into frames, `mon` the monitor with its two-read idle check,
`reading` the frame loop. Identifiers are numbers modulo `IdSpace` (2^16 in the code);
the instances stay below the wrap. A blocked write of the carrier blocks
the goroutine that writes, the reader included.

**XUDP**. The map of `XUDPManager` for one global id: `entry`, `status` and the
object's session and link. `handleStatusNew` is cut into its steps (lookup,
detach, replay or dispatch, bind, add), `Session.Close` into the part before and the
part after its `ReturnAnError`/`Recover` exchange with the pipe.

**KCPWindow**. One direction of a connection: `window`,
`firstUnack`, `sendNext`, `remoteNext` of the sender; `cache`, `recvNext`, `acks` of the
receiver; `net`, a set of segments that may be delivered again, lost or
overtaken. Whether a retransmission is due is left open.

**KCPClose**. The six states of `Connection` at two ends. Every read of the
state and the store that follows it are two steps (`pend`), because the
application, `Input` and the two updaters run concurrently without a lock.

**UploadQueue**, **XHTTPSession**, **WaitReadCloser**, **Xmux**. Upload requests
as they come in any order; the sessions of one id with lookups and creation under the lock,
reapers, POSTs and GETs; the response reader that is used before the response
arrived; the pool of HTTP clients with their use counts and the upload loop
that outlives the connection. In Xmux a manager's limits (connections,
concurrency, uses of a client) are chosen by `Init`, and `handed` is a history
variable: how often `GetXmuxClient` returned a client.

**HappyEyeballs**. The loop of `TcpRaceDial` over one channel of results, the
timer and the context; `dial[i]` is the goroutine of address `i`, `conn[i]` its
connection. `activeNum` and `nextTryIndex` are the loop's counters.

**UDPDispatcher**. `conn` is the entry in place and `closed`, `terminated` and `timer`
say what has happened to each entry made; its four ends (a failed write, the end of
the input, `RemoveRay`, idleness) are actions of their own that all go
through the once of the timer.

**UDPWorker**. The table `activeConn`, the goroutine of each connection, the
receiving goroutine in `callback`, and the periodic sweep with the `running` flag of
`task.Periodic`; the first round of the sweep runs inside `Start`.

**ActivityTimer**, **PubSub**, **StatsChannel**. The timer with `t.mu`, the once
and the check tasks of `task.Periodic`, including the check that `Start` runs on
the caller's goroutine; one topic of the service with its cleanup; the channel
with its goroutine, the late senders of non-blocking mode, and the
subscribe-and-start protocol of `features/stats`.

**HealthPing**. Rounds that overlap: each takes its tags at the tick,
cancels the round before, waits for it, pings, collects and cleans up;
`handlers`, which the API changes at any time, is what the selector would find now.

**DNSQuery**. Callers of `queryIP` share a fetch per key; the fetch subscribes to both
families, sends, and waits under the leader's context. UDP requests are lost or
truncated, stream requests answer or fail. **DNSParallel**. The results of all
servers in any order against the groups that `makeGroups` forms; the
reference it is checked against is the first group with a success.
**DNSCache**. The two maps, one answer counter per domain and family, the
cleanup in its two halves and the step-wise migration to a new map.
**FakeDNS**. The LRU list as the set of keys with, per domain, those in front of
it; the search for a free address steps on from the hash of the domain, which is
any address of the pool. `given` and `since` are history variables.

**OutboundManager**. The tables of the manager, the generations of its
`tagsCache`, and per connection the steps of `Select` (load, look up, compute under the read
lock, store), of the balancer's pick and of `routedDispatch`. `valid` is a history
variable: every selection that was right at some moment of the call.

**Instance**. One goroutine, but calls nest: constructors register callbacks,
callbacks register callbacks, and `AddFeature` runs those that became
available. `stack` holds the calls in progress. The order of the apps
and which of them a configuration has is open.

## Runs

Every property has a mutant in `PROJECT.json`: a plausible slip in the mapped
code that makes the run fail. Deadlock checking is off where a finished
instance has nothing left to do; `pipe` checks it.

| run | instance | shows |
|---|---|---|
| `pipe` | 1 reader, 2 writers, limit 1, 3 bytes, both overflow modes | no lost wake-up, refinement of ByteStream; accepted bytes are delivered and writes return |
| `share` | mux: 2 flows, ids mod 4, 3 connections at most, carrier of 2 frames, 1 fault; Xmux: 2 dials, 3 clients, 2 requests each, limited by connections, by concurrency or to one use; outbounds: 2 connections, 4 handlers of 2 tags and none, 5 changes | frames never reach another flow and the maps hold exactly the open sessions; the use limit holds and no client leaks; no stale selection, no handler that was not selected, no default without its tag |
| `mux_live` | mux: 1 flow, carrier of 6, client ticker running; XUDP: 2 workers, 2 objects, links and sessions | idle close swallows nothing; ends and carrier death close the other side; one owner of a UDP flow, expiry takes idle links only, Close never blocks under its lock, links are released |
| `kcp_window` | MCKCP with `WindowSpec`: 3 segments, windows 1 and 2, 2 segments under way | no premature release, delivery and draining |
| `kcp_close` | MCKCP with `CloseSpec`: end `a` writes and closes, one updater, 1 segment under way | data precedes termination; the closing end is released |
| `transport` | queue: 5 posts in four scripts, channel of 1; sessions: 2 GETs, 2 POSTs; reader: 2 closers, 2 readers; race: 4 addresses, 2 at a time; dispatcher: 2 senders, 2 links, 2 replies | exact stream, one session per id, no hanging request, no leaked body; the race returns; a link ends, and once |
| `signal` | timer: 2 SetTimeout, one SetTimeout(0); service: 3 subscribers; channel: 3 messages, 2 listeners, three modes; observatory: 2 rounds, the one-time check, an outbound that comes and goes | silence ends in onTimeout; no missed or reordered message, all delivered; one round pings at a time, results of removed outbounds go |
| `app` | fake DNS: 4 domains, 4 addresses, list of 2, 2 callers; cache: 2 domains, 2 answers each; queries: 2 callers, UDP or stream; parallel: 4 servers, 3 policies; instance: 6 apps in all subsets and orders, 6 callbacks | the fake map is two-way and keeps what is used; no answer lost or missed, queries end, the first successful group wins; each callback runs once, with its features there |
| `mux_blocked` | 2 flows, carrier of 1 | violation, see Findings |
| `activity_timer_stuck` | 1 SetTimeout | violation |
| `udp_worker_start` | 1 source, 3 connections | violation |
| `health_ping_cleanup` | 2 outbounds, 2 rounds, the one-time check | violation |

`share`, `mux_live`, `transport`, `signal` and `app` hold several components
each. A behaviour belongs to one of them (`part`, chosen by Init and never
changed) and leaves the others as they began, so the state space is the sum and not the
product. Fairness is stated per component, of its own steps in its own
behaviours. One component of each is extended and the others are instances (`Queue`,
`Flow`, `Dialer` and so on), whose properties the MC module states again under their
own names; the proof modules extend the MC module, so a theorem and a run speak of
the same definition. The two mKCP runs keep specifications of their own in one
module, because their fairness conditions are too many for one temporal check.

*Why the bounds suffice.* Each bound is at least the number of actors or
items that the hazards need: two competing writers and a reader for a lost
wake-up; a queue of one for a queue at its limit; three segments through windows of two so
that the window moves while an old segment is still under way; two flows on one
carrier for frames that could be mistaken for each other's (the session limits of
the worker are in the model, but two flows stay within them); two objects of one XUDP id
for migration against expiry; a limit of one use, because two users reach the
limit of two but never pass it; five changes so that a handler is added,
doubled, removed and added again under a running Select; one domain more than the fake list
holds and one caller in the search while another one looks up; DNS, fake DNS
and dispatcher in all orders, so that an optional callback waits in some of them. The theorems below remove the bounds where they
exist. Symmetry (of the users) is used only in `share`, which checks
invariants only.

*Fairness.* Goroutines that can run do run (weak fairness of their steps) and
timers expire; applications, peers and failures owe nothing. The rest is said where
it is used: readers of a pipe keep reading; `kcp_window` assumes a network that
does not lose for ever, a segment repeatedly sent is delivered (strong
fairness); `kcp_close` needs nothing of the network or the peer, only that
the closing application closes, which the inactivity timers see to; in `mux_live`
the monitor's `select` between its ticker and `done` takes a ready `done`
eventually (strong fairness); a dial of the race returns, by its result or its
own timeout; a DNS query needs neither answers nor errors, only its timeout;
a ping returns. Liveness is stated as `<>[]` where the goal is
stable, otherwise as leads-to.

## Proofs

Eight modules hold theorems. A theorem `[]P` holds for every value of the
constants, under assumptions that are either ASSUMEs of a component module
(`PipeAssumption`, `WindowAssumption`, `PoolAssumption`, `RaceAssumption`, which TLC
evaluates in the runs) or hypotheses of the theorem itself (`...Parameters`,
`FlowBounds`, `IdsSuffice`). They say that bounds are numbers and that `None` is no other
value, and what the code checks before it starts: a write is not empty, a fake pool
is larger than its list, a race has two addresses or more. Three say more:

* `IdsSuffice` (MuxProofs): the worker has a limit on its connections that is no
  multiple of the number of identifiers. The outbound handlers set 128, below 2^16
  (`app/proxyman/outbound/handler.go:140`, `:161`). The workers of the reverse
  proxy have no limit of their own and are outside the theorem: their portal drains one after 256
  connections (`app/reverse/portal.go`), but `Allocate` itself would in the end hand out an
  identifier again without a look whether it is still in use.
* `OneOrWhole` (UploadQueue): a packet number is sent once, or the reader's buffer
  takes whole packets. The heap does not tell the rest of a packet from
  a packet that was sent again.
* `SameOrder` (StatsChannel) speaks of channels that have not been closed: a goroutine
  that was broadcasting while Close and Start ran reads `c.closed` only afterwards and goes
  on beside the new one.

The inductive invariants, module by module:

* **PipeProofs**. `IInv` is `TypeOK`, `Support` (`done` holds iff the pipe is not open, an
  interrupted pipe is empty, a writer past the entry test has bytes), `Fifo` and
  `EofMeansComplete`. `Fifo` is not inductive without `Support`: the
  step that accepts bytes needs the state and the buffer to agree. From `IInv`:
  `PipeTypeOK`, `PipeFifo`, `PipeBounded`, and `PipeRefinesStream` step by step.
  `PipeNoLostWakeup` is proved on top of it, for any number of readers and writers.
* **KCPProofs**. *KCPWindow:* the workers know of each other only by segments, so `IInv`
  adds what every segment under way says truthfully (`SegmentOK`: numbers of
  an ack were received, a `sendingNext` is at most the first unacknowledged number, and so
  on) and that neither side runs ahead of the other. From it: `KCPTypeOK`, `KCPSafeRelease`,
  `KCPAcksAreKept` and `KCPReceiverBounded`, for all windows. *KCPClose:* `ConnIInv` says what a
  state that was read and not yet stored may still do, and what a segment under way
  proves about its sender; `TerminationFollowsData` follows for all interleavings
  of the loads and stores.
* **MuxProofs**. `MapInv` says that a manager's map holds exactly the open sessions, each
  under its identifier, and that identifiers differ. `SideOK` says of the frames
  under way that each belongs to a session the client started, that New is sent once and
  before Keep (`NewOK`), and that the payloads of a flow follow on those received
  without a gap (`Chain`) up to the last one sent (`Reach`). The gap
  argument needs the frames of sessions that were closed meanwhile to stay recognisable, hence
  `IdsSuffice`. From it: `SessionsStaySeparate` and `ClosedManagersAreEmpty`, for any
  flows, carriers and faults.
* **MuxLiveProofs**. The invariant says at each step of `handleStatusNew` and `Session.Close`
  who owns the object and its link, and who may put an error into the link's input:
  `FlowIsOwnedOnce`, for any number of connections, objects, links and sessions.
* **ShareProofs**. *OutboundManager:* `Caches` (a generation not in place yet is empty, the one
  in place agrees with the handlers) and `Call` (what each point of `Select`
  knows: a loaded cache may have been replaced, but its entry was valid during the
  call; a computed answer is current while the read lock is held) give
  `ManagerSelectIsCurrent`; with `Labels` and `Routed` they give `ManagerRoutes` and
  `ManagerDefaultHasItsTag`. *Xmux:* `Uses` (uses so far and uses left add up, and the clients that the
  loop has passed have one left) needs the lock: `leftUsage` is read and written only
  under it. `Counts` says that `Running` is the number of users between
  `AddRunning` and `DoneRunning`; without it "nothing runs" could not be turned into
  "the last user is gone". Together they give `XmuxClientsRetire`.
* **TransportProofs**. *UploadQueue:* a packet is in one place, and what was read ends at the
  offset of the packet that is due (`QueuePosition`), hence `ReadsInOrder`, for any
  requests, packet and buffer sizes. *XHTTPSession:* `SessionsNotSplit` is inductive once a
  session is never `None`. *WaitReadCloser:* `BodyClosed`, because whoever comes first leaves
  `Wait` closed for the other. *UDPDispatcher:* `DispatcherOnce` is the once of the timer (an entry
  is closed and terminated exactly when its timer has finished) and `DispatcherHeld` says
  what may be out of the dispatcher's hands; they give `DispatcherEndedOnce`.
  *HappyEyeballs:* `Counted` says that `activeNum` is the number of
  awaited tries, `Armed` that a tick has an address to try and room for it,
  `Tried` and `Winner` follow the connections: `RaceNeverPanics`
  (the "impossible situation" branches) and `RaceEndsClean`.
* **SignalProofs**. *StatsChannel:* `Order` says that one goroutine broadcasts and that the logs of
  any two subscribers (what they heard and what is buffered) agree but for the message under
  way: `SubscribersHearOneOrder`. *PubSub:* what a subscriber was to see adds up
  (`SubscribersMissNothing`). *HealthPing:* a round that was replaced is known to the one that
  replaced it until it is cancelled (`RoundsPingAlone`).
* **AppProofs**. *DNSCache:* `CacheCurrent` and `CacheKept` per domain and family: an entry of
  either map that a query can reach is the newest, and a fresh answer is in the
  map or still on the migration's list. From it: `CacheTypeOK`,
  `CacheNeverStale` and `CacheNoFreshAnswerLost`. *DNSQuery:* every missing record of a fetch is explained
  by a request that is still to answer, has failed, or by the end of the context:
  `NoAnswerIsMissed`, for any callers. *FakeDNS:* `Recent` ties the LRU order to the history: what is in
  front of a domain was used since it was, and a domain that left the list made
  room for `Capacity` others. With `Room` and `Waiting` (the lock is held only to
  allocate for a domain that is not there) it gives `FakeDNSTwoWay` and
  `FakeDNSKeepsRecent`; `FakeDNSSearchEnds` is a counting argument, since the list
  is shorter than the pool.

Leaves name Zenon where first-order reasoning is enough; the rest goes to
the SMT solver.

Only model-checked: the liveness properties (fairness and ENABLED are out of
the prover's reach), and two invariants about recursion over data, which would need
induction: `FirstGroupWins` of DNSParallel (the loop of `makeGroups`) and `ResolvedOnce` of
Instance (`AddFeature` filters the pending callbacks with `SelectSeq`). The models do not use the
width of sequence numbers of mKCP: wrap-around of its 32-bit numbers is not covered.

## Findings

* `mux_blocked` (`common/mux/server.go:307`, "Notify remote peer to close this
  session."). The goroutine that reads the carrier also writes the answer
  to a Keep frame of an unknown session. When both ends do so over a full
  carrier, each waits for the other to read, and the notification is never
  sent. The run starts in `HalfGone`, which `Init` reaches in 12 steps, to keep
  the temporal check small.
* `activity_timer_stuck` (`common/signal/timer.go:75`; the test
  `timer_test.go:29-33` expects the context to end). SetTimeout starts the new task
  while it holds `t.mu`; the first check runs on the same goroutine. A
  check of the old task that is already under way can take the token that SetTimeout
  left; the new check then calls `finish`, which waits for `t.mu` for ever.
  `SilenceEnds` of the `signal` run says what does hold: without a second
  positive timeout silence always ends in onTimeout.
* `udp_worker_start` (`app/proxyman/inbound/worker.go:330`,
  `common.Must(w.checker.Start())`). A packet may replace an entry whose connection is
  closed but not yet removed; the goroutine of the old connection then removes
  the new entry, since `removeConn` deletes by id. If the sweep stops in
  between, the `Start` made for the new connection runs `clean` on an empty table,
  which is an error, and `Must` panics.
* `health_ping_cleanup` (`app/observatory/burst/healthping.go:254`, "tags should be
  all valid tags of the Balancer now"). The tags are those of the start of the
  round; results of an outbound that was added, and pinged by another check, in
  between are deleted.

Behaviour that the models have, and that no property denies because nothing in
the repository says otherwise: a client of Xmux may be closed between
`GetXmuxClient` and `AddRunning`; a message sent to a listener of a statistics
channel that closed meanwhile panics (`channel.go:118`); `AddFeature` keeps only the
last error of its callbacks (`xray.go:373`, "only return the last error for
now"); between the end of a `Periodic` and its next `Start` nothing is swept.

## Not modelled, and why

* *Byte formats* (mux frames, mKCP segments, DNS messages, proxy headers),
  *cryptography* and *sniffing* are below the abstraction; sockets, TLS, HTTP and
  user-space network stacks are other people's code.
* *Mux client manager and reverse proxy*: they keep several mux connections.
  What they decide by (`IsFull`, `IsClosing`, the result of `Dispatch`) is part of
  Mux; two carriers at once put Mux out of exhaustive reach, and without
  Mux a model would show only the picker.
* *Relay and CachedReader*: every proxy joins two links by two copies and a
  timer. Pipe and ActivityTimer are modelled, each with all its interleavings;
  their product is not checked.
* *Handlers under one lock* (inbound manager, rule replacement, user validators,
  counters): no operation spans two critical sections.
* *Left open or out inside modelled parts*: ownership of pooled buffers,
  round-trip estimation, sizes that trigger a DNS map migration, answers served
  stale, wall-clock expiry in XMUX, the fallback of a balancer, and what
  features do in their own `Start` and `Close`; the component notes in
  `PROJECT.json` say so for each part.
