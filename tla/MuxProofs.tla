----------------------------- MODULE MuxProofs ------------------------------
(***************************************************************************)
(* Proofs about the sessions of one mux connection, for any number of flows, *)
(* any capacity of the carrier and any sequence of faults.                 *)
(*                                                                         *)
(* The inductive invariant says of each end's manager that its map holds   *)
(* exactly the open sessions, each under its identifier (MapInv), and of the *)
(* frames under way to an end that each belongs to a session the client has *)
(* started, that a flow's New frame is sent once and before its Keep frames, *)
(* and that a flow's payloads follow, without a gap, on those received     *)
(* (SideOK).  The payloads are numbered by the model, so the numbers say   *)
(* what was lost, doubled, reordered or delivered to another flow.         *)
(***************************************************************************)
EXTENDS Mux, TLAPS

\* The connection's limit keeps its sessions within the identifiers.
IdsSuffice ==
    /\ IdSpace \in Nat \ {0} /\ MaxConnection \in Nat
    /\ MaxConnection % IdSpace > 0

Ids == MaxConnection % IdSpace

\* The number of sessions of a carrier is below the number of identifiers.
LEMMA IdsFit == ASSUME IdsSuffice PROVE Ids \in Nat /\ Ids < IdSpace
BY DEF IdsSuffice, Ids

\* An identifier handed out within the limit is the count itself: no wrap-around.
LEMMA NoWrap == ASSUME IdsSuffice, NEW n \in Nat, n < Ids PROVE (n + 1) % IdSpace = n + 1
<1>1. Ids \in Nat /\ Ids < IdSpace /\ IdSpace \in Nat
  BY Zenon, IdsFit DEF IdsSuffice
<1>2. n + 1 \in Nat /\ n + 1 < IdSpace
  BY <1>1
<1>3. \A a, b \in Nat : a < b => a % b = a
  OBVIOUS
<1> QED
  BY Zenon, <1>1, <1>2, <1>3

-----------------------------------------------------------------------------
(* The map of a session manager *)

Maps == UNION {[D -> Flows] : D \in SUBSET Nat}

\* The identifiers and the flows of a session map.
LEMMA MapFacts ==
    ASSUME NEW m \in Maps
    PROVE  DOMAIN m \subseteq Nat /\ \A i \in DOMAIN m : m[i] \in Flows
BY Zenon DEF Maps

\* A new manager's map is empty.
LEMMA EmptyMap == NoSessions \in Maps /\ DOMAIN NoSessions = {}
<1>1. NoSessions \in [{} -> Flows] /\ DOMAIN NoSessions = {}
  BY Zenon DEF NoSessions
<1> QED
  BY Zenon, <1>1 DEF Maps

\* What adding a session does to a map: session.go, Add and Allocate.
LEMMA MapAdds ==
    ASSUME NEW m \in Maps, NEW i \in Nat, NEW f \in Flows
    PROVE  /\ With(m, i, f) \in Maps
           /\ DOMAIN With(m, i, f) = DOMAIN m \cup {i}
           /\ With(m, i, f)[i] = f
           /\ \A j \in DOMAIN m : j # i => With(m, i, f)[j] = m[j]
<1>1. DOMAIN m \subseteq Nat /\ \A j \in DOMAIN m : m[j] \in Flows
  BY Zenon, MapFacts
<1>2. With(m, i, f) \in [DOMAIN m \cup {i} -> Flows]
  BY Zenon, <1>1 DEF With
<1>3. DOMAIN m \cup {i} \in SUBSET Nat
  BY Zenon, <1>1
<1>4. With(m, i, f) \in Maps
  BY Zenon, <1>2, <1>3 DEF Maps
<1> QED
  BY Zenon, <1>4 DEF With

\* What removing a session does to a map: session.go, Remove.
LEMMA MapRemoves ==
    ASSUME NEW m \in Maps, NEW i
    PROVE  /\ Restrict(m, DOMAIN m \ {i}) \in Maps
           /\ DOMAIN Restrict(m, DOMAIN m \ {i}) = DOMAIN m \ {i}
           /\ \A j \in DOMAIN m : j # i => Restrict(m, DOMAIN m \ {i})[j] = m[j]
<1>1. DOMAIN m \subseteq Nat /\ \A j \in DOMAIN m : m[j] \in Flows
  BY Zenon, MapFacts
<1>2. Restrict(m, DOMAIN m \ {i}) \in [DOMAIN m \ {i} -> Flows]
  BY Zenon, <1>1 DEF Restrict
<1>3. DOMAIN m \ {i} \in SUBSET Nat
  BY Zenon, <1>1
<1>4. Restrict(m, DOMAIN m \ {i}) \in Maps
  BY Zenon, <1>2, <1>3 DEF Maps
<1> QED
  BY Zenon, <1>4 DEF Restrict
-----------------------------------------------------------------------------
(* The payloads of a flow in a queue of frames *)

Frames == [id : Nat, flow : Flows, status : {"New", "Keep", "End"},
           pay : {<<>>} \cup (Flows \X Nat), reply : BOOLEAN]

Data(fr, f) == fr.flow = f /\ fr.pay # <<>>
Num(fr) == fr.pay[2]

\* Payloads of one flow are queued in the order of their numbers.
Increasing(q) ==
    \A i, j \in 1 .. Len(q) :
        i < j /\ q[i].flow = q[j].flow /\ q[i].pay # <<>> /\ q[j].pay # <<>> =>
            Num(q[i]) < Num(q[j])

\* They follow the n that have been received without a gap ...
Chain(q, f, n) ==
    \A j \in 1 .. Len(q) : Data(q[j], f) =>
        \/ Num(q[j]) = n + 1
        \/ \E i \in 1 .. Len(q) : i < j /\ Data(q[i], f) /\ Num(q[j]) = Num(q[i]) + 1

\* ... and reach up to the m that have been sent.
Reach(q, f, n, m) ==
    m = n \/ \E i \in 1 .. Len(q) : Data(q[i], f) /\ Num(q[i]) = m

\* A payload has a number.
LEMMA NumType == ASSUME NEW fr \in Frames, fr.pay # <<>> PROVE Num(fr) \in Nat
BY Zenon DEF Frames, Num

\* The frames of a queue, and of what an append or a read leaves of it.
LEMMA RangeFacts ==
    ASSUME NEW S, NEW q \in Seq(S)
    PROVE  /\ Range(q) \subseteq S
           /\ \A i \in 1 .. Len(q) : q[i] \in Range(q)
           /\ q # <<>> => Head(q) \in Range(q) /\ Range(Tail(q)) \subseteq Range(q)
           /\ \A x \in S : Range(Append(q, x)) \subseteq Range(q) \cup {x}
<1>1. /\ Range(q) \subseteq S
      /\ \A i \in 1 .. Len(q) : q[i] \in Range(q)
      /\ q # <<>> => Head(q) \in Range(q) /\ Range(Tail(q)) \subseteq Range(q)
  BY DEF Range
<1>2. ASSUME NEW x \in S, NEW y \in Range(Append(q, x))
      PROVE  y \in Range(q) \cup {x}
  <2>1. PICK i \in DOMAIN Append(q, x) : y = Append(q, x)[i]
    BY Zenon DEF Range
  <2>2. i \in 1 .. Len(q) + 1
    BY <2>1
  <2>3. i \in 1 .. Len(q) => y = q[i]
    BY <2>1
  <2>4. i \notin 1 .. Len(q) => y = x
    BY <2>1, <2>2
  <2> QED
    BY Zenon, <1>1, <2>3, <2>4
<1> QED
  BY Zenon, <1>1, <1>2

\* What a read leaves of a queue, frame by frame.
LEMMA TailFacts ==
    ASSUME NEW S, NEW q \in Seq(S), q # <<>>
    PROVE  /\ Len(q) \in Nat /\ Len(q) >= 1 /\ Head(q) = q[1] /\ Head(q) \in S
           /\ Tail(q) \in Seq(S) /\ Len(Tail(q)) = Len(q) - 1
           /\ \A i \in 1 .. Len(Tail(q)) : i + 1 \in 1 .. Len(q) /\ Tail(q)[i] = q[i + 1]
           /\ \A i \in 1 .. Len(q) : i # 1 => i - 1 \in 1 .. Len(Tail(q)) /\ Tail(q)[i - 1] = q[i]
OBVIOUS

\* What a write leaves in a queue, frame by frame.
LEMMA AppendFacts ==
    ASSUME NEW S, NEW q \in Seq(S), NEW x \in S
    PROVE  /\ Len(q) \in Nat
           /\ Append(q, x) \in Seq(S) /\ Len(Append(q, x)) = Len(q) + 1
           /\ Append(q, x)[Len(q) + 1] = x
           /\ \A i \in 1 .. Len(q) : Append(q, x)[i] = q[i]
           /\ \A i \in 1 .. Len(q) : i \in 1 .. Len(q) + 1 /\ i # Len(q) + 1 /\ i < Len(q) + 1
           /\ \A i \in 1 .. Len(q) + 1 : i \in 1 .. Len(q) \/ i = Len(q) + 1
           /\ Len(q) + 1 \in 1 .. Len(q) + 1
OBVIOUS

\* Payloads numbered from one on, with the next one added.
LEMMA AppendNumber ==
    ASSUME NEW S, NEW q \in Seq(S), NEW f, NEW n \in Nat, n = Len(q), <<f, n + 1>> \in S,
           \A i \in 1 .. n : q[i] = <<f, i>>
    PROVE  /\ Len(Append(q, <<f, n + 1>>)) = n + 1
           /\ \A i \in 1 .. n + 1 : Append(q, <<f, n + 1>>)[i] = <<f, i>>
OBVIOUS

\* A read keeps the payloads in the order of their numbers.
LEMMA TailIncreasing ==
    ASSUME NEW q \in Seq(Frames), q # <<>>, Increasing(q)
    PROVE  Increasing(Tail(q))
<1>1. \A i \in 1 .. Len(Tail(q)) : i + 1 \in 1 .. Len(q) /\ Tail(q)[i] = q[i + 1]
  BY Zenon, TailFacts
<1>2. \A i, j \in 1 .. Len(Tail(q)) : i < j => i + 1 < j + 1
  OBVIOUS
<1> QED
  BY Zenon, <1>1, <1>2 DEF Increasing

\* The first payload of a flow is the next one, and the rest follow on it.
LEMMA TailChain ==
    ASSUME NEW q \in Seq(Frames), q # <<>>, Increasing(q), NEW f, NEW n \in Nat,
           Chain(q, f, n)
    PROVE  /\ Data(Head(q), f) => Num(Head(q)) = n + 1 /\ Chain(Tail(q), f, n + 1)
           /\ ~Data(Head(q), f) => Chain(Tail(q), f, n)
<1>1. /\ Len(q) \in Nat /\ Len(q) >= 1 /\ Head(q) = q[1]
      /\ Tail(q) \in Seq(Frames) /\ Len(Tail(q)) = Len(q) - 1
      /\ \A i \in 1 .. Len(Tail(q)) : i + 1 \in 1 .. Len(q) /\ Tail(q)[i] = q[i + 1]
      /\ \A i \in 1 .. Len(q) : i # 1 => i - 1 \in 1 .. Len(Tail(q)) /\ Tail(q)[i - 1] = q[i]
  BY Zenon, TailFacts
<1>2. 1 \in 1 .. Len(q) /\ ~\E i \in 1 .. Len(q) : i < 1
  BY <1>1
<1>3. Data(Head(q), f) => Num(Head(q)) = n + 1
  BY Zenon, <1>1, <1>2 DEF Chain
<1>4. ASSUME NEW j \in 1 .. Len(Tail(q)), Data(Tail(q)[j], f)
      PROVE  \/ Num(Tail(q)[j]) = n + 1 /\ ~Data(Head(q), f)
             \/ Num(Tail(q)[j]) = n + 2 /\ Data(Head(q), f)
             \/ \E i \in 1 .. Len(Tail(q)) :
                   i < j /\ Data(Tail(q)[i], f) /\ Num(Tail(q)[j]) = Num(Tail(q)[i]) + 1
  <2>1. j + 1 \in 1 .. Len(q) /\ Tail(q)[j] = q[j + 1] /\ 1 < j + 1
    BY <1>1
  <2>2. CASE Num(q[j + 1]) = n + 1
    <3>1. ~Data(Head(q), f)
      <4> SUFFICES ASSUME Data(Head(q), f) PROVE FALSE
        OBVIOUS
      <4>1. Num(q[1]) = n + 1
        BY Zenon, <1>1, <1>3
      <4>2. Num(q[1]) < Num(q[j + 1])
        BY Zenon, <1>1, <1>2, <1>4, <2>1 DEF Increasing, Data
      <4> QED
        BY <4>1, <4>2, <2>2
    <3> QED
      BY Zenon, <2>1, <2>2, <3>1
  <2>3. ASSUME NEW i \in 1 .. Len(q), i < j + 1, Data(q[i], f), Num(q[j + 1]) = Num(q[i]) + 1
        PROVE  \/ Num(Tail(q)[j]) = n + 2 /\ Data(Head(q), f)
               \/ \E k \in 1 .. Len(Tail(q)) :
                   k < j /\ Data(Tail(q)[k], f) /\ Num(Tail(q)[j]) = Num(Tail(q)[k]) + 1
    <3>1. CASE i = 1
      BY <3>1, <2>1, <2>3, <1>1, <1>3
    <3>2. CASE i # 1
      <4>1. i - 1 \in 1 .. Len(Tail(q)) /\ Tail(q)[i - 1] = q[i] /\ i - 1 < j
        BY <3>2, <1>1, <2>3
      <4> QED
        BY Zenon, <4>1, <2>1, <2>3
    <3> QED
      BY Zenon, <3>1, <3>2
  <2> QED
    BY Zenon, <1>4, <2>1, <2>2, <2>3 DEF Chain
<1>5. Data(Head(q), f) => Chain(Tail(q), f, n + 1)
  <2>1. n + 2 = (n + 1) + 1
    OBVIOUS
  <2> QED
    BY Zenon, <1>4, <2>1 DEF Chain
<1>6. ~Data(Head(q), f) => Chain(Tail(q), f, n)
  BY Zenon, <1>4 DEF Chain
<1> QED
  BY Zenon, <1>3, <1>5, <1>6

\* What is left after a read still reaches up to what was sent.
LEMMA TailReach ==
    ASSUME NEW q \in Seq(Frames), q # <<>>, NEW f, NEW n \in Nat, NEW m, Reach(q, f, n, m)
    PROVE  /\ Data(Head(q), f) /\ Num(Head(q)) = n + 1 /\ m # n => Reach(Tail(q), f, n + 1, m)
           /\ ~Data(Head(q), f) => Reach(Tail(q), f, n, m)
<1>1. /\ Head(q) = q[1]
      /\ \A i \in 1 .. Len(q) : i # 1 => i - 1 \in 1 .. Len(Tail(q)) /\ Tail(q)[i - 1] = q[i]
  BY Zenon, TailFacts
<1> QED
  BY Zenon, <1>1 DEF Reach

\* The next payload that a peer sends follows on those under way.
LEMMA AppendChain ==
    ASSUME NEW q \in Seq(Frames), NEW x \in Frames, NEW f, NEW n, NEW m, Chain(q, f, n),
           Data(x, f) => Num(x) = m + 1 /\ Reach(q, f, n, m)
    PROVE  Chain(Append(q, x), f, n)
<1>1. /\ Len(Append(q, x)) = Len(q) + 1
      /\ Append(q, x)[Len(q) + 1] = x
      /\ \A i \in 1 .. Len(q) : Append(q, x)[i] = q[i]
      /\ \A i \in 1 .. Len(q) : i \in 1 .. Len(q) + 1 /\ i < Len(q) + 1
      /\ \A i \in 1 .. Len(q) + 1 : i \in 1 .. Len(q) \/ i = Len(q) + 1
  BY AppendFacts
<1> SUFFICES ASSUME NEW j \in 1 .. Len(q) + 1, Data(Append(q, x)[j], f)
             PROVE  \/ Num(Append(q, x)[j]) = n + 1
                    \/ \E i \in 1 .. Len(q) + 1 :
                          /\ i < j /\ Data(Append(q, x)[i], f)
                          /\ Num(Append(q, x)[j]) = Num(Append(q, x)[i]) + 1
  BY Zenon, <1>1 DEF Chain
<1>2. CASE j \in 1 .. Len(q)
  BY Zenon, <1>1, <1>2 DEF Chain
<1>3. CASE j = Len(q) + 1
  <2>1. Num(x) = m + 1 /\ Reach(q, f, n, m)
    BY Zenon, <1>1, <1>3
  <2> QED
    BY Zenon, <1>1, <1>3, <2>1 DEF Reach
<1> QED
  BY Zenon, <1>1, <1>2, <1>3

\* What is under way after a write reaches up to what was sent.
LEMMA AppendReach ==
    ASSUME NEW q \in Seq(Frames), NEW x \in Frames, NEW f, NEW n, NEW m
    PROVE  /\ Reach(q, f, n, m) => Reach(Append(q, x), f, n, m)
           /\ Data(x, f) /\ Num(x) = m => Reach(Append(q, x), f, n, m)
<1>1. /\ Len(Append(q, x)) = Len(q) + 1
      /\ Append(q, x)[Len(q) + 1] = x
      /\ \A i \in 1 .. Len(q) : Append(q, x)[i] = q[i]
      /\ \A i \in 1 .. Len(q) : i \in 1 .. Len(q) + 1
      /\ Len(q) + 1 \in 1 .. Len(q) + 1
  BY AppendFacts
<1> QED
  BY Zenon, <1>1 DEF Reach

\* A write keeps the payloads in the order of their numbers.
LEMMA AppendIncreasing ==
    ASSUME NEW q \in Seq(Frames), NEW x \in Frames, Increasing(q),
           x.pay # <<>> => \A i \in 1 .. Len(q) :
               q[i].flow = x.flow /\ q[i].pay # <<>> => Num(q[i]) < Num(x)
    PROVE  Increasing(Append(q, x))
<1>1. /\ Len(q) \in Nat
      /\ Len(Append(q, x)) = Len(q) + 1
      /\ Append(q, x)[Len(q) + 1] = x
      /\ \A i \in 1 .. Len(q) : Append(q, x)[i] = q[i]
      /\ \A i \in 1 .. Len(q) + 1 : i \in 1 .. Len(q) \/ i = Len(q) + 1
  BY AppendFacts
<1>2. \A i, j \in 1 .. Len(q) + 1 : i < j => i \in 1 .. Len(q)
  BY <1>1
<1> QED
  BY Zenon, <1>1, <1>2 DEF Increasing
-----------------------------------------------------------------------------
(* The inductive invariant *)

PumpStates == {"none", "checked", "rejected", "allocated", "first", "copy",
               "end", "close", "done"}

TypeInv ==
    /\ mgr \in [Sides -> [sessions : Maps, count : Nat, closed : BOOLEAN]]
    /\ reading \in [Sides -> BOOLEAN]
    /\ link \in {"up", "broken"}
    /\ queue \in [Sides -> Seq(Frames)]
    /\ pump \in [Sides -> [Flows -> PumpStates]]
    /\ sid \in [Flows -> Nat]
    /\ closed \in [Sides -> [Flows -> BOOLEAN]]
    /\ sent \in [Sides -> [Flows -> Nat]]
    /\ got \in [Sides -> [Flows -> Seq(Flows \X Nat)]]

Started(f) == pump["client"][f] \in {"copy", "end", "close", "done"}

\* What is in a map is an open session, under its identifier.
EntryOK(s) ==
    \A i \in DOMAIN mgr[s].sessions :
        /\ sid[mgr[s].sessions[i]] = i
        /\ Live(s, mgr[s].sessions[i])
        /\ ~closed[s][mgr[s].sessions[i]]

\* An open session is in the map, and the manager is not closed.
SessionOK(s, f) ==
    /\ closed[s][f] => Live(s, f)
    /\ Live(s, f) /\ ~closed[s][f] =>
          /\ ~mgr[s].closed
          /\ sid[f] \in DOMAIN mgr[s].sessions
          /\ mgr[s].sessions[sid[f]] = f

FlowOK(f) ==
    /\ Live("client", f) => sid[f] <= mgr["client"].count
    /\ pump["server"][f] \in {"none", "copy", "end", "close", "done"}
    /\ pump["server"][f] # "none" => Started(f)

IdsDiffer ==
    \A f, g \in Flows :
        Live("client", f) /\ Live("client", g) /\ sid[f] = sid[g] => f = g

MapInv ==
    /\ \A s \in Sides : EntryOK(s)
    /\ \A s \in Sides, f \in Flows : SessionOK(s, f)
    /\ \A f \in Flows : FlowOK(f)
    /\ IdsDiffer
    /\ mgr["client"].count <= Ids

\* A frame belongs to a session that the client has started.
FrameOK(s, fr) ==
    /\ fr.id = sid[fr.flow] /\ Started(fr.flow)
    /\ fr.status = "New" => s = "server" /\ pump["server"][fr.flow] = "none"
    /\ fr.status = "Keep" => /\ fr.pay # <<>>
                             /\ s = "client" => pump["server"][fr.flow] # "none"
    /\ fr.status = "End" => fr.pay = <<>>
    /\ fr.pay # <<>> => /\ fr.pay = <<fr.flow, Num(fr)>>
                        /\ Num(fr) <= sent[Peer(s)][fr.flow]

IsNew(fr, f) == fr.status = "New" /\ fr.flow = f

\* A flow's New frame is sent once, and before its Keep frames.
NewOK ==
    LET q == queue["server"] IN
    /\ \A i, j \in 1 .. Len(q) :
          q[i].status = "New" /\ IsNew(q[j], q[i].flow) => i = j
    /\ reading["server"] =>
          \A j \in 1 .. Len(q) :
             q[j].status = "Keep" /\ pump["server"][q[j].flow] = "none" =>
                \E i \in 1 .. Len(q) : i < j /\ IsNew(q[i], q[j].flow)
    /\ reading["server"] /\ link = "up" =>
          \A f \in Flows :
             pump["client"][f] = "copy" /\ pump["server"][f] = "none" =>
                \E i \in 1 .. Len(q) : IsNew(q[i], f)

StreamOK(s, f) ==
    /\ \A i \in 1 .. Len(got[s][f]) : got[s][f][i] = <<f, i>>
    /\ Len(got[s][f]) <= sent[Peer(s)][f]
    /\ reading[s] /\ ~closed[s][f] =>
          /\ Chain(queue[s], f, Len(got[s][f]))
          /\ link = "up" =>
                Reach(queue[s], f, Len(got[s][f]), sent[Peer(s)][f])

SideOK(s) ==
    /\ \A fr \in Range(queue[s]) : FrameOK(s, fr)
    /\ Increasing(queue[s])
    /\ \A f \in Flows : StreamOK(s, f)
    /\ s = "server" => NewOK

IInv == TypeInv /\ MapInv /\ \A s \in Sides : SideOK(s)
-----------------------------------------------------------------------------
(* What steps keep, for the map and for the queue of one side *)

\* The two ends of a carrier.
LEMMA SidesFacts ==
    /\ "client" \in Sides /\ "server" \in Sides
    /\ \A s \in Sides : /\ s = "client" \/ s = "server"
                        /\ Peer(s) \in Sides /\ Peer(s) # s /\ Peer(Peer(s)) = s
                        /\ \A t \in Sides : t = s \/ t = Peer(s)
BY Zenon DEF Sides, Peer

\* A change for one flow at one end changes nothing else.
LEMMA Update ==
    ASSUME NEW T, NEW F \in [Sides -> [Flows -> T]], NEW s \in Sides, NEW f \in Flows,
           NEW v \in T, NEW G, G = [F EXCEPT ![s][f] = v]
    PROVE  /\ G \in [Sides -> [Flows -> T]] /\ G[s][f] = v
           /\ \A g \in Flows : g # f => G[s][g] = F[s][g]
           /\ \A t \in Sides : t # s => G[t] = F[t]
OBVIOUS

\* What a table holds for a flow has the table's type.
LEMMA Typed ==
    ASSUME NEW T, NEW F \in [Sides -> [Flows -> T]], NEW s \in Sides
    PROVE  \A f \in Flows : F[s][f] \in T
OBVIOUS

\* A session that has sent its New frame is one of the client's.
LEMMA StartedLives == ASSUME NEW f, Started(f) PROVE Live("client", f)
BY Zenon DEF Started, Live

\* A session of the server has been started by the client.
LEMMA ServerStarted ==
    ASSUME NEW f \in Flows, FlowOK(f), Live("server", f)
    PROVE  Started(f)
BY Zenon DEF FlowOK, Live

\* A session of either end is one of the client's.
LEMMA LiveStarted ==
    ASSUME MapInv, NEW s \in Sides, NEW f \in Flows, Live(s, f)
    PROVE  Live("client", f)
BY Zenon, StartedLives, ServerStarted, SidesFacts DEF MapInv

\* Two sessions of one side have different identifiers.
LEMMA SameId ==
    ASSUME MapInv, NEW s \in Sides, NEW f \in Flows, NEW g \in Flows,
           Live("client", f) \/ Live(s, f), Live(s, g), sid[f] = sid[g]
    PROVE  f = g
BY Zenon, LiveStarted DEF MapInv, IdsDiffer

\* A step that changes no manager and closes nothing keeps the maps right.
LEMMA MapSame ==
    ASSUME TypeInv, MapInv, mgr' = mgr, closed' = closed,
           \A s \in Sides, f \in Flows : Live(s, f)' <=> Live(s, f),
           \A f \in Flows : Live("client", f) => sid'[f] = sid[f],
           \A f \in Flows : Started(f) => Started(f)',
           \A f \in Flows :
              /\ pump'["server"][f] \in {"none", "copy", "end", "close", "done"}
              /\ pump'["server"][f] = "none" <=> pump["server"][f] = "none"
    PROVE  MapInv'
<1>1. \A s \in Sides : \A i \in DOMAIN mgr[s].sessions :
         mgr[s].sessions[i] \in Flows
  BY Zenon, MapFacts DEF TypeInv
<1>2. \A s \in Sides, f \in Flows : Live(s, f) => sid'[f] = sid[f]
  BY Zenon, LiveStarted
<1>3. \A s \in Sides : EntryOK(s)'
  BY <1>1, <1>2 DEF MapInv, EntryOK
<1>4. \A s \in Sides, f \in Flows : SessionOK(s, f)'
  BY <1>2 DEF MapInv, SessionOK
<1>5. \A f \in Flows : FlowOK(f)'
  BY Zenon, SidesFacts DEF MapInv, FlowOK
<1>6. IdsDiffer'
  BY Zenon, SidesFacts DEF MapInv, IdsDiffer
<1> QED
  BY Zenon, <1>3, <1>4, <1>5, <1>6 DEF MapInv

\* What a step leaves of the stream to side s when it touches neither its queue nor
\* its outputs.
Kept(s) ==
    /\ queue'[s] = queue[s]
    /\ got'[s] = got[s]
    /\ \A f \in Flows : Started(f) => Started(f)' /\ sid'[f] = sid[f]
    /\ \A f \in Flows : pump["server"][f] # "none" => pump'["server"][f] # "none"
    /\ s = "server" => \A f \in Flows :
          /\ pump'["server"][f] = "none" <=> pump["server"][f] = "none"
          /\ pump'["client"][f] = "copy" /\ link' = "up" => pump["client"][f] = "copy"
    /\ reading'[s] => reading[s]
    /\ \A f \in Flows : closed[s][f] => closed'[s][f]
    /\ link' = "up" => link = "up"
    /\ \A f \in Flows : /\ sent[Peer(s)][f] <= sent'[Peer(s)][f]
                        /\ link' = "up" => sent'[Peer(s)][f] = sent[Peer(s)][f]

\* A step that touches neither the queue nor the streams of an end keeps both.
LEMMA SideSame ==
    ASSUME TypeInv, TypeInv', NEW s \in Sides, SideOK(s), Kept(s)
    PROVE  SideOK(s)'
<1> USE DEF Kept
<1>1. /\ Peer(s) \in Sides /\ queue[s] \in Seq(Frames)
      /\ \A f \in Flows : sent[Peer(s)][f] \in Nat /\ sent'[Peer(s)][f] \in Nat
      /\ \A f \in Flows : Len(got[s][f]) \in Nat
  BY SidesFacts DEF TypeInv
<1>2. Range(queue[s]) \subseteq Frames
  BY Zenon, <1>1, RangeFacts
<1>3. \A i \in 1 .. Len(queue[s]) : queue[s][i].flow \in Flows
  BY <1>1, <1>2, RangeFacts DEF Frames
<1>4. \A fr \in Range(queue'[s]) : FrameOK(s, fr)'
  <2> SUFFICES ASSUME NEW fr \in Range(queue[s])
               PROVE  FrameOK(s, fr)'
    BY Zenon
  <2>1. FrameOK(s, fr) /\ fr \in Frames
    BY Zenon, <1>2 DEF SideOK
  <2>2. s = "client" \/ s = "server"
    BY Zenon, SidesFacts
  <2>3. fr.flow \in Flows
    BY Zenon, <2>1 DEF Frames
  <2>4. fr.pay # <<>> => Num(fr) <= sent'[Peer(s)][fr.flow]
    <3>1. fr.pay # <<>> => Num(fr) \in Nat /\ Num(fr) <= sent[Peer(s)][fr.flow]
      BY Zenon, <2>1, NumType DEF FrameOK
    <3> QED
      BY <3>1, <2>3, <1>1
  <2> QED
    BY Zenon, <2>1, <2>2, <2>3, <2>4 DEF FrameOK
<1>5. Increasing(queue[s])'
  BY Zenon DEF SideOK
<1>6. \A f \in Flows : StreamOK(s, f)'
  <2> SUFFICES ASSUME NEW f \in Flows PROVE StreamOK(s, f)'
    OBVIOUS
  <2>1. StreamOK(s, f)
    BY Zenon DEF SideOK
  <2>2. Len(got'[s][f]) <= sent'[Peer(s)][f]
    BY <1>1, <2>1 DEF StreamOK
  <2> QED
    BY Zenon, <2>1, <2>2 DEF StreamOK
<1>7. s = "server" => NewOK'
  <2> SUFFICES ASSUME s = "server" PROVE NewOK'
    OBVIOUS
  <2>1. NewOK
    BY Zenon DEF SideOK
  <2> QED
    BY <2>1, <1>3 DEF NewOK
<1> QED
  BY Zenon, <1>4, <1>5, <1>6, <1>7 DEF SideOK

\* The frame x is appended to the queue of side s.
Pushed(s, x) ==
    /\ queue'[s] = Append(queue[s], x)
    /\ got'[s] = got[s]
    /\ FrameOK(s, x)'
    /\ \A f \in Flows : Started(f) => Started(f)' /\ sid'[f] = sid[f]
    /\ \A f \in Flows : pump["server"][f] # "none" => pump'["server"][f] # "none"
    /\ s = "server" =>
          /\ \A f \in Flows :
               /\ pump'["server"][f] = "none" <=> pump["server"][f] = "none"
               /\ pump'["client"][f] = "copy" => pump["client"][f] = "copy" \/ IsNew(x, f)
          /\ x.status = "New" => ~Started(x.flow)
          /\ x.status = "Keep" => \/ pump["client"][x.flow] = "copy"
                                  \/ pump["server"][x.flow] # "none"
    /\ reading'[s] = reading[s]
    /\ \A f \in Flows : closed'[s][f] = closed[s][f]
    /\ link = "up" /\ link' = "up"
    /\ \A f \in Flows :
          IF Data(x, f)
          THEN Num(x) = sent[Peer(s)][f] + 1 /\ sent'[Peer(s)][f] = Num(x)
          ELSE sent'[Peer(s)][f] = sent[Peer(s)][f]

\* A frame written to an end's queue keeps its queue and its streams in order.
LEMMA SidePush ==
    ASSUME TypeInv, TypeInv', NEW s \in Sides, SideOK(s), NEW x \in Frames,
           Pushed(s, x)
    PROVE  SideOK(s)'
<1> USE DEF Pushed
<1> DEFINE q == queue[s]
<1>1. /\ Peer(s) \in Sides /\ q \in Seq(Frames)
      /\ \A f \in Flows : sent[Peer(s)][f] \in Nat /\ sent'[Peer(s)][f] \in Nat
      /\ \A f \in Flows : Len(got[s][f]) \in Nat
      /\ x.flow \in Flows
  <2>1. x.flow \in Flows
    BY Zenon DEF Frames
  <2>2. /\ sent \in [Sides -> [Flows -> Nat]] /\ sent' \in [Sides -> [Flows -> Nat]]
        /\ got \in [Sides -> [Flows -> Seq(Flows \X Nat)]]
        /\ queue \in [Sides -> Seq(Frames)]
    BY Zenon DEF TypeInv
  <2>3. Peer(s) \in Sides
    BY Zenon, SidesFacts
  <2>4. \A f \in Flows : got[s][f] \in Seq(Flows \X Nat)
    BY Zenon, <2>2, Typed
  <2>5. \A f \in Flows : Len(got[s][f]) \in Nat
    BY <2>4
  <2> QED
    BY Zenon, <2>1, <2>2, <2>3, <2>5, Typed
<1>2. Range(q) \subseteq Frames
  BY Zenon, <1>1, RangeFacts
<1>3. \A i \in 1 .. Len(q) : q[i] \in Range(q) /\ q[i].flow \in Flows
  <2>1. \A i \in 1 .. Len(q) : q[i] \in Range(q) /\ q[i] \in Frames
    BY Zenon, <1>1, <1>2, RangeFacts
  <2>2. \A fr \in Frames : fr.flow \in Flows
    BY Zenon DEF Frames
  <2> QED
    BY Zenon, <2>1, <2>2
<1>a. /\ Len(Append(q, x)) = Len(q) + 1
      /\ Append(q, x)[Len(q) + 1] = x
      /\ \A i \in 1 .. Len(q) : Append(q, x)[i] = q[i]
      /\ \A i \in 1 .. Len(q) : i \in 1 .. Len(q) + 1 /\ i # Len(q) + 1 /\ i < Len(q) + 1
      /\ \A i \in 1 .. Len(q) + 1 : i \in 1 .. Len(q) \/ i = Len(q) + 1
      /\ Len(q) + 1 \in 1 .. Len(q) + 1
  BY <1>1, AppendFacts
<1>b. \A f \in Flows : sent[Peer(s)][f] <= sent'[Peer(s)][f]
  BY <1>1
<1>4. \A fr \in Range(queue'[s]) : FrameOK(s, fr)'
  <2>1. ASSUME NEW fr \in Range(q)
        PROVE  FrameOK(s, fr)'
    <3>1. FrameOK(s, fr) /\ fr \in Frames
      BY Zenon, <1>2 DEF SideOK
    <3>2. s = "client" \/ s = "server"
      BY Zenon, SidesFacts
    <3>3. fr.flow \in Flows
      BY Zenon, <3>1 DEF Frames
    <3>4. fr.pay # <<>> => Num(fr) <= sent'[Peer(s)][fr.flow]
      <4>1. fr.pay # <<>> => Num(fr) \in Nat /\ Num(fr) <= sent[Peer(s)][fr.flow]
        BY Zenon, <3>1, NumType DEF FrameOK
      <4> QED
        BY <4>1, <3>3, <1>1, <1>b
    <3> QED
      BY Zenon, <3>1, <3>2, <3>3, <3>4 DEF FrameOK
  <2>2. Range(queue'[s]) \subseteq Range(q) \cup {x}
    BY <1>1, RangeFacts
  <2> QED
    BY Zenon, <2>1, <2>2
<1>5. Increasing(queue[s])'
  <2>1. Increasing(q)
    BY Zenon DEF SideOK
  <2>2. ASSUME x.pay # <<>>, NEW i \in 1 .. Len(q), q[i].flow = x.flow, q[i].pay # <<>>
        PROVE  Num(q[i]) < Num(x)
    <3>1. Num(q[i]) <= sent[Peer(s)][x.flow] /\ Num(q[i]) \in Nat
      BY Zenon, <2>2, <1>2, <1>3, NumType DEF SideOK, FrameOK
    <3>2. Num(x) = sent[Peer(s)][x.flow] + 1
      BY Zenon, <2>2, <1>1 DEF Data
    <3> QED
      BY <3>1, <3>2, <1>1
  <2>3. Increasing(Append(q, x))
    BY Zenon, <2>1, <2>2, <1>1, AppendIncreasing
  <2> QED
    BY Zenon, <2>3
<1>6. \A f \in Flows : StreamOK(s, f)'
  <2> SUFFICES ASSUME NEW f \in Flows PROVE StreamOK(s, f)'
    OBVIOUS
  <2>1. StreamOK(s, f)
    BY Zenon DEF SideOK
  <2>2. Len(got'[s][f]) <= sent'[Peer(s)][f]
    BY <1>1, <1>b, <2>1 DEF StreamOK
  <2>3. PICK m : m = sent[Peer(s)][f]
    OBVIOUS
  <2>4. PICK n : n = Len(got[s][f])
    BY Zenon
  <2>5. ASSUME reading[s], ~closed[s][f]
        PROVE  /\ Chain(Append(q, x), f, n)
               /\ Reach(Append(q, x), f, n, sent'[Peer(s)][f])
    <3>1. Chain(q, f, n) /\ Reach(q, f, n, m)
      BY Zenon, <2>1, <2>3, <2>4, <2>5 DEF StreamOK
    <3>2. Data(x, f) => Num(x) = m + 1
      BY Zenon, <2>3
    <3>3. Chain(Append(q, x), f, n)
      BY Zenon, <1>1, <3>1, <3>2, AppendChain
    <3>4. CASE Data(x, f)
      <4>1. Num(x) = sent'[Peer(s)][f]
        BY Zenon, <3>4
      <4>2. Reach(Append(q, x), f, n, Num(x))
        BY Zenon, <1>1, <3>4, AppendReach
      <4> QED
        BY Zenon, <3>3, <4>1, <4>2
    <3>5. CASE ~Data(x, f)
      <4>1. m = sent'[Peer(s)][f]
        BY Zenon, <3>5, <2>3
      <4>2. Reach(Append(q, x), f, n, m)
        BY Zenon, <1>1, <3>1, AppendReach
      <4> QED
        BY Zenon, <3>3, <4>1, <4>2
    <3> QED
      BY Zenon, <3>4, <3>5
  <2> QED
    BY Zenon, <2>1, <2>2, <2>4, <2>5 DEF StreamOK
<1>7. s = "server" => NewOK'
  <2> SUFFICES ASSUME s = "server" PROVE NewOK'
    OBVIOUS
  <2>1. NewOK /\ \A i \in 1 .. Len(q) : Started(q[i].flow)
    BY Zenon, <1>3 DEF SideOK, FrameOK
  <2>2. x.status = "New" => \A i \in 1 .. Len(q) : q[i].flow # x.flow
    BY Zenon, <2>1
  <2>3. \A i, j \in 1 .. Len(q) + 1 :
          Append(q, x)[i].status = "New" /\ IsNew(Append(q, x)[j], Append(q, x)[i].flow) => i = j
    BY <1>a, <2>1, <2>2 DEF NewOK, IsNew
  <2>4. ASSUME reading["server"], NEW j \in 1 .. Len(q) + 1,
               Append(q, x)[j].status = "Keep",
               pump["server"][Append(q, x)[j].flow] = "none"
        PROVE  \E i \in 1 .. Len(q) + 1 : i < j /\ IsNew(Append(q, x)[i], Append(q, x)[j].flow)
    <3>1. CASE j \in 1 .. Len(q)
      BY <3>1, <2>1, <2>4, <1>a DEF NewOK
    <3>2. CASE j = Len(q) + 1
      <4>0. Append(q, x)[j] = x
        BY Zenon, <3>2, <1>a
      <4>1. pump["client"][x.flow] = "copy" /\ pump["server"][x.flow] = "none"
        BY Zenon, <4>0, <2>4
      <4>2. PICK i \in 1 .. Len(q) : IsNew(q[i], x.flow)
        BY Zenon, <4>1, <2>1, <2>4, <1>1 DEF NewOK
      <4> QED
        BY Zenon, <4>0, <4>2, <3>2, <1>a
    <3> QED
      BY Zenon, <3>1, <3>2, <1>a
  <2>5. ASSUME reading["server"], NEW f \in Flows, pump'["client"][f] = "copy",
               pump["server"][f] = "none"
        PROVE  \E i \in 1 .. Len(q) + 1 : IsNew(Append(q, x)[i], f)
    <3>1. CASE IsNew(x, f)
      BY Zenon, <3>1, <1>a
    <3>2. CASE pump["client"][f] = "copy"
      <4>1. PICK i \in 1 .. Len(q) : IsNew(q[i], f)
        BY Zenon, <3>2, <2>1, <2>5 DEF NewOK
      <4> QED
        BY Zenon, <4>1, <1>a
    <3> QED
      BY Zenon, <3>1, <3>2, <2>5
  <2>6. \A j \in 1 .. Len(q) + 1 : Append(q, x)[j].flow \in Flows
    BY <1>1, <1>3, <1>a
  <2>7. queue'["server"] = Append(q, x) /\ reading'["server"] = reading["server"]
    BY Zenon
  <2> QED
    BY <2>3, <2>4, <2>5, <2>6, <2>7, <1>a DEF NewOK
<1> QED
  BY Zenon, <1>4, <1>5, <1>6, <1>7 DEF SideOK

\* The payload of h has been delivered to its session, unless there is none, the
\* reader has stopped or the session is closed.
Taken(s, h) ==
    \A f \in Flows :
        \/ /\ Data(h, f) /\ reading[s] /\ ~closed[s][f]
           /\ got'[s][f] = Append(got[s][f], h.pay)
        \/ /\ ~Data(h, f) \/ ~reading'[s] \/ closed'[s][f]
           /\ got'[s][f] = got[s][f]

\* The frame h is taken from the queue of side s.
Popped(s, h) ==
    /\ queue'[s] = Tail(queue[s])
    /\ \A f \in Flows : Started(f) => Started(f)' /\ sid'[f] = sid[f]
    /\ \A f \in Flows : pump'["client"][f] = pump["client"][f]
    /\ \A f \in Flows :
          /\ pump["server"][f] # "none" => pump'["server"][f] # "none"
          /\ pump["server"][f] = "none" /\ ~IsNew(h, f) => pump'["server"][f] = "none"
          /\ IsNew(h, f) => pump'["server"][f] # "none" \/ ~reading'["server"]
    /\ reading'[s] => reading[s]
    /\ \A f \in Flows : closed[s][f] => closed'[s][f]
    /\ link' = link
    /\ \A f \in Flows : sent'[Peer(s)][f] = sent[Peer(s)][f]
    /\ Taken(s, h)

\* A frame taken from an end's queue, and applied if it is data, keeps its queue
\* and its streams in order.
LEMMA SidePop ==
    ASSUME TypeInv, TypeInv', NEW s \in Sides, SideOK(s), queue[s] # <<>>, NEW h,
           h = Head(queue[s]), Popped(s, h)
    PROVE  SideOK(s)'
<1> USE DEF Popped
<1>1. PICK q : q = queue[s]
  OBVIOUS
<1>2. /\ Peer(s) \in Sides /\ q \in Seq(Frames) /\ q # <<>>
      /\ \A f \in Flows : sent[Peer(s)][f] \in Nat
      /\ \A f \in Flows : got[s][f] \in Seq(Flows \X Nat)
      /\ \A f \in Flows : Len(got[s][f]) \in Nat
  <2>1. /\ sent \in [Sides -> [Flows -> Nat]]
        /\ got \in [Sides -> [Flows -> Seq(Flows \X Nat)]]
        /\ queue \in [Sides -> Seq(Frames)]
    BY Zenon DEF TypeInv
  <2>2. Peer(s) \in Sides
    BY Zenon, SidesFacts
  <2>3. \A f \in Flows : got[s][f] \in Seq(Flows \X Nat)
    BY Zenon, <2>1, Typed
  <2>4. \A f \in Flows : Len(got[s][f]) \in Nat
    BY <2>3
  <2> QED
    BY Zenon, <1>1, <2>1, <2>2, <2>3, <2>4, Typed
<1>3. /\ Range(q) \subseteq Frames /\ h \in Range(q) /\ Range(Tail(q)) \subseteq Range(q)
      /\ \A i \in 1 .. Len(q) : q[i] \in Range(q)
  BY Zenon, <1>1, <1>2, RangeFacts
<1>4. \A i \in 1 .. Len(q) : q[i].flow \in Flows
  BY Zenon, <1>3 DEF Frames
<1>5. /\ Len(q) \in Nat /\ h = q[1] /\ 1 \in 1 .. Len(q)
      /\ Tail(q) \in Seq(Frames)
      /\ \A i \in 1 .. Len(Tail(q)) : i + 1 \in 1 .. Len(q) /\ Tail(q)[i] = q[i + 1] /\ i + 1 # 1
      /\ \A i \in 1 .. Len(q) : i # 1 => i - 1 \in 1 .. Len(Tail(q)) /\ Tail(q)[i - 1] = q[i]
  BY <1>1, <1>2, TailFacts
<1>6. FrameOK(s, h) /\ h \in Frames
  BY Zenon, <1>1, <1>3 DEF SideOK
<1>7. s = "server" => \A i \in 1 .. Len(q) : i # 1 /\ q[i].status = "New" => ~IsNew(h, q[i].flow)
  BY <1>1, <1>5 DEF SideOK, NewOK, IsNew
<1>8. \A fr \in Range(queue'[s]) : FrameOK(s, fr)'
  <2> SUFFICES ASSUME NEW fr \in Range(Tail(q))
               PROVE  FrameOK(s, fr)'
    BY Zenon, <1>1
  <2>1. FrameOK(s, fr) /\ fr \in Frames
    BY Zenon, <1>1, <1>3 DEF SideOK
  <2>2. s = "client" \/ s = "server"
    BY Zenon, SidesFacts
  <2>3. fr.flow \in Flows
    BY Zenon, <2>1 DEF Frames
  <2>4. s = "server" /\ fr.status = "New" => ~IsNew(h, fr.flow)
    <3>1. PICK i \in 1 .. Len(Tail(q)) : fr = Tail(q)[i]
      BY <1>5 DEF Range
    <3> QED
      BY <3>1, <1>5, <1>7
  <2> QED
    BY Zenon, <2>1, <2>2, <2>3, <2>4 DEF FrameOK
<1>9. Increasing(queue[s])'
  BY Zenon, <1>1, <1>2, TailIncreasing DEF SideOK
<1>10. \A f \in Flows : StreamOK(s, f)'
  <2> SUFFICES ASSUME NEW f \in Flows PROVE StreamOK(s, f)'
    OBVIOUS
  <2>1. StreamOK(s, f) /\ Increasing(q)
    BY Zenon, <1>1 DEF SideOK
  <2>2. PICK n : n = Len(got[s][f])
    BY Zenon
  <2>3. PICK m : m = sent[Peer(s)][f]
    OBVIOUS
  <2>4. n \in Nat /\ m \in Nat /\ n <= m
    BY Zenon, <1>2, <2>1, <2>2, <2>3 DEF StreamOK
  <2>5. reading[s] /\ ~closed[s][f] =>
            Chain(q, f, n) /\ (link = "up" => Reach(q, f, n, m))
    BY Zenon, <1>1, <2>1, <2>2, <2>3 DEF StreamOK
  <2>6. CASE /\ Data(h, f) /\ reading[s] /\ ~closed[s][f]
             /\ got'[s][f] = Append(got[s][f], h.pay)
    <3>1. Num(h) = n + 1 /\ Chain(Tail(q), f, n + 1)
      BY Zenon, <1>1, <1>2, <2>1, <2>4, <2>5, <2>6, TailChain
    <3>2. h.pay = <<f, n + 1>> /\ Num(h) <= m
      BY Zenon, <1>6, <2>3, <2>6, <3>1 DEF FrameOK, Data
    <3>3. n + 1 <= m /\ m # n
      BY <2>4, <3>1, <3>2
    <3>4. /\ Len(got'[s][f]) = n + 1
          /\ \A i \in 1 .. n + 1 : got'[s][f][i] = <<f, i>>
      <4>1. got'[s][f] = Append(got[s][f], <<f, n + 1>>)
        BY Zenon, <2>6, <3>2
      <4>2. \A i \in 1 .. n : got[s][f][i] = <<f, i>>
        BY Zenon, <2>1, <2>2 DEF StreamOK
      <4>3. got[s][f] \in Seq(Flows \X Nat) /\ <<f, n + 1>> \in Flows \X Nat
        BY <1>2, <2>4
      <4> HIDE DEF Popped
      <4>4. /\ Len(Append(got[s][f], <<f, n + 1>>)) = n + 1
            /\ \A i \in 1 .. n + 1 : Append(got[s][f], <<f, n + 1>>)[i] = <<f, i>>
        BY <2>2, <2>4, <4>2, <4>3, AppendNumber
      <4> QED
        BY Zenon, <4>1, <4>4
    <3>5. link = "up" => Reach(Tail(q), f, n + 1, m)
      BY Zenon, <1>1, <1>2, <2>4, <2>5, <2>6, <3>1, <3>3, TailReach
    <3> QED
      BY Zenon, <1>1, <2>3, <3>1, <3>3, <3>4, <3>5 DEF StreamOK
  <2>7. CASE /\ ~Data(h, f) \/ ~reading'[s] \/ closed'[s][f]
             /\ got'[s][f] = got[s][f]
    <3>1. ASSUME reading'[s], ~closed'[s][f]
          PROVE  Chain(Tail(q), f, n) /\ (link = "up" => Reach(Tail(q), f, n, m))
      <4>1. ~Data(h, f) /\ reading[s] /\ ~closed[s][f]
        BY Zenon, <2>7, <3>1
      <4> QED
        BY Zenon, <1>1, <1>2, <2>1, <2>4, <2>5, <4>1, TailChain, TailReach
    <3> QED
      BY Zenon, <1>1, <2>1, <2>2, <2>3, <2>7, <3>1 DEF StreamOK
  <2> QED
    BY Zenon, <2>6, <2>7 DEF Taken
<1>11. s = "server" => NewOK'
  <2> SUFFICES ASSUME s = "server" PROVE NewOK'
    OBVIOUS
  <2>1. NewOK /\ q = queue["server"] /\ queue'["server"] = Tail(q)
    BY Zenon, <1>1 DEF SideOK
  <2>2. ASSUME NEW i \in 1 .. Len(Tail(q)), NEW j \in 1 .. Len(Tail(q)),
               Tail(q)[i].status = "New", IsNew(Tail(q)[j], Tail(q)[i].flow)
        PROVE  i = j
    <3>1. i + 1 = j + 1
      BY <2>1, <2>2, <1>5 DEF NewOK
    <3> QED
      BY <3>1
  <2>3. ASSUME reading'["server"], NEW j \in 1 .. Len(Tail(q)), Tail(q)[j].status = "Keep",
               pump'["server"][Tail(q)[j].flow] = "none"
        PROVE  \E i \in 1 .. Len(Tail(q)) : i < j /\ IsNew(Tail(q)[i], Tail(q)[j].flow)
    <3>1. PICK f : f = Tail(q)[j].flow
      OBVIOUS
    <3>2. f = q[j + 1].flow /\ q[j + 1].status = "Keep" /\ j + 1 \in 1 .. Len(q) /\ f \in Flows
      BY Zenon, <3>1, <2>3, <1>4, <1>5
    <3>3. reading["server"] /\ pump["server"][f] = "none"
      BY Zenon, <2>3, <3>1, <3>2
    <3>4. PICK k \in 1 .. Len(q) : k < j + 1 /\ IsNew(q[k], f)
      BY Zenon, <2>1, <3>2, <3>3 DEF NewOK
    <3>5. k # 1
      BY <3>1, <3>2, <3>4, <1>5, <2>3
    <3>6. k - 1 \in 1 .. Len(Tail(q)) /\ Tail(q)[k - 1] = q[k] /\ k - 1 < j
      BY <3>4, <3>5, <1>5
    <3> QED
      BY Zenon, <3>1, <3>4, <3>6
  <2>4. ASSUME reading'["server"], link' = "up", NEW f \in Flows,
               pump'["client"][f] = "copy", pump'["server"][f] = "none"
        PROVE  \E i \in 1 .. Len(Tail(q)) : IsNew(Tail(q)[i], f)
    <3>1. PICK k \in 1 .. Len(q) : IsNew(q[k], f)
      BY Zenon, <2>1, <2>4 DEF NewOK
    <3>2. k # 1
      BY <3>1, <1>5, <2>4
    <3> QED
      BY Zenon, <3>1, <3>2, <1>5
  <2> QED
    BY <2>1, <2>2, <2>3, <2>4 DEF NewOK
<1> QED
  BY Zenon, <1>8, <1>9, <1>10, <1>11 DEF SideOK

\* Session.Close of the sessions of F, but for the map.
LEMMA LinksClosed ==
    ASSUME TypeInv, NEW s \in Sides, NEW F, CloseLinks(s, F)
    PROVE  /\ closed' \in [Sides -> [Flows -> BOOLEAN]]
           /\ \A t \in Sides : t # s => closed'[t] = closed[t]
           /\ \A g \in Flows : closed'[s][g] <=> g \in F \/ closed[s][g]
<1>1. closed \in [Sides -> [Flows -> BOOLEAN]]
  BY Zenon DEF TypeInv
<1>2. PICK G : G = {f \in F : ~closed[s][f]}
  BY Zenon
<1>3. closed' = [closed EXCEPT ![s] = [f \in Flows |-> f \in G \/ closed[s][f]]]
  BY Zenon, <1>2 DEF CloseLinks
<1>4. /\ closed' \in [Sides -> [Flows -> BOOLEAN]]
      /\ \A t \in Sides : t # s => closed'[t] = closed[t]
      /\ \A g \in Flows : closed'[s][g] <=> g \in G \/ closed[s][g]
  BY Zenon, <1>1, <1>3
<1> QED
  BY Zenon, <1>2, <1>4

\* The type of a manager.
LEMMA MgrTypes ==
    ASSUME TypeInv, NEW s \in Sides
    PROVE  /\ mgr[s] \in [sessions : Maps, count : Nat, closed : BOOLEAN]
           /\ mgr[s].sessions \in Maps /\ mgr[s].count \in Nat
           /\ mgr[s].closed \in BOOLEAN
           /\ DOMAIN mgr[s].sessions \subseteq Nat
           /\ \A i \in DOMAIN mgr[s].sessions : mgr[s].sessions[i] \in Flows
<1>1. /\ mgr[s] \in [sessions : Maps, count : Nat, closed : BOOLEAN]
      /\ mgr[s].sessions \in Maps /\ mgr[s].count \in Nat
      /\ mgr[s].closed \in BOOLEAN
  BY Zenon DEF TypeInv
<1> QED
  BY Zenon, <1>1, MapFacts

\* A whole Session.Close.
LEMMA MapClose ==
    ASSUME TypeInv, MapInv, NEW s \in Sides, NEW f \in Flows, Live(s, f),
           CloseSession(s, f), sid' = sid,
           \A t \in Sides, g \in Flows : Live(t, g)' <=> Live(t, g),
           \A g \in Flows : Started(g) => Started(g)',
           \A g \in Flows :
              /\ pump'["server"][g] \in {"none", "copy", "end", "close", "done"}
              /\ pump'["server"][g] = "none" <=> pump["server"][g] = "none"
    PROVE  /\ MapInv'
           /\ mgr' \in [Sides -> [sessions : Maps, count : Nat, closed : BOOLEAN]]
           /\ closed' \in [Sides -> [Flows -> BOOLEAN]]
           /\ \A t \in Sides, g \in Flows : closed[t][g] => closed'[t][g]
           /\ closed'[s][f]
<1>1. /\ closed' \in [Sides -> [Flows -> BOOLEAN]]
      /\ \A t \in Sides : t # s => closed'[t] = closed[t]
      /\ \A g \in Flows : closed'[s][g] <=> g = f \/ closed[s][g]
  <2>1. PICK F : F = {f}
    BY Zenon
  <2>2. CloseLinks(s, F)
    BY Zenon, <2>1 DEF CloseSession
  <2>3. \A g : g \in F <=> g = f
    BY Zenon, <2>1
  <2>4. /\ closed' \in [Sides -> [Flows -> BOOLEAN]]
        /\ \A t \in Sides : t # s => closed'[t] = closed[t]
        /\ \A g \in Flows : closed'[s][g] <=> g \in F \/ closed[s][g]
    BY Zenon, <2>2, LinksClosed
  <2> QED
    BY Zenon, <2>3, <2>4
<1>2. PICK m : m = mgr[s].sessions
  OBVIOUS
<1>3. mgr[s].sessions \in Maps /\ DOMAIN m \subseteq Nat /\ \A i \in DOMAIN m : m[i] \in Flows
  BY Zenon, <1>2, MgrTypes
<1>4. /\ mgr' \in [Sides -> [sessions : Maps, count : Nat, closed : BOOLEAN]]
      /\ \A t \in Sides : t # s => mgr'[t] = mgr[t]
      /\ \A t \in Sides : mgr'[t].count = mgr[t].count /\ mgr'[t].closed = mgr[t].closed
      /\ closed[s][f] \/ mgr[s].closed => mgr'[s].sessions = m
      /\ ~(closed[s][f] \/ mgr[s].closed) =>
            mgr'[s].sessions = Restrict(m, DOMAIN m \ {sid[f]})
  <2>1. mgr \in [Sides -> [sessions : Maps, count : Nat, closed : BOOLEAN]]
    BY Zenon DEF TypeInv
  <2>2. CASE closed[s][f] \/ mgr[s].closed
    BY Zenon, <2>1, <2>2, <1>2 DEF CloseSession
  <2>3. CASE ~(closed[s][f] \/ mgr[s].closed)
    <3>1. PICK r : r = Restrict(m, DOMAIN m \ {sid[f]})
      OBVIOUS
    <3>2. mgr' = [mgr EXCEPT ![s].sessions = r]
      BY Zenon, <2>3, <3>1, <1>2 DEF CloseSession
    <3>3. r \in Maps
      BY Zenon, <3>1, <1>2, <1>3, MapRemoves
    <3>4. /\ mgr' \in [Sides -> [sessions : Maps, count : Nat, closed : BOOLEAN]]
          /\ \A t \in Sides : t # s => mgr'[t] = mgr[t]
          /\ \A t \in Sides : mgr'[t].count = mgr[t].count /\ mgr'[t].closed = mgr[t].closed
          /\ mgr'[s].sessions = r
      BY Zenon, <2>1, <3>2, <3>3
    <3> QED
      BY Zenon, <3>1, <3>4, <2>3
  <2> QED
    BY Zenon, <2>2, <2>3
<1>5. CASE closed[s][f] \/ mgr[s].closed
  <2>1. closed[s][f]
    BY Zenon, <1>5 DEF MapInv, SessionOK
  <2>2. \A t \in Sides, g \in Flows : closed'[t][g] <=> closed[t][g]
    BY Zenon, <1>1, <2>1
  <2>3. \A t \in Sides : mgr'[t].sessions = mgr[t].sessions
    BY Zenon, <1>2, <1>4, <1>5
  <2>4. \A t \in Sides : EntryOK(t)'
    <3>1. \A t \in Sides : \A i \in DOMAIN mgr[t].sessions : mgr[t].sessions[i] \in Flows
      BY Zenon, MgrTypes
    <3> QED
      BY <2>2, <2>3, <3>1 DEF MapInv, EntryOK
  <2>5. \A t \in Sides, g \in Flows : SessionOK(t, g)'
    BY <1>4, <2>2, <2>3 DEF MapInv, SessionOK
  <2>6. (\A g \in Flows : FlowOK(g)') /\ IdsDiffer' /\ mgr'["client"].count <= Ids
    BY Zenon, <1>4, SidesFacts DEF MapInv, FlowOK, IdsDiffer
  <2> QED
    BY Zenon, <1>1, <1>4, <2>1, <2>2, <2>4, <2>5, <2>6 DEF MapInv
<1>6. CASE ~(closed[s][f] \/ mgr[s].closed)
  <2>1. /\ DOMAIN mgr'[s].sessions = DOMAIN m \ {sid[f]}
        /\ \A j \in DOMAIN m : j # sid[f] => mgr'[s].sessions[j] = m[j]
    <3>1. PICK i : i = sid[f]
      OBVIOUS
    <3>2. mgr'[s].sessions = Restrict(m, DOMAIN m \ {i}) /\ m \in Maps
      BY Zenon, <3>1, <1>2, <1>3, <1>4, <1>6
    <3>3. /\ DOMAIN Restrict(m, DOMAIN m \ {i}) = DOMAIN m \ {i}
          /\ \A j \in DOMAIN m : j # i => Restrict(m, DOMAIN m \ {i})[j] = m[j]
      BY Zenon, <3>2, MapRemoves
    <3> QED
      BY Zenon, <3>1, <3>2, <3>3
  <2>2. \A t \in Sides : EntryOK(t)'
    <3> SUFFICES ASSUME NEW t \in Sides PROVE EntryOK(t)'
      OBVIOUS
    <3>1. EntryOK(t)
      BY Zenon DEF MapInv
    <3>2. \A i \in DOMAIN mgr[t].sessions : mgr[t].sessions[i] \in Flows
      BY Zenon, MgrTypes
    <3>3. CASE t = s
      <4>3. ASSUME NEW i \in DOMAIN m \ {sid[f]}
            PROVE  sid[m[i]] = i /\ Live(s, m[i]) /\ ~closed'[s][m[i]] /\ m[i] \in Flows
        BY Zenon, <3>1, <3>2, <3>3, <1>1, <1>2, <1>3 DEF EntryOK
      <4>4. \A i \in DOMAIN m \ {sid[f]} : mgr'[s].sessions[i] = m[i]
        BY Zenon, <2>1
      <4> QED
        BY Zenon, <2>1, <3>3, <4>3, <4>4 DEF EntryOK
    <3>4. CASE t # s
      BY Zenon, <3>1, <3>2, <3>4, <1>1, <1>4 DEF EntryOK
    <3> QED
      BY Zenon, <3>3, <3>4
  <2>3. \A t \in Sides, g \in Flows : SessionOK(t, g)'
    <3> SUFFICES ASSUME NEW t \in Sides, NEW g \in Flows PROVE SessionOK(t, g)'
      OBVIOUS
    <3>1. SessionOK(t, g)
      BY Zenon DEF MapInv
    <3>2. CASE t # s
      BY Zenon, <3>1, <3>2, <1>1, <1>4 DEF SessionOK
    <3>3. CASE t = s /\ g = f
      BY Zenon, <3>3, <1>1 DEF SessionOK
    <3>4. CASE t = s /\ g # f
      <4>1. Live(s, g) => sid[g] # sid[f]
        BY Zenon, <3>4, SameId
      <4> QED
        BY Zenon, <3>1, <3>4, <4>1, <2>1, <1>1, <1>2, <1>4 DEF SessionOK
    <3> QED
      BY Zenon, <3>2, <3>3, <3>4
  <2>4. (\A g \in Flows : FlowOK(g)') /\ IdsDiffer' /\ mgr'["client"].count <= Ids
    BY Zenon, <1>4, SidesFacts DEF MapInv, FlowOK, IdsDiffer
  <2> QED
    BY Zenon, <1>1, <1>4, <2>2, <2>3, <2>4 DEF MapInv
<1> QED
  BY Zenon, <1>5, <1>6

\* The manager is closed, after its sessions or because there are none.
LEMMA MapShut ==
    ASSUME TypeInv, MapInv, NEW s \in Sides,
           mgr' = [mgr EXCEPT ![s].closed = TRUE, ![s].sessions = NoSessions],
           pump' = pump, sid' = sid,
           \A t \in Sides : t # s => closed'[t] = closed[t],
           \A g \in Flows : closed'[s][g] <=> Live(s, g)
    PROVE  /\ MapInv'
           /\ mgr' \in [Sides -> [sessions : Maps, count : Nat, closed : BOOLEAN]]
<1>1. mgr \in [Sides -> [sessions : Maps, count : Nat, closed : BOOLEAN]]
  BY Zenon DEF TypeInv
<1>2. NoSessions \in Maps /\ DOMAIN NoSessions = {}
  BY Zenon, EmptyMap
<1>3. /\ mgr' \in [Sides -> [sessions : Maps, count : Nat, closed : BOOLEAN]]
      /\ \A t \in Sides : t # s => mgr'[t] = mgr[t]
      /\ \A t \in Sides : mgr'[t].count = mgr[t].count
      /\ mgr'[s].sessions = NoSessions /\ mgr'[s].closed
  BY Zenon, <1>1, <1>2
<1>4. \A t \in Sides, g \in Flows : Live(t, g)' <=> Live(t, g)
  BY Zenon DEF Live
<1>5. \A t \in Sides : EntryOK(t)'
  <2> SUFFICES ASSUME NEW t \in Sides PROVE EntryOK(t)'
    OBVIOUS
  <2>1. EntryOK(t) /\ \A i \in DOMAIN mgr[t].sessions : mgr[t].sessions[i] \in Flows
    BY Zenon, MgrTypes DEF MapInv
  <2>2. CASE t = s
    <3>1. DOMAIN mgr'[s].sessions = {}
      BY Zenon, <1>2, <1>3
    <3> QED
      BY Zenon, <2>2, <3>1 DEF EntryOK
  <2>3. CASE t # s
    BY Zenon, <2>1, <2>3, <1>3, <1>4 DEF EntryOK
  <2> QED
    BY Zenon, <2>2, <2>3
<1>6. \A t \in Sides, g \in Flows : SessionOK(t, g)'
  <2> SUFFICES ASSUME NEW t \in Sides, NEW g \in Flows PROVE SessionOK(t, g)'
    OBVIOUS
  <2>1. SessionOK(t, g)
    BY Zenon DEF MapInv
  <2>2. CASE t = s
    BY Zenon, <2>2, <1>4 DEF SessionOK
  <2>3. CASE t # s
    BY Zenon, <2>1, <2>3, <1>3, <1>4 DEF SessionOK
  <2> QED
    BY Zenon, <2>2, <2>3
<1>7. \A g \in Flows : FlowOK(g)'
  BY Zenon, <1>3, <1>4, SidesFacts DEF MapInv, FlowOK, Started
<1>8. IdsDiffer' /\ mgr'["client"].count <= Ids
  BY Zenon, <1>3, <1>4, SidesFacts DEF MapInv, IdsDiffer
<1> QED
  BY Zenon, <1>3, <1>5, <1>6, <1>7, <1>8 DEF MapInv

Entry(M, s, n, w) == [M EXCEPT ![s].count = n, ![s].sessions = w]

\* The manager of side s inserts the session f under the identifier i.
Inserted(s, f, i, n) ==
    /\ mgr' = [mgr EXCEPT ![s].count = n, ![s].sessions = With(@, i, f)]

\* A new session f of side s under an identifier that is not in use.
LEMMA MgrAdd ==
    ASSUME TypeInv, NEW s \in Sides, NEW f \in Flows, NEW i \in Nat, NEW n \in Nat,
           Inserted(s, f, i, n)
    PROVE  /\ mgr' \in [Sides -> [sessions : Maps, count : Nat, closed : BOOLEAN]]
           /\ mgr'[s].sessions = With(mgr[s].sessions, i, f)
           /\ mgr'[s].count = n
           /\ mgr'[s].closed = mgr[s].closed
           /\ \A t \in Sides : t # s => mgr'[t] = mgr[t]
<1> USE DEF Inserted
<1>1. PICK w : w = With(mgr[s].sessions, i, f)
  OBVIOUS
<1>2. w \in Maps
  BY Zenon, <1>1, MgrTypes, MapAdds
<1>3. mgr \in [Sides -> [sessions : Maps, count : Nat, closed : BOOLEAN]]
  BY Zenon DEF TypeInv
<1>4. mgr' = Entry(mgr, s, n, w)
  BY Zenon, <1>1 DEF Entry
<1> HIDE DEF Inserted
<1>5. /\ Entry(mgr, s, n, w) \in [Sides -> [sessions : Maps, count : Nat, closed : BOOLEAN]]
      /\ Entry(mgr, s, n, w)[s].sessions = w
      /\ Entry(mgr, s, n, w)[s].count = n
      /\ Entry(mgr, s, n, w)[s].closed = mgr[s].closed
      /\ \A t \in Sides : t # s => Entry(mgr, s, n, w)[t] = mgr[t]
  BY Zenon, <1>2, <1>3 DEF Entry
<1> QED
  BY Zenon, <1>1, <1>4, <1>5

\* The session f is put into the map of side s under the identifier i.
Added(s, f, i, w) ==
    /\ w = With(mgr[s].sessions, i, f)
    /\ mgr'[s].sessions = w
    /\ mgr'[s].closed = mgr[s].closed
    /\ \A t \in Sides : t # s => mgr'[t] = mgr[t]
    /\ ~mgr[s].closed
    /\ closed' = closed
    /\ ~Live(s, f)
    /\ Live(s, f)'
    /\ sid'[f] = i
    /\ i \notin DOMAIN mgr[s].sessions
    /\ \A g \in Flows : g # f => sid'[g] = sid[g]
    /\ \A t \in Sides : Live(t, f) => sid[f] = i
    /\ \A t \in Sides, g \in Flows : t # s \/ g # f => (Live(t, g)' <=> Live(t, g))

\* A session that is added under a free identifier keeps the maps right.
LEMMA MapAdd ==
    ASSUME TypeInv, MapInv, NEW s \in Sides, NEW f \in Flows, NEW i \in Nat, NEW w,
           Added(s, f, i, w)
    PROVE  /\ \A t \in Sides : EntryOK(t)'
           /\ \A t \in Sides, g \in Flows : SessionOK(t, g)'
<1> USE DEF Added
<1>2. PICK m : m = mgr[s].sessions
  OBVIOUS
<1>3. m \in Maps
  BY Zenon, <1>2, MgrTypes
<1>4. w = With(m, i, f)
  BY Zenon, <1>2
<1>5. /\ DOMAIN w = DOMAIN m \cup {i}
      /\ w[i] = f
      /\ \A j \in DOMAIN m : j # i => w[j] = m[j]
  <2> HIDE DEF Added
  <2>1. /\ DOMAIN With(m, i, f) = DOMAIN m \cup {i}
        /\ With(m, i, f)[i] = f
        /\ \A j \in DOMAIN m : j # i => With(m, i, f)[j] = m[j]
    BY Zenon, <1>3, MapAdds
  <2> QED
    BY Zenon, <1>4, <2>1
<1>7. ~closed[s][f]
  BY Zenon DEF MapInv, SessionOK
<1>8. \A t \in Sides, g \in Flows : Live(t, g) => sid'[g] = sid[g]
  BY Zenon
<1>9. \A t \in Sides : EntryOK(t)'
  <2> SUFFICES ASSUME NEW t \in Sides PROVE EntryOK(t)'
    OBVIOUS
  <2>1. EntryOK(t) /\ \A j \in DOMAIN mgr[t].sessions : mgr[t].sessions[j] \in Flows
    BY Zenon, MgrTypes DEF MapInv
  <2>2. CASE t = s
    <3>3. ASSUME NEW j \in DOMAIN w
          PROVE  sid'[w[j]] = j /\ Live(s, w[j])' /\ ~closed'[s][w[j]]
      <4>1. CASE j = i
        BY Zenon, <4>1, <1>5, <1>7
      <4>2. CASE j # i
        <5>1. j \in DOMAIN m /\ w[j] = m[j]
          BY Zenon, <4>2, <3>3, <1>5
        <5>2. m[j] \in Flows /\ sid[m[j]] = j /\ Live(s, m[j]) /\ ~closed[s][m[j]]
          BY Zenon, <5>1, <2>1, <2>2, <1>2 DEF EntryOK
        <5> QED
          BY Zenon, <5>1, <5>2, <1>8
      <4> QED
        BY Zenon, <4>1, <4>2
    <3> QED
      BY Zenon, <2>2, <3>3 DEF EntryOK
  <2>3. CASE t # s
    BY <2>1, <2>3, <1>8 DEF EntryOK
  <2> QED
    BY Zenon, <2>2, <2>3
<1>10. \A t \in Sides, g \in Flows : SessionOK(t, g)'
  <2> SUFFICES ASSUME NEW t \in Sides, NEW g \in Flows PROVE SessionOK(t, g)'
    OBVIOUS
  <2>1. SessionOK(t, g)
    BY Zenon DEF MapInv
  <2>2. CASE t # s
    BY Zenon, <2>1, <2>2, <1>8 DEF SessionOK
  <2>3. CASE t = s /\ g = f
    BY Zenon, <2>3, <1>5 DEF SessionOK
  <2>4. CASE t = s /\ g # f
    BY Zenon, <2>1, <2>4, <1>2, <1>5 DEF SessionOK
  <2> QED
    BY Zenon, <2>2, <2>3, <2>4
<1> QED
  BY Zenon, <1>9, <1>10

\* A step that touches neither the maps nor the queues.
Quietly ==
    /\ mgr' = mgr
    /\ queue' = queue
    /\ sid' = sid
    /\ closed' = closed
    /\ got' = got
    /\ pump' \in [Sides -> [Flows -> PumpStates]]
    /\ \A s \in Sides, f \in Flows : Live(s, f)' <=> Live(s, f)
    /\ \A f \in Flows : Started(f) => Started(f)'
    /\ \A f \in Flows :
          /\ pump'["server"][f] \in {"none", "copy", "end", "close", "done"}
          /\ pump'["server"][f] = "none" <=> pump["server"][f] = "none"
          /\ pump'["client"][f] = "copy" /\ link' = "up" => pump["client"][f] = "copy"
    /\ reading' \in [Sides -> BOOLEAN]
    /\ \A s \in Sides : reading'[s] => reading[s]
    /\ link' \in {"up", "broken"}
    /\ link' = "up" => link = "up"
    /\ sent' \in [Sides -> [Flows -> Nat]]
    /\ \A s \in Sides, f \in Flows : /\ sent[s][f] <= sent'[s][f]
                                     /\ link' = "up" => sent'[s][f] = sent[s][f]

\* Steps that touch neither the maps nor the queues.
LEMMA Quiet ==
    ASSUME IInv, Quietly
    PROVE  IInv'
<1> USE DEF Quietly
<1>1. TypeInv /\ MapInv /\ \A s \in Sides : SideOK(s)
  BY Zenon DEF IInv
<1>2. TypeInv'
  BY Zenon, <1>1 DEF TypeInv
<1>3. MapInv'
  BY Zenon, <1>1, MapSame
<1>4. \A s \in Sides : Peer(s) \in Sides
  BY Zenon, SidesFacts
<1>5. \A s \in Sides : SideOK(s)'
  BY Zenon, <1>1, <1>2, <1>4, SideSame DEF Kept
<1> QED
  BY Zenon, <1>2, <1>3, <1>5 DEF IInv

\* Steps of the monitors, of the carrier and of the applications.
LEMMA Aside ==
    ASSUME IInv,
           mgr' = mgr, queue' = queue, sid' = sid, closed' = closed, got' = got,
           pump' = pump, sent' = sent,
           reading' \in [Sides -> BOOLEAN], \A s \in Sides : reading'[s] => reading[s],
           link' \in {"up", "broken"}, link' = "up" => link = "up"
    PROVE  IInv'
<1>1. TypeInv /\ \A f \in Flows : FlowOK(f)
  BY Zenon DEF IInv, MapInv
<1>2. /\ \A s \in Sides, f \in Flows : Live(s, f)' <=> Live(s, f)
      /\ \A f \in Flows : Started(f) => Started(f)'
  BY Zenon DEF Live, Started
<1>3. \A f \in Flows : pump["server"][f] \in {"none", "copy", "end", "close", "done"}
  BY Zenon, <1>1 DEF FlowOK
<1>4. \A s \in Sides, f \in Flows : sent[s][f] <= sent[s][f]
  BY <1>1 DEF TypeInv
<1>5. pump \in [Sides -> [Flows -> PumpStates]] /\ sent \in [Sides -> [Flows -> Nat]]
  BY Zenon, <1>1 DEF TypeInv
<1> QED
  BY Zenon, <1>2, <1>3, <1>4, <1>5, Quiet DEF Quietly

\* The steps that touch no session, frame or stream.
LEMMA AsideOK ==
    ASSUME IInv,
           \/ \E s \in Sides :
                \/ ReadFails(s) \/ MonitorCheck(s) \/ MonitorInterrupt(s)
                \/ \E f \in Flows : \E b \in BOOLEAN : ApplicationEnds(s, f, b)
           \/ ProcessReturns \/ BreakLink \/ Cancel \/ UNCHANGED vars
    PROVE  IInv'
<1>1. reading \in [Sides -> BOOLEAN] /\ link \in {"up", "broken"}
  BY Zenon DEF IInv, TypeInv
<1>2. \A s \in Sides : LET r == [reading EXCEPT ![s] = FALSE] IN
         r \in [Sides -> BOOLEAN] /\ \A t \in Sides : r[t] => reading[t]
  BY Zenon, <1>1
<1>3. "server" \in Sides
  BY Zenon, SidesFacts
<1>4. /\ mgr' = mgr /\ queue' = queue /\ sid' = sid /\ closed' = closed
      /\ got' = got /\ pump' = pump /\ sent' = sent
      /\ reading' = reading \/ \E s \in Sides : reading' = [reading EXCEPT ![s] = FALSE]
      /\ link' = link \/ link' = "broken"
  BY Zenon, <1>3 DEF ReadFails, MonitorCheck, MonitorInterrupt, ApplicationEnds,
     ProcessReturns, BreakLink, Cancel, StopReading, vars, workerVars, carrierVars, sessionVars
<1>5. reading' \in [Sides -> BOOLEAN] /\ \A s \in Sides : reading'[s] => reading[s]
  BY Zenon, <1>1, <1>2, <1>4
<1>6. link' \in {"up", "broken"} /\ (link' = "up" => link = "up")
  BY Zenon, <1>1, <1>4
<1> QED
  BY Zenon, <1>4, <1>5, <1>6, Aside

\* One pump goes on and writes nothing.
PumpMoved(s, f, v) ==
    /\ pump' = [pump EXCEPT ![s][f] = v]
    /\ mgr' = mgr
    /\ queue' = queue
    /\ sid' = sid
    /\ closed' = closed
    /\ got' = got
    /\ reading' = reading
    /\ link' = link
    /\ sent' \in [Sides -> [Flows -> Nat]]
    /\ \A t \in Sides, g \in Flows : /\ sent[t][g] <= sent'[t][g]
                                     /\ link = "up" => sent'[t][g] = sent[t][g]
    /\ \/ /\ s = "client" /\ pump[s][f] \in {"none", "checked"}
          /\ v \in {"checked", "rejected"}
       \/ /\ s = "client" /\ pump[s][f] = "allocated" /\ v = "first"
       \/ /\ pump[s][f] \in {"first", "copy", "end", "close"}
          /\ v \in {"end", "close", "done"}

\* Steps of one pump that write nothing.
LEMMA PumpMoves ==
    ASSUME IInv, NEW s \in Sides, NEW f \in Flows, NEW v \in PumpStates,
           PumpMoved(s, f, v)
    PROVE  IInv'
<1> USE DEF PumpMoved
<1>1. TypeInv /\ \A g \in Flows : FlowOK(g)
  BY Zenon DEF IInv, MapInv
<1>2. /\ pump \in [Sides -> [Flows -> PumpStates]]
      /\ reading \in [Sides -> BOOLEAN] /\ link \in {"up", "broken"}
  BY Zenon, <1>1 DEF TypeInv
<1>3. /\ pump' \in [Sides -> [Flows -> PumpStates]] /\ pump'[s][f] = v
      /\ \A g \in Flows : g # f => pump'[s][g] = pump[s][g]
      /\ \A t \in Sides : t # s => pump'[t] = pump[t]
  BY <1>2, Update
<1>4. \A t \in Sides, g \in Flows : Live(t, g)' <=> Live(t, g)
  BY Zenon, <1>3 DEF Live
<1>5. \A g \in Flows : Started(g) => Started(g)'
  BY <1>3, SidesFacts DEF Started
<1>6. \A g \in Flows :
         /\ pump'["server"][g] \in {"none", "copy", "end", "close", "done"}
         /\ pump'["server"][g] = "none" <=> pump["server"][g] = "none"
         /\ pump'["client"][g] = "copy" /\ link' = "up" => pump["client"][g] = "copy"
  BY <1>1, <1>3, SidesFacts DEF FlowOK
<1>7. /\ reading' \in [Sides -> BOOLEAN] /\ \A t \in Sides : reading'[t] => reading[t]
      /\ link' \in {"up", "broken"} /\ (link' = "up" => link = "up")
  BY Zenon, <1>2
<1>8. \A t \in Sides, g \in Flows : /\ sent[t][g] <= sent'[t][g]
                                    /\ link' = "up" => sent'[t][g] = sent[t][g]
  BY Zenon
<1> QED
  BY Zenon, <1>3, <1>4, <1>5, <1>6, <1>7, <1>8, Quiet DEF Quietly

\* client.go, Dispatch: the check for room.
LEMMA DispatchCheckOK == ASSUME IInv, NEW f \in Flows, DispatchCheck(f) PROVE IInv'
<1>1. sent \in [Sides -> [Flows -> Nat]]
  BY Zenon DEF IInv, TypeInv
<1>2. \A t \in Sides, g \in Flows : sent[t][g] <= sent[t][g]
  BY <1>1
<1>3. PICK v \in {"rejected", "checked"} : pump' = [pump EXCEPT !["client"][f] = v]
  BY Zenon DEF DispatchCheck
<1>4. /\ mgr' = mgr /\ queue' = queue /\ sid' = sid /\ closed' = closed
      /\ got' = got /\ reading' = reading /\ link' = link /\ sent' = sent
      /\ pump["client"][f] = "none"
  BY Zenon DEF DispatchCheck, workerVars, carrierVars
<1>5. v \in PumpStates
  BY Zenon, <1>3 DEF PumpStates
<1> QED
  BY Zenon, <1>1, <1>2, <1>3, <1>4, <1>5, SidesFacts, PumpMoves DEF PumpMoved

\* client.go, Dispatch: the session is given its input and output.
LEMMA AttachOK == ASSUME IInv, NEW f \in Flows, DispatchAttach(f) PROVE IInv'
<1>1. sent \in [Sides -> [Flows -> Nat]]
  BY Zenon DEF IInv, TypeInv
<1>2. \A t \in Sides, g \in Flows : sent[t][g] <= sent[t][g]
  BY <1>1
<1>3. pump' = [pump EXCEPT !["client"][f] = "first"]
  BY Zenon DEF DispatchAttach
<1>4. /\ mgr' = mgr /\ queue' = queue /\ sid' = sid /\ closed' = closed
      /\ got' = got /\ reading' = reading /\ link' = link /\ sent' = sent
      /\ pump["client"][f] = "allocated"
  BY Zenon DEF DispatchAttach, workerVars, carrierVars
<1>5. "first" \in PumpStates
  BY Zenon DEF PumpStates
<1> QED
  BY Zenon, <1>1, <1>2, <1>3, <1>4, <1>5, SidesFacts, PumpMoves DEF PumpMoved

\* session.go, Allocate, when the manager is closed or full.
LEMMA AllocateFails ==
    ASSUME IInv, NEW f \in Flows, Allocate(f), ~CanAllocate
    PROVE  IInv'
<1>1. sent \in [Sides -> [Flows -> Nat]]
  BY Zenon DEF IInv, TypeInv
<1>2. \A t \in Sides, g \in Flows : sent[t][g] <= sent[t][g]
  BY <1>1
<1>3. pump' = [pump EXCEPT !["client"][f] = "rejected"]
  BY Zenon DEF Allocate
<1>4. /\ mgr' = mgr /\ queue' = queue /\ sid' = sid /\ closed' = closed
      /\ got' = got /\ reading' = reading /\ link' = link /\ sent' = sent
      /\ pump["client"][f] = "checked"
  BY Zenon DEF Allocate, carrierVars
<1>5. "rejected" \in PumpStates
  BY Zenon DEF PumpStates
<1> QED
  BY Zenon, <1>1, <1>2, <1>3, <1>4, <1>5, SidesFacts, PumpMoves DEF PumpMoved

\* The new identifier is the next number, which no session has.
LEMMA AllocateAdds ==
    ASSUME IdsSuffice, IInv, NEW f \in Flows, Allocate(f), CanAllocate
    PROVE  IInv'
<1>1. TypeInv /\ MapInv /\ \A s \in Sides : SideOK(s)
  BY Zenon DEF IInv
<1>2. "client" \in Sides /\ "server" \in Sides /\ "client" # "server"
  BY Zenon, SidesFacts
<1>3. PICK n : n = mgr["client"].count + 1
  OBVIOUS
<1>4. mgr["client"].count \in Nat /\ ~mgr["client"].closed /\ mgr["client"].count < Ids
  BY Zenon, <1>1, <1>2, MgrTypes DEF CanAllocate, Ids, IdsSuffice
<1>5. (mgr["client"].count + 1) % IdSpace = n /\ n \in Nat /\ n <= Ids
  BY <1>3, <1>4, NoWrap, IdsFit
<1>6. /\ pump["client"][f] = "checked"
      /\ sid' = [sid EXCEPT ![f] = n]
      /\ mgr' = [mgr EXCEPT !["client"].count = n,
                            !["client"].sessions = With(@, n, f)]
      /\ pump' = [pump EXCEPT !["client"][f] = "allocated"]
      /\ reading' = reading /\ queue' = queue /\ link' = link
      /\ closed' = closed /\ sent' = sent /\ got' = got
  BY Zenon, <1>5 DEF Allocate, AllocateID, carrierVars
<1>7. /\ pump \in [Sides -> [Flows -> PumpStates]] /\ sid \in [Flows -> Nat]
      /\ sent \in [Sides -> [Flows -> Nat]]
  BY Zenon, <1>1 DEF TypeInv
<1>8. /\ pump' \in [Sides -> [Flows -> PumpStates]] /\ pump'["client"][f] = "allocated"
      /\ \A g \in Flows : g # f => pump'["client"][g] = pump["client"][g]
      /\ pump'["server"] = pump["server"]
  <2>1. "allocated" \in PumpStates
    BY Zenon DEF PumpStates
  <2> QED
    BY <1>2, <1>6, <1>7, <2>1, Update
<1>9. sid' \in [Flows -> Nat] /\ sid'[f] = n /\ \A g \in Flows : g # f => sid'[g] = sid[g]
  BY Zenon, <1>5, <1>6, <1>7
<1>10. \A g \in Flows : FlowOK(g)
  BY Zenon, <1>1 DEF MapInv
<1>11. ~Live("client", f) /\ ~Started(f) /\ Live("client", f)' /\ ~Started(f)'
  BY Zenon, <1>6, <1>8 DEF Live, Started
<1>12. ~Live("server", f) /\ pump["server"][f] = "none"
  BY Zenon, <1>10, <1>11, ServerStarted DEF FlowOK
<1>13. \A t \in Sides, g \in Flows : t # "client" \/ g # f => (Live(t, g)' <=> Live(t, g))
  BY Zenon, <1>8, SidesFacts DEF Live
<1>14. \A g \in Flows : Started(g)' <=> Started(g)
  BY Zenon, <1>8, <1>11 DEF Started
<1>15. n \notin DOMAIN mgr["client"].sessions
  <2> SUFFICES ASSUME n \in DOMAIN mgr["client"].sessions PROVE FALSE
    OBVIOUS
  <2>1. PICK g \in Flows : g = mgr["client"].sessions[n]
    BY Zenon, <1>1, <1>2, MgrTypes
  <2>2. sid[g] = n /\ Live("client", g)
    BY Zenon, <1>1, <1>2, <2>1 DEF MapInv, EntryOK
  <2>3. n <= mgr["client"].count
    BY Zenon, <1>10, <2>2 DEF FlowOK
  <2> QED
    BY <1>3, <1>4, <2>3
<1>16. \A t \in Sides : Live(t, f) => sid[f] = n
  BY Zenon, <1>11, <1>12, SidesFacts
<1>17. /\ \A t \in Sides : EntryOK(t)'
       /\ \A t \in Sides, g \in Flows : SessionOK(t, g)'
       /\ mgr' \in [Sides -> [sessions : Maps, count : Nat, closed : BOOLEAN]]
       /\ mgr'["client"].count = n
  <2>1. PICK w : w = With(mgr["client"].sessions, n, f)
    OBVIOUS
  <2>2. /\ mgr' \in [Sides -> [sessions : Maps, count : Nat, closed : BOOLEAN]]
        /\ mgr'["client"].sessions = w
        /\ mgr'["client"].count = n
        /\ mgr'["client"].closed = mgr["client"].closed
        /\ \A t \in Sides : t # "client" => mgr'[t] = mgr[t]
    BY Zenon, <1>1, <1>2, <1>5, <1>6, <2>1, MgrAdd DEF Inserted
  <2>3. closed' = closed
    BY Zenon, <1>6
  <2> QED
    BY Zenon, <1>1, <1>2, <1>4, <1>5, <1>9, <1>11, <1>13, <1>15, <1>16, <2>1, <2>2, <2>3,
       MapAdd DEF Added
<1>18. TypeInv'
  BY Zenon, <1>1, <1>6, <1>8, <1>9, <1>17 DEF TypeInv
<1>19. \A g \in Flows : Live("client", g) => sid[g] < n
  BY <1>3, <1>4, <1>7, <1>10 DEF FlowOK
<1>20. \A g \in Flows : FlowOK(g)'
  <2> SUFFICES ASSUME NEW g \in Flows PROVE FlowOK(g)'
    OBVIOUS
  <2>1. Live("client", g)' => sid'[g] <= n
    <3>1. CASE g = f
      BY <1>5, <1>9, <3>1
    <3>2. CASE g # f
      <4>1. Live("client", g)' => Live("client", g)
        BY Zenon, <1>2, <1>13, <3>2
      <4>2. sid[g] \in Nat /\ sid'[g] = sid[g]
        BY Zenon, <1>7, <1>9, <3>2
      <4> QED
        BY <1>5, <1>19, <4>1, <4>2
    <3> QED
      BY Zenon, <3>1, <3>2
  <2>2. /\ pump'["server"][g] \in {"none", "copy", "end", "close", "done"}
        /\ pump'["server"][g] # "none" => Started(g)'
    BY Zenon, <1>8, <1>10, <1>14 DEF FlowOK
  <2> QED
    BY Zenon, <1>17, <2>1, <2>2 DEF FlowOK
<1>21. IdsDiffer'
  <2> SUFFICES ASSUME NEW g \in Flows, NEW h \in Flows,
                      Live("client", g)', Live("client", h)', sid'[g] = sid'[h]
               PROVE  g = h
    BY Zenon DEF IdsDiffer
  <2>1. \A x \in Flows : /\ x = f => sid'[x] = n
                         /\ x # f /\ Live("client", x)' => sid'[x] = sid[x] /\ sid'[x] # n
    BY <1>2, <1>5, <1>7, <1>9, <1>13, <1>19
  <2>2. CASE g = f \/ h = f
    BY Zenon, <2>1, <2>2
  <2>3. CASE g # f /\ h # f
    <3>1. Live("client", g) /\ Live("client", h) /\ sid[g] = sid[h]
      BY Zenon, <1>2, <1>9, <1>13, <2>3
    <3> QED
      BY Zenon, <1>1, <3>1 DEF MapInv, IdsDiffer
  <2> QED
    BY Zenon, <2>2, <2>3
<1>22. MapInv'
  <2>1. mgr'["client"].count <= Ids
    BY Zenon, <1>5, <1>17
  <2> QED
    BY Zenon, <1>17, <1>20, <1>21, <2>1 DEF MapInv, Ids
<1>23. \A s \in Sides : SideOK(s)'
  <2>1. \A g \in Flows : Started(g) => Started(g)' /\ sid'[g] = sid[g]
    BY Zenon, <1>9, <1>11, <1>14
  <2>2. \A g \in Flows :
          /\ pump["server"][g] # "none" => pump'["server"][g] # "none"
          /\ pump'["server"][g] = "none" <=> pump["server"][g] = "none"
          /\ pump'["client"][g] = "copy" /\ link' = "up" => pump["client"][g] = "copy"
    <3>1. "allocated" # "copy"
      OBVIOUS
    <3> QED
      BY Zenon, <1>8, <3>1
  <2>3. \A s \in Sides : /\ queue'[s] = queue[s] /\ got'[s] = got[s] /\ Peer(s) \in Sides
                         /\ \A g \in Flows : closed[s][g] => closed'[s][g]
                         /\ reading'[s] => reading[s]
    BY Zenon, <1>6, SidesFacts
  <2>4. \A s \in Sides, g \in Flows : /\ sent[s][g] <= sent'[s][g]
                                      /\ link' = "up" => sent'[s][g] = sent[s][g]
    BY <1>6, <1>7
  <2>5. link' = "up" => link = "up"
    BY Zenon, <1>6
  <2> QED
    BY Zenon, <1>1, <1>18, <2>1, <2>2, <2>3, <2>4, <2>5, SideSame DEF Kept
<1> QED
  BY Zenon, <1>18, <1>22, <1>23 DEF IInv

\* session.go, Allocate: identifiers stay different while they do not wrap.
LEMMA AllocateOK == ASSUME IdsSuffice, IInv, NEW f \in Flows, Allocate(f) PROVE IInv'
BY Zenon, AllocateFails, AllocateAdds

\* One pump writes the frame x.
PumpWrote(s, f, v, x) ==
    /\ link = "up"
    /\ link' = "up"
    /\ x.flow = f
    /\ x.id = sid[f]
    /\ queue' = [queue EXCEPT ![Peer(s)] = Append(@, x)]
    /\ pump' = [pump EXCEPT ![s][f] = v]
    /\ \/ pump[s][f] = "first" /\ v = "copy" /\ x.status = "New"
       \/ pump[s][f] = "copy" /\ v = "copy" /\ x.status = "Keep" /\ x.pay # <<>>
       \/ pump[s][f] = "end" /\ v = "close" /\ x.status = "End" /\ x.pay = <<>>
    /\ sent' \in [Sides -> [Flows -> Nat]]
    /\ x.pay # <<>> => x.pay = <<f, sent[s][f] + 1>> /\ sent'[s][f] = sent[s][f] + 1
    /\ x.pay = <<>> => sent'[s][f] = sent[s][f]
    /\ \A t \in Sides, g \in Flows : t # s \/ g # f => sent'[t][g] = sent[t][g]
    /\ mgr' = mgr
    /\ sid' = sid
    /\ closed' = closed
    /\ got' = got
    /\ reading' = reading

\* A pump writes a frame of its session to the other side.
LEMMA PumpWrites ==
    ASSUME IInv, NEW s \in Sides, NEW f \in Flows, NEW v \in PumpStates,
           NEW x \in Frames, PumpWrote(s, f, v, x)
    PROVE  IInv'
<1> USE DEF PumpWrote
<1>1. TypeInv /\ MapInv /\ SideOK(s) /\ SideOK(Peer(s))
  BY Zenon, SidesFacts DEF IInv
<1>2. PICK p \in Sides : /\ p = Peer(s) /\ p # s /\ Peer(p) = s
                         /\ \A t \in Sides : t = s \/ t = p
                         /\ (p = "server" <=> s = "client") /\ (p = "client" <=> s = "server")
  BY Zenon DEF Sides, Peer
<1>3. /\ pump \in [Sides -> [Flows -> PumpStates]] /\ sent \in [Sides -> [Flows -> Nat]]
      /\ queue \in [Sides -> Seq(Frames)]
  BY Zenon, <1>1 DEF TypeInv
<1>4. /\ pump' \in [Sides -> [Flows -> PumpStates]] /\ pump'[s][f] = v
      /\ \A g \in Flows : g # f => pump'[s][g] = pump[s][g]
      /\ \A t \in Sides : t # s => pump'[t] = pump[t]
  BY <1>3, Update
<1>5. /\ queue' \in [Sides -> Seq(Frames)] /\ queue'[p] = Append(queue[p], x)
      /\ queue'[s] = queue[s]
  BY <1>2, <1>3
<1>6. TypeInv'
  BY Zenon, <1>1, <1>4, <1>5 DEF TypeInv
<1>7. \A g \in Flows : FlowOK(g)
  BY Zenon, <1>1 DEF MapInv
<1>8. \A t \in Sides, g \in Flows : Live(t, g)' <=> Live(t, g)
  BY Zenon, <1>4 DEF Live
<1>9. \A g \in Flows : Started(g) => Started(g)'
  BY <1>4, SidesFacts DEF Started
<1>10. \A g \in Flows :
         /\ pump'["server"][g] \in {"none", "copy", "end", "close", "done"}
         /\ pump'["server"][g] = "none" <=> pump["server"][g] = "none"
  BY <1>4, <1>7, SidesFacts DEF FlowOK
<1>11. MapInv'
  <2>1. \A g \in Flows : Live("client", g) => sid'[g] = sid[g]
    BY Zenon
  <2> QED
    BY Zenon, <1>1, <1>8, <1>9, <1>10, <2>1, MapSame
<1>12. Started(f)'
  <2>1. CASE s = "client"
    BY Zenon, <1>4, <2>1 DEF Started
  <2>2. CASE s = "server"
    BY Zenon, <1>7, <1>9, <2>2 DEF FlowOK
  <2> QED
    BY Zenon, <2>1, <2>2, SidesFacts
<1>13. x.status = "New" => /\ s = "client" /\ p = "server" /\ ~Started(f)
                           /\ pump["server"][f] = "none"
  BY Zenon, <1>2, <1>7, SidesFacts DEF FlowOK, Started
<1>14. x.pay # <<>> => Num(x) = sent[s][f] + 1 /\ sent'[s][f] = Num(x) /\ x.pay = <<f, Num(x)>>
  BY DEF Num
<1>15. FrameOK(p, x)'
  <2>1. x.id = sid'[x.flow] /\ Started(x.flow)'
    BY Zenon, <1>12
  <2>2. x.status = "New" => p = "server" /\ pump'["server"][x.flow] = "none"
    BY Zenon, <1>10, <1>13
  <2>3. x.status = "Keep" => /\ x.pay # <<>>
                             /\ p = "client" => pump'["server"][x.flow] # "none"
    BY Zenon, <1>2, <1>4
  <2>4. x.status = "End" => x.pay = <<>>
    OBVIOUS
  <2>5. x.pay # <<>> => x.pay = <<x.flow, Num(x)>> /\ Num(x) <= sent'[Peer(p)][x.flow]
    BY <1>2, <1>14
  <2> QED
    BY Zenon, <2>1, <2>2, <2>3, <2>4, <2>5 DEF FrameOK, Num
<1>16. SideOK(p)'
  <2>1. \A g \in Flows : Started(g) => Started(g)' /\ sid'[g] = sid[g]
    BY Zenon, <1>9
  <2>2. \A g \in Flows : pump["server"][g] # "none" => pump'["server"][g] # "none"
    BY Zenon, <1>10
  <2>3. p = "server" =>
           /\ \A g \in Flows :
                /\ pump'["server"][g] = "none" <=> pump["server"][g] = "none"
                /\ pump'["client"][g] = "copy" => pump["client"][g] = "copy" \/ IsNew(x, g)
           /\ x.status = "New" => ~Started(x.flow)
           /\ x.status = "Keep" => \/ pump["client"][x.flow] = "copy"
                                   \/ pump["server"][x.flow] # "none"
    BY <1>2, <1>4, <1>10, <1>13 DEF IsNew
  <2>4. \A g \in Flows :
           IF Data(x, g)
           THEN Num(x) = sent[Peer(p)][g] + 1 /\ sent'[Peer(p)][g] = Num(x)
           ELSE sent'[Peer(p)][g] = sent[Peer(p)][g]
    BY Zenon, <1>2, <1>14 DEF Data
  <2>5. /\ got'[p] = got[p] /\ reading'[p] = reading[p]
        /\ \A g \in Flows : closed'[p][g] = closed[p][g]
    OBVIOUS
  <2>6. SideOK(p)
    BY Zenon, <1>1, <1>2
  <2> QED
    BY Zenon, <1>1, <1>5, <1>6, <1>15, <2>1, <2>2, <2>3, <2>4, <2>5, <2>6, SidePush DEF Pushed
<1>17. SideOK(s)'
  <2>1. \A g \in Flows : Started(g) => Started(g)' /\ sid'[g] = sid[g]
    BY Zenon, <1>9
  <2>2. \A g \in Flows : pump["server"][g] # "none" => pump'["server"][g] # "none"
    BY Zenon, <1>10
  <2>3. s = "server" => \A g \in Flows :
           /\ pump'["server"][g] = "none" <=> pump["server"][g] = "none"
           /\ pump'["client"][g] = "copy" /\ link' = "up" => pump["client"][g] = "copy"
    BY Zenon, <1>4, <1>10, SidesFacts
  <2>4. \A g \in Flows : /\ sent[Peer(s)][g] <= sent'[Peer(s)][g]
                         /\ link' = "up" => sent'[Peer(s)][g] = sent[Peer(s)][g]
    BY <1>2, <1>3
  <2>5. /\ got'[s] = got[s] /\ (reading'[s] => reading[s]) /\ (link' = "up" => link = "up")
        /\ \A g \in Flows : closed[s][g] => closed'[s][g]
    BY Zenon
  <2> QED
    BY Zenon, <1>1, <1>5, <1>6, <2>1, <2>2, <2>3, <2>4, <2>5, SideSame DEF Kept
<1>18. \A t \in Sides : SideOK(t)'
  BY Zenon, <1>2, <1>16, <1>17
<1> QED
  BY Zenon, <1>6, <1>11, <1>18 DEF IInv

\* The frame that a writer builds.
LEMMA FrameType ==
    ASSUME TypeInv, NEW f \in Flows, NEW status \in {"New", "Keep", "End"},
           NEW pay \in {<<>>} \cup (Flows \X Nat), NEW x, x = Frame(f, status, pay)
    PROVE  /\ x \in Frames /\ x.flow = f /\ x.id = sid[f] /\ x.status = status
           /\ x.pay = pay
BY Zenon DEF Frame, Frames, TypeInv

\* client.go fetchInput, server.go handle: the End frame of a session.
LEMMA PumpEndOK ==
    ASSUME IInv, NEW s \in Sides, NEW f \in Flows, PumpEnd(s, f)
    PROVE  IInv'
<1>1. TypeInv /\ link \in {"up", "broken"} /\ sent \in [Sides -> [Flows -> Nat]]
  BY Zenon DEF IInv, TypeInv
<1>2. /\ mgr' = mgr /\ sid' = sid /\ closed' = closed /\ got' = got
      /\ reading' = reading /\ link' = link /\ sent' = sent
      /\ pump[s][f] = "end" /\ pump' = [pump EXCEPT ![s][f] = "close"]
  BY Zenon DEF PumpEnd, workerVars
<1>3. "close" \in PumpStates
  BY Zenon DEF PumpStates
<1>4. \A t \in Sides, g \in Flows : sent[t][g] <= sent[t][g]
  BY <1>1
<1>5. CASE link = "broken"
  <2>1. queue' = queue
    BY Zenon, <1>5 DEF PumpEnd, WriteFrame
  <2> QED
    BY Zenon, <1>1, <1>2, <1>3, <1>4, <2>1, PumpMoves DEF PumpMoved
<1>6. CASE link = "up"
  <2>1. PICK x : x = Frame(f, "End", <<>>)
    OBVIOUS
  <2>2. queue' = [queue EXCEPT ![Peer(s)] = Append(@, x)]
    BY Zenon, <1>6, <2>1 DEF PumpEnd, WriteFrame
  <2>3. /\ x \in Frames /\ x.flow = f /\ x.id = sid[f] /\ x.status = "End"
        /\ x.pay = <<>>
    BY <1>1, <2>1, FrameType
  <2> QED
    BY Zenon, <1>1, <1>2, <1>3, <1>6, <2>2, <2>3, PumpWrites DEF PumpWrote
<1> QED
  BY Zenon, <1>1, <1>5, <1>6

\* client.go fetchInput, server.go handle: a frame with a payload.
LEMMA PumpCopyOK ==
    ASSUME IInv, NEW s \in Sides, NEW f \in Flows, PumpCopy(s, f)
    PROVE  IInv'
<1>1. TypeInv /\ link \in {"up", "broken"} /\ sent \in [Sides -> [Flows -> Nat]]
  BY Zenon DEF IInv, TypeInv
<1>2. /\ mgr' = mgr /\ sid' = sid /\ closed' = closed /\ got' = got
      /\ reading' = reading /\ link' = link /\ pump[s][f] \in {"first", "copy"}
  BY Zenon DEF PumpCopy, workerVars
<1>3. "end" \in PumpStates /\ "copy" \in PumpStates
  BY Zenon DEF PumpStates
<1>4. sent[s][f] \in Nat /\ \A t \in Sides, g \in Flows : sent[t][g] <= sent[t][g]
  BY <1>1
<1>5. CASE /\ sent' = [sent EXCEPT ![s][f] = @ + 1]
           /\ WriteFrame(s, Frame(f, NextStatus(s, f), <<f, sent[s][f] + 1>>))
           /\ pump' = [pump EXCEPT ![s][f] = IF link = "broken" THEN "end" ELSE "copy"]
  <2>1. /\ sent' \in [Sides -> [Flows -> Nat]] /\ sent'[s][f] = sent[s][f] + 1
        /\ \A t \in Sides, g \in Flows : t # s \/ g # f => sent'[t][g] = sent[t][g]
        /\ \A t \in Sides, g \in Flows : sent[t][g] <= sent'[t][g]
    BY <1>1, <1>4, <1>5
  <2>2. CASE link = "broken"
    <3>1. queue' = queue /\ pump' = [pump EXCEPT ![s][f] = "end"]
      BY Zenon, <1>5, <2>2 DEF WriteFrame
    <3>2. \A t \in Sides, g \in Flows : /\ sent[t][g] <= sent'[t][g]
                                        /\ link = "up" => sent'[t][g] = sent[t][g]
      BY Zenon, <2>1, <2>2
    <3> QED
      BY Zenon, <1>2, <1>3, <2>1, <3>1, <3>2, PumpMoves DEF PumpMoved
  <2>3. CASE link = "up"
    <3>1. PICK x : x = Frame(f, NextStatus(s, f), <<f, sent[s][f] + 1>>)
      OBVIOUS
    <3>2. queue' = [queue EXCEPT ![Peer(s)] = Append(@, x)]
      BY Zenon, <1>5, <2>3, <3>1 DEF WriteFrame
    <3>3. PICK st \in {"New", "Keep"} : st = NextStatus(s, f)
      BY Zenon DEF NextStatus
    <3>4. st \in {"New", "Keep", "End"} /\ <<f, sent[s][f] + 1>> \in {<<>>} \cup (Flows \X Nat)
      BY <1>4
    <3>5. /\ x \in Frames /\ x.flow = f /\ x.id = sid[f] /\ x.status = st
          /\ x.pay = <<f, sent[s][f] + 1>>
      BY <1>1, <3>1, <3>3, <3>4, FrameType
    <3>6. x.pay # <<>>
      BY <3>5
    <3>7. \/ pump[s][f] = "first" /\ x.status = "New"
          \/ pump[s][f] = "copy" /\ x.status = "Keep"
      BY Zenon, <1>2, <3>3, <3>5 DEF NextStatus
    <3>8. pump' = [pump EXCEPT ![s][f] = "copy"] /\ link' = "up"
      BY Zenon, <1>2, <1>5, <2>3
    <3> QED
      BY Zenon, <1>2, <1>3, <2>1, <2>3, <3>2, <3>5, <3>6, <3>7, <3>8, PumpWrites DEF PumpWrote
  <2> QED
    BY Zenon, <1>1, <2>2, <2>3
<1>6. CASE /\ pump[s][f] = "first" /\ WriteFrame(s, Frame(f, "New", <<>>))
           /\ pump' = [pump EXCEPT ![s][f] = IF link = "broken" THEN "end" ELSE "copy"]
           /\ sent' = sent
  <2>1. CASE link = "broken"
    <3>1. queue' = queue /\ pump' = [pump EXCEPT ![s][f] = "end"]
      BY Zenon, <1>6, <2>1 DEF WriteFrame
    <3> QED
      BY Zenon, <1>1, <1>2, <1>3, <1>4, <1>6, <2>1, <3>1, PumpMoves DEF PumpMoved
  <2>2. CASE link = "up"
    <3>1. PICK x : x = Frame(f, "New", <<>>)
      OBVIOUS
    <3>2. queue' = [queue EXCEPT ![Peer(s)] = Append(@, x)]
      BY Zenon, <1>6, <2>2, <3>1 DEF WriteFrame
    <3>3. /\ x \in Frames /\ x.flow = f /\ x.id = sid[f] /\ x.status = "New"
          /\ x.pay = <<>>
      BY <1>1, <3>1, FrameType
    <3>4. pump' = [pump EXCEPT ![s][f] = "copy"] /\ link' = "up"
      BY Zenon, <1>2, <1>6, <2>2
    <3>5. /\ sent' \in [Sides -> [Flows -> Nat]] /\ pump[s][f] = "first"
          /\ \A t \in Sides, g \in Flows : sent'[t][g] = sent[t][g]
      BY Zenon, <1>1, <1>6
    <3> QED
      BY Zenon, <1>2, <1>3, <2>2, <3>2, <3>3, <3>4, <3>5, PumpWrites DEF PumpWrote
  <2> QED
    BY Zenon, <1>1, <2>1, <2>2
<1>7. CASE pump' = [pump EXCEPT ![s][f] = "end"] /\ sent' = sent /\ queue' = queue
  BY Zenon, <1>1, <1>2, <1>3, <1>4, <1>7, PumpMoves DEF PumpMoved
<1> QED
  BY Zenon, <1>5, <1>6, <1>7 DEF PumpCopy

\* client.go fetchInput, server.go handle: the session is closed at the end.
LEMMA PumpCloseOK ==
    ASSUME IInv, NEW s \in Sides, NEW f \in Flows, PumpClose(s, f)
    PROVE  IInv'
<1>1. TypeInv /\ MapInv /\ \A t \in Sides : SideOK(t)
  BY Zenon DEF IInv
<1>2. /\ pump[s][f] = "close" /\ CloseSession(s, f)
      /\ pump' = [pump EXCEPT ![s][f] = "done"]
      /\ sid' = sid /\ sent' = sent /\ got' = got /\ reading' = reading
      /\ queue' = queue /\ link' = link
  BY Zenon DEF PumpClose, carrierVars
<1>3. pump \in [Sides -> [Flows -> PumpStates]] /\ sent \in [Sides -> [Flows -> Nat]]
  BY Zenon, <1>1 DEF TypeInv
<1>4. /\ pump' \in [Sides -> [Flows -> PumpStates]] /\ pump'[s][f] = "done"
      /\ \A g \in Flows : g # f => pump'[s][g] = pump[s][g]
      /\ \A t \in Sides : t # s => pump'[t] = pump[t]
  <2>1. "done" \in PumpStates
    BY Zenon DEF PumpStates
  <2> QED
    BY <1>2, <1>3, <2>1, Update
<1>5. \A t \in Sides, g \in Flows : Live(t, g)' <=> Live(t, g)
  BY Zenon, <1>2, <1>4 DEF Live
<1>6. \A g \in Flows : Started(g) => Started(g)'
  BY Zenon, <1>2, <1>4, SidesFacts DEF Started
<1>7. \A g \in Flows :
         /\ pump'["server"][g] \in {"none", "copy", "end", "close", "done"}
         /\ pump'["server"][g] = "none" <=> pump["server"][g] = "none"
         /\ pump'["client"][g] = "copy" /\ link' = "up" => pump["client"][g] = "copy"
  BY <1>1, <1>2, <1>4, SidesFacts DEF MapInv, FlowOK
<1>8. Live(s, f)
  BY Zenon, <1>2 DEF Live
<1>9. /\ MapInv'
      /\ mgr' \in [Sides -> [sessions : Maps, count : Nat, closed : BOOLEAN]]
      /\ closed' \in [Sides -> [Flows -> BOOLEAN]]
      /\ \A t \in Sides, g \in Flows : closed[t][g] => closed'[t][g]
  <2>1. CloseSession(s, f) /\ sid' = sid
    BY Zenon, <1>2
  <2> QED
    BY Zenon, <1>1, <1>5, <1>6, <1>7, <1>8, <2>1, MapClose
<1>10. TypeInv'
  BY Zenon, <1>1, <1>2, <1>4, <1>9 DEF TypeInv
<1>11. \A t \in Sides : SideOK(t)'
  <2>1. \A t \in Sides : Peer(t) \in Sides
    BY Zenon, SidesFacts
  <2>2. \A t \in Sides, g \in Flows : /\ sent[t][g] <= sent'[t][g]
                                      /\ link' = "up" => sent'[t][g] = sent[t][g]
    BY <1>2, <1>3
  <2>3. /\ \A g \in Flows : Started(g) => Started(g)' /\ sid'[g] = sid[g]
        /\ \A g \in Flows : pump["server"][g] # "none" => pump'["server"][g] # "none"
    BY Zenon, <1>2, <1>6, <1>7
  <2>4. /\ \A t \in Sides : queue'[t] = queue[t] /\ got'[t] = got[t] /\ (reading'[t] => reading[t])
        /\ link' = "up" => link = "up"
    BY Zenon, <1>2
  <2> QED
    BY Zenon, <1>1, <1>7, <1>9, <1>10, <2>1, <2>2, <2>3, <2>4, SideSame DEF Kept
<1> QED
  BY Zenon, <1>9, <1>10, <1>11 DEF IInv

\* The frame that an end reads next belongs to a session the client started.
LEMMA HeadFacts ==
    ASSUME IInv, NEW s \in Sides, queue[s] # <<>>, NEW h, h = Head(queue[s])
    PROVE  /\ h \in Frames /\ h.flow \in Flows /\ h.id \in Nat /\ h.id = sid[h.flow]
           /\ FrameOK(s, h) /\ Live("client", h.flow)
           /\ queue[s] \in Seq(Frames) /\ Tail(queue[s]) \in Seq(Frames)
<1>1. queue[s] \in Seq(Frames)
  BY Zenon DEF IInv, TypeInv
<1>2. h \in Frames /\ h \in Range(queue[s]) /\ Tail(queue[s]) \in Seq(Frames)
  BY Zenon, <1>1, TailFacts, RangeFacts
<1>3. h.flow \in Flows /\ h.id \in Nat
  BY Zenon, <1>2 DEF Frames
<1>4. FrameOK(s, h)
  BY Zenon, <1>2 DEF IInv, SideOK
<1>5. h.id = sid[h.flow] /\ Live("client", h.flow)
  BY Zenon, <1>4, StartedLives DEF FrameOK
<1> QED
  BY Zenon, <1>1, <1>2, <1>3, <1>4, <1>5

\* The session found under a frame's identifier is the frame's own.
LEMMA FoundIsOwn ==
    ASSUME IInv, NEW s \in Sides, queue[s] # <<>>, NEW h, h = Head(queue[s]), Found(s, h.id)
    PROVE  mgr[s].sessions[h.id] = h.flow /\ Live(s, h.flow) /\ ~closed[s][h.flow]
<1>1. TypeInv /\ MapInv
  BY Zenon DEF IInv
<1>2. h.flow \in Flows /\ h.id = sid[h.flow] /\ Live("client", h.flow)
  BY Zenon, HeadFacts
<1>3. PICK g \in Flows : g = mgr[s].sessions[h.id]
  BY Zenon, <1>1, MgrTypes DEF Found
<1>4. sid[g] = h.id /\ Live(s, g) /\ ~closed[s][g]
  BY Zenon, <1>1, <1>3 DEF MapInv, EntryOK, Found
<1>5. h.flow = g
  <2>1. sid[h.flow] = sid[g]
    BY Zenon, <1>2, <1>4
  <2> QED
    BY Zenon, <1>1, <1>2, <1>4, <2>1, SameId
<1> QED
  BY Zenon, <1>3, <1>4, <1>5

\* A frame of a session that is not in the map is of a closed one.
LEMMA NotFoundIsClosed ==
    ASSUME IInv, NEW s \in Sides, queue[s] # <<>>, NEW h, h = Head(queue[s]),
           reading[s], h.status = "Keep", ~Found(s, h.id)
    PROVE  closed[s][h.flow]
<1>1. MapInv /\ SideOK(s) /\ h.flow \in Flows /\ h.id = sid[h.flow] /\ FrameOK(s, h)
  BY Zenon, HeadFacts DEF IInv
<1>2. Live("client", h.flow) /\ Live(s, h.flow)
  <2>1. CASE s = "client"
    BY Zenon, <2>1, HeadFacts
  <2>2. CASE s = "server"
    <3>1. NewOK
      BY Zenon, <1>1, <2>2 DEF SideOK
    <3>2. pump["server"][h.flow] # "none"
      <4> SUFFICES ASSUME pump["server"][h.flow] = "none" PROVE FALSE
        OBVIOUS
      <4>1. queue["server"] \in Seq(Frames) /\ 1 \in 1 .. Len(queue["server"])
            /\ queue["server"][1] = h
        <5>1. queue[s] \in Seq(Frames)
          BY Zenon, HeadFacts
        <5> QED
          BY <2>2, <5>1
      <4>2. PICK i \in 1 .. Len(queue["server"]) : i < 1
        BY Zenon, <2>2, <3>1, <4>1 DEF NewOK
      <4> QED
        BY <4>2
    <3>3. pump["server"][h.flow] \in {"none", "copy", "end", "close", "done"}
      BY Zenon, <1>1 DEF MapInv, FlowOK
    <3>4. Live("server", h.flow)
      BY Zenon, <3>2, <3>3 DEF Live
    <3> QED
      BY Zenon, <2>2, <3>4, HeadFacts
  <2> QED
    BY Zenon, <2>1, <2>2, SidesFacts
<1> QED
  BY Zenon, <1>1, <1>2 DEF MapInv, SessionOK, Found

\* Only the queue, the outputs and the closed sessions of side s change.
PopsOnly(s, h) ==
    /\ queue'[s] = Tail(queue[s])
    /\ pump' = pump
    /\ sid' = sid
    /\ sent' = sent
    /\ link' = link
    /\ reading' = reading
    /\ reading[s]
    /\ h.status # "New"
    /\ \A f \in Flows : closed[s][f] => closed'[s][f]
    /\ Taken(s, h)

\* A frame that is taken and dropped keeps the queue and the streams in order.
LEMMA Pops ==
    ASSUME TypeInv, TypeInv', NEW s \in Sides, SideOK(s), queue[s] # <<>>, NEW h,
           h = Head(queue[s]), PopsOnly(s, h)
    PROVE  SideOK(s)'
<1> USE DEF PopsOnly
<1>1. /\ \A f \in Flows : Started(f) => Started(f)' /\ sid'[f] = sid[f]
      /\ \A f \in Flows : pump'["client"][f] = pump["client"][f]
      /\ reading'[s] => reading[s]
      /\ \A f \in Flows : sent'[Peer(s)][f] = sent[Peer(s)][f]
  BY Zenon DEF Started
<1>2. \A f \in Flows :
         /\ pump["server"][f] # "none" => pump'["server"][f] # "none"
         /\ pump["server"][f] = "none" /\ ~IsNew(h, f) => pump'["server"][f] = "none"
         /\ IsNew(h, f) => pump'["server"][f] # "none" \/ ~reading'["server"]
  BY Zenon DEF IsNew
<1> QED
  BY Zenon, <1>1, <1>2, SidePop DEF Popped

\* Closing sessions disturbs neither the queue nor the streams of an end.
LEMMA Stays ==
    ASSUME TypeInv, TypeInv', NEW s \in Sides, SideOK(s),
           queue'[s] = queue[s], got'[s] = got[s],
           pump' = pump, sid' = sid, sent' = sent, link' = link, reading' = reading,
           \A f \in Flows : closed[s][f] => closed'[s][f]
    PROVE  SideOK(s)'
<1>1. /\ \A f \in Flows : Started(f) => Started(f)' /\ sid'[f] = sid[f]
      /\ \A f \in Flows : pump["server"][f] # "none" => pump'["server"][f] # "none"
      /\ s = "server" => \A f \in Flows :
              /\ pump'["server"][f] = "none" <=> pump["server"][f] = "none"
              /\ pump'["client"][f] = "copy" /\ link' = "up" => pump["client"][f] = "copy"
      /\ reading'[s] => reading[s]
      /\ link' = "up" => link = "up"
  BY Zenon DEF Started
<1>2. \A f \in Flows : /\ sent[Peer(s)][f] <= sent'[Peer(s)][f]
                       /\ link' = "up" => sent'[Peer(s)][f] = sent[Peer(s)][f]
  <2>1. sent \in [Sides -> [Flows -> Nat]] /\ Peer(s) \in Sides
    BY Zenon, SidesFacts DEF TypeInv
  <2> QED
    BY <2>1
<1> QED
  BY Zenon, <1>1, <1>2, SideSame DEF Kept

\* The map is as it was, or the session f of side s has been closed.
ClosedOrSame(s, f) ==
    /\ CloseSession(s, f) \/ (mgr' = mgr /\ closed' = closed)
    /\ pump' = pump
    /\ sid' = sid

\* The map is as it was, or the session f of side s has been closed.
LEMMA SameOrClosed ==
    ASSUME TypeInv, MapInv, NEW s \in Sides, NEW f \in Flows, Live(s, f),
           ClosedOrSame(s, f)
    PROVE  /\ MapInv'
           /\ mgr' \in [Sides -> [sessions : Maps, count : Nat, closed : BOOLEAN]]
           /\ closed' \in [Sides -> [Flows -> BOOLEAN]]
           /\ \A t \in Sides, g \in Flows : closed[t][g] => closed'[t][g]
           /\ CloseSession(s, f) => closed'[s][f]
<1> USE DEF ClosedOrSame
<1>1. /\ \A t \in Sides, g \in Flows : Live(t, g)' <=> Live(t, g)
      /\ \A g \in Flows : Started(g) => Started(g)'
      /\ \A g \in Flows : Live("client", g) => sid'[g] = sid[g]
  BY Zenon DEF Live, Started
<1>2. \A g \in Flows :
         /\ pump'["server"][g] \in {"none", "copy", "end", "close", "done"}
         /\ pump'["server"][g] = "none" <=> pump["server"][g] = "none"
  BY Zenon DEF MapInv, FlowOK
<1>3. CASE CloseSession(s, f)
  BY Zenon, <1>1, <1>2, <1>3, MapClose
<1>4. CASE ~CloseSession(s, f)
  <2>1. mgr' = mgr /\ closed' = closed
    BY Zenon, <1>4
  <2>2. MapInv'
    BY Zenon, <1>1, <1>2, <2>1, MapSame
  <2>3. /\ mgr' \in [Sides -> [sessions : Maps, count : Nat, closed : BOOLEAN]]
        /\ closed' \in [Sides -> [Flows -> BOOLEAN]]
        /\ \A t \in Sides, g \in Flows : closed[t][g] => closed'[t][g]
    BY Zenon, <2>1 DEF TypeInv
  <2> QED
    BY Zenon, <1>4, <2>2, <2>3
<1> QED
  BY Zenon, <1>3, <1>4

\* What reading a frame does to the queues.
LEMMA QueueTakes ==
    ASSUME IInv, NEW s \in Sides, queue[s] # <<>>, queue' = [queue EXCEPT ![s] = Tail(@)]
    PROVE  /\ queue' \in [Sides -> Seq(Frames)] /\ queue'[s] = Tail(queue[s])
           /\ \A t \in Sides : t # s => queue'[t] = queue[t]
<1>1. Tail(queue[s]) \in Seq(Frames)
  BY Zenon, HeadFacts
<1>2. queue \in [Sides -> Seq(Frames)]
  BY Zenon DEF IInv, TypeInv
<1> QED
  BY Zenon, <1>1, <1>2

\* A reader takes the frame h and leaves the pumps alone.
ReaderTook(s, h) ==
    /\ reading[s]
    /\ h.status # "New"
    /\ queue' \in [Sides -> Seq(Frames)]
    /\ queue'[s] = Tail(queue[s])
    /\ \A t \in Sides : t # s => queue'[t] = queue[t]
    /\ pump' = pump
    /\ sid' = sid
    /\ sent' = sent
    /\ link' = link
    /\ reading' = reading
    /\ got' \in [Sides -> [Flows -> Seq(Flows \X Nat)]]
    /\ \A t \in Sides : t # s => got'[t] = got[t]
    /\ MapInv'
    /\ mgr' \in [Sides -> [sessions : Maps, count : Nat, closed : BOOLEAN]]
    /\ closed' \in [Sides -> [Flows -> BOOLEAN]]
    /\ \A t \in Sides, g \in Flows : closed[t][g] => closed'[t][g]
    /\ Taken(s, h)

\* One round of a reader that leaves the pumps alone.
LEMMA ReaderTakes ==
    ASSUME IInv, NEW s \in Sides, queue[s] # <<>>, NEW h, h = Head(queue[s]),
           ReaderTook(s, h)
    PROVE  IInv'
<1> USE DEF ReaderTook
<1>1. TypeInv /\ \A t \in Sides : SideOK(t)
  BY Zenon DEF IInv
<1>4. TypeInv'
  BY Zenon, <1>1 DEF TypeInv
<1>5. SideOK(s)'
  BY Zenon, <1>1, <1>4, Pops DEF PopsOnly
<1>6. \A t \in Sides : t # s => SideOK(t)'
  BY Zenon, <1>1, <1>4, Stays
<1> QED
  BY Zenon, <1>4, <1>5, <1>6 DEF IInv

\* handleStatusKeep, for a session that is known.
LEMMA KeepOK == ASSUME IInv, NEW s \in Sides, Keep(s) PROVE IInv'
<1>1. PICK h : h = Head(queue[s])
  OBVIOUS
<1>2. /\ queue[s] # <<>> /\ reading[s] /\ h.status = "Keep" /\ Found(s, h.id)
      /\ queue' = [queue EXCEPT ![s] = Tail(@)]
      /\ pump' = pump /\ sid' = sid /\ sent' = sent /\ link' = link /\ reading' = reading
  BY Zenon, <1>1 DEF Keep, Take
<1>3. PICK f \in Flows : f = h.flow
  BY Zenon, <1>1, <1>2, HeadFacts
<1>4. mgr[s].sessions[h.id] = f /\ Live(s, f) /\ ~closed[s][f]
  BY Zenon, <1>1, <1>2, <1>3, FoundIsOwn
<1>5. \/ /\ got' = [got EXCEPT ![s][f] = Append(@, h.pay)]
         /\ mgr' = mgr /\ closed' = closed
      \/ CloseSession(s, f) /\ got' = got
  BY Zenon, <1>1, <1>4 DEF Keep
<1>6. TypeInv /\ MapInv
  BY Zenon DEF IInv
<1>7. /\ MapInv'
      /\ mgr' \in [Sides -> [sessions : Maps, count : Nat, closed : BOOLEAN]]
      /\ closed' \in [Sides -> [Flows -> BOOLEAN]]
      /\ \A t \in Sides, g \in Flows : closed[t][g] => closed'[t][g]
      /\ CloseSession(s, f) => closed'[s][f]
  <2>1. CloseSession(s, f) \/ (mgr' = mgr /\ closed' = closed)
    BY Zenon, <1>5
  <2>2. pump' = pump /\ sid' = sid
    BY Zenon, <1>2
  <2> QED
    BY Zenon, <1>4, <1>6, <2>1, <2>2, SameOrClosed DEF ClosedOrSame
<1>8. h.pay # <<>> /\ h.pay \in Flows \X Nat
  <2>1. h \in Frames /\ FrameOK(s, h)
    BY Zenon, <1>1, <1>2, HeadFacts
  <2>2. h.pay # <<>>
    BY Zenon, <1>2, <2>1 DEF FrameOK
  <2> QED
    BY Zenon, <2>1, <2>2 DEF Frames
<1>9. \A g \in Flows : Data(h, g) <=> g = f
  BY Zenon, <1>3, <1>8 DEF Data
<1>10. got \in [Sides -> [Flows -> Seq(Flows \X Nat)]]
  BY Zenon, <1>6 DEF TypeInv
<1>11. /\ got' \in [Sides -> [Flows -> Seq(Flows \X Nat)]]
       /\ \A t \in Sides : t # s => got'[t] = got[t]
       /\ Taken(s, h)
  <2>1. CASE got' = [got EXCEPT ![s][f] = Append(@, h.pay)]
    <3>1. PICK v : v = Append(got[s][f], h.pay)
      BY Zenon
    <3>2. v \in Seq(Flows \X Nat)
      BY <1>8, <1>10, <3>1
    <3>3. got' = [got EXCEPT ![s][f] = v]
      BY Zenon, <2>1, <3>1
    <3>4. /\ got' \in [Sides -> [Flows -> Seq(Flows \X Nat)]] /\ got'[s][f] = v
          /\ \A g \in Flows : g # f => got'[s][g] = got[s][g]
          /\ \A t \in Sides : t # s => got'[t] = got[t]
      BY <1>10, <3>2, <3>3, Update
    <3> QED
      BY Zenon, <1>2, <1>4, <1>9, <3>1, <3>4 DEF Taken
  <2>2. CASE CloseSession(s, f) /\ got' = got
    <3>1. closed'[s][f]
      BY Zenon, <1>7, <2>2
    <3> QED
      BY Zenon, <1>9, <1>10, <2>2, <3>1 DEF Taken
  <2> QED
    BY Zenon, <1>5, <2>1, <2>2
<1>12. h.status # "New"
  BY Zenon, <1>2
<1>13. /\ pump' = pump /\ sid' = sid /\ sent' = sent /\ link' = link /\ reading' = reading
       /\ queue[s] # <<>> /\ reading[s]
  BY Zenon, <1>2
<1>14. /\ queue' \in [Sides -> Seq(Frames)] /\ queue'[s] = Tail(queue[s])
       /\ \A t \in Sides : t # s => queue'[t] = queue[t]
  BY Zenon, <1>2, QueueTakes
<1> QED
  BY Zenon, <1>1, <1>7, <1>11, <1>12, <1>13, <1>14, ReaderTakes DEF ReaderTook

\* handleStatusEnd.
LEMMA EndOK == ASSUME IInv, NEW s \in Sides, End(s) PROVE IInv'
<1>1. PICK h : h = Head(queue[s])
  OBVIOUS
<1>2. /\ queue[s] # <<>> /\ reading[s] /\ h.status = "End"
      /\ queue' = [queue EXCEPT ![s] = Tail(@)]
      /\ pump' = pump /\ sid' = sid /\ sent' = sent /\ link' = link /\ reading' = reading
      /\ got' = got
  BY Zenon, <1>1 DEF End, Take
<1>3. TypeInv /\ MapInv
  BY Zenon DEF IInv
<1>4. /\ MapInv'
      /\ mgr' \in [Sides -> [sessions : Maps, count : Nat, closed : BOOLEAN]]
      /\ closed' \in [Sides -> [Flows -> BOOLEAN]]
      /\ \A t \in Sides, g \in Flows : closed[t][g] => closed'[t][g]
  <2>1. PICK f \in Flows : f = h.flow
    BY Zenon, <1>1, <1>2, HeadFacts
  <2>2. CASE Found(s, h.id)
    <3>1. mgr[s].sessions[h.id] = f /\ Live(s, f)
      BY Zenon, <1>1, <1>2, <2>1, <2>2, FoundIsOwn
    <3>2. CloseSession(s, f) /\ pump' = pump /\ sid' = sid
      BY Zenon, <1>1, <1>2, <2>2, <3>1 DEF End
    <3> QED
      BY Zenon, <1>3, <3>1, <3>2, SameOrClosed DEF ClosedOrSame
  <2>3. CASE ~Found(s, h.id)
    <3>1. mgr' = mgr /\ closed' = closed /\ pump' = pump /\ sid' = sid
      BY Zenon, <1>1, <1>2, <2>3 DEF End
    <3>2. /\ \A t \in Sides, g \in Flows : Live(t, g)' <=> Live(t, g)
          /\ \A g \in Flows : Started(g) => Started(g)'
          /\ \A g \in Flows : Live("client", g) => sid'[g] = sid[g]
      BY Zenon, <3>1 DEF Live, Started
    <3>3. \A g \in Flows :
             /\ pump'["server"][g] \in {"none", "copy", "end", "close", "done"}
             /\ pump'["server"][g] = "none" <=> pump["server"][g] = "none"
      BY Zenon, <1>3, <3>1 DEF MapInv, FlowOK
    <3>4. MapInv'
      BY Zenon, <1>3, <3>1, <3>2, <3>3, MapSame
    <3>5. /\ mgr' \in [Sides -> [sessions : Maps, count : Nat, closed : BOOLEAN]]
          /\ closed' \in [Sides -> [Flows -> BOOLEAN]]
          /\ \A t \in Sides, g \in Flows : closed[t][g] => closed'[t][g]
      BY Zenon, <1>3, <3>1 DEF TypeInv
    <3> QED
      BY Zenon, <3>4, <3>5
  <2> QED
    BY Zenon, <2>2, <2>3
<1>5. \A g \in Flows : ~Data(h, g)
  <2>1. FrameOK(s, h)
    BY Zenon, <1>1, <1>2, HeadFacts
  <2> QED
    BY Zenon, <1>2, <2>1 DEF FrameOK, Data
<1>6. /\ got' \in [Sides -> [Flows -> Seq(Flows \X Nat)]]
      /\ \A t \in Sides : t # s => got'[t] = got[t]
      /\ Taken(s, h)
  BY Zenon, <1>2, <1>3, <1>5 DEF TypeInv, Taken
<1>7. h.status # "New"
  BY Zenon, <1>2
<1>8. /\ pump' = pump /\ sid' = sid /\ sent' = sent /\ link' = link /\ reading' = reading
      /\ queue[s] # <<>> /\ reading[s]
  BY Zenon, <1>2
<1>9. /\ queue' \in [Sides -> Seq(Frames)] /\ queue'[s] = Tail(queue[s])
      /\ \A t \in Sides : t # s => queue'[t] = queue[t]
  BY Zenon, <1>2, QueueTakes
<1> QED
  BY Zenon, <1>1, <1>4, <1>6, <1>7, <1>8, <1>9, ReaderTakes DEF ReaderTook

\* handleStatusKeep, for a session that is not known: an End frame goes back.
LEMMA KeepUnknownOK == ASSUME IInv, NEW s \in Sides, KeepUnknown(s) PROVE IInv'
<1>1. PICK h : h = Head(queue[s])
  OBVIOUS
<1>2. PICK x : x = [h EXCEPT !.status = "End", !.pay = <<>>, !.reply = TRUE]
  OBVIOUS
<1>3. /\ queue[s] # <<>> /\ reading[s] /\ h.status = "Keep" /\ ~Found(s, h.id)
      /\ mgr' = mgr /\ closed' = closed /\ got' = got
      /\ pump' = pump /\ sid' = sid /\ sent' = sent /\ link' = link /\ reading' = reading
  BY Zenon, <1>1 DEF KeepUnknown, Take, workerVars, sessionVars
<1>4. TypeInv /\ MapInv /\ \A t \in Sides : SideOK(t)
  BY Zenon DEF IInv
<1>5. /\ h \in Frames /\ h.flow \in Flows /\ h.id = sid[h.flow] /\ FrameOK(s, h)
      /\ Tail(queue[s]) \in Seq(Frames)
  BY Zenon, <1>1, <1>3, HeadFacts
<1>6. /\ x \in Frames /\ x.flow = h.flow /\ x.id = h.id
      /\ x.status = "End" /\ x.pay = <<>>
  BY Zenon, <1>2, <1>5 DEF Frames
<1>7. PICK p \in Sides : p = Peer(s) /\ p # s /\ \A t \in Sides : t = s \/ t = p
  BY Zenon, SidesFacts
<1>8. /\ queue'[s] = Tail(queue[s])
      /\ queue'[p] = IF link = "broken" THEN queue[p] ELSE Append(queue[p], x)
      /\ DOMAIN queue' = Sides /\ queue' = [t \in Sides |-> queue'[t]]
  <2>1. queue' = [q \in Sides |->
                    IF q = s THEN Tail(queue[s])
                    ELSE IF link = "broken" THEN queue[q]
                    ELSE Append(queue[q], x)]
    BY Zenon, <1>1, <1>2 DEF KeepUnknown
  <2> HIDE DEF KeepUnknown
  <2> QED
    BY Zenon, <1>7, <2>1
<1>9. queue' \in [Sides -> Seq(Frames)]
  <2>1. queue[p] \in Seq(Frames) /\ Append(queue[p], x) \in Seq(Frames)
    BY <1>4, <1>6, <1>7 DEF TypeInv
  <2>2. queue'[s] \in Seq(Frames) /\ queue'[p] \in Seq(Frames)
    BY Zenon, <1>5, <1>8, <2>1
  <2>3. \A t \in Sides : queue'[t] \in Seq(Frames)
    BY Zenon, <1>7, <2>2
  <2> QED
    BY Zenon, <1>8, <2>3
<1>10. TypeInv'
  BY Zenon, <1>3, <1>4, <1>9 DEF TypeInv
<1>11. MapInv'
  <2>1. /\ \A t \in Sides, g \in Flows : Live(t, g)' <=> Live(t, g)
        /\ \A g \in Flows : Started(g) => Started(g)'
        /\ \A g \in Flows : Live("client", g) => sid'[g] = sid[g]
    BY Zenon, <1>3 DEF Live, Started
  <2>2. \A g \in Flows :
           /\ pump'["server"][g] \in {"none", "copy", "end", "close", "done"}
           /\ pump'["server"][g] = "none" <=> pump["server"][g] = "none"
    BY Zenon, <1>3, <1>4 DEF MapInv, FlowOK
  <2> QED
    BY Zenon, <1>3, <1>4, <2>1, <2>2, MapSame
<1>12. closed[s][h.flow]
  BY Zenon, <1>1, <1>3, NotFoundIsClosed
<1>13. SideOK(s)'
  <2>1. h.status # "New"
    BY Zenon, <1>3
  <2>2. /\ \A f \in Flows : closed[s][f] => closed'[s][f]
        /\ Taken(s, h)
    BY Zenon, <1>3, <1>12 DEF Taken, Data
  <2>3. queue'[s] = Tail(queue[s])
    BY Zenon, <1>8
  <2> QED
    BY Zenon, <1>1, <1>3, <1>4, <1>10, <2>1, <2>2, <2>3, Pops DEF PopsOnly
<1>14. SideOK(p)'
  <2>1. CASE link = "broken"
    <3>1. queue'[p] = queue[p] /\ got'[p] = got[p]
      BY Zenon, <1>3, <1>8, <2>1
    <3>2. \A f \in Flows : closed[p][f] => closed'[p][f]
      BY Zenon, <1>3
    <3> QED
      BY Zenon, <1>3, <1>4, <1>7, <1>10, <3>1, <3>2, Stays
  <2>2. CASE link = "up"
    <3>1. queue'[p] = Append(queue[p], x) /\ got'[p] = got[p] /\ link' = "up"
      BY Zenon, <1>3, <1>8, <2>2
    <3>2. FrameOK(p, x)'
      <4>1. x.id = sid'[x.flow] /\ Started(x.flow)'
        BY Zenon, <1>3, <1>5, <1>6 DEF FrameOK, Started
      <4>2. x.status # "New" /\ x.status # "Keep"
        BY Zenon, <1>6
      <4> QED
        BY Zenon, <1>6, <4>1, <4>2 DEF FrameOK
    <3>3. /\ \A f \in Flows : Started(f) => Started(f)' /\ sid'[f] = sid[f]
          /\ \A f \in Flows : pump["server"][f] # "none" => pump'["server"][f] # "none"
          /\ \A f \in Flows : closed'[p][f] = closed[p][f]
          /\ reading'[p] = reading[p]
      BY Zenon, <1>3 DEF Started
    <3>4. p = "server" =>
              /\ \A f \in Flows :
                   /\ pump'["server"][f] = "none" <=> pump["server"][f] = "none"
                   /\ pump'["client"][f] = "copy" => pump["client"][f] = "copy" \/ IsNew(x, f)
              /\ x.status = "New" => ~Started(x.flow)
              /\ x.status = "Keep" => \/ pump["client"][x.flow] = "copy"
                                      \/ pump["server"][x.flow] # "none"
      BY Zenon, <1>3, <1>6
    <3>5. \A f \in Flows :
              IF Data(x, f)
              THEN Num(x) = sent[Peer(p)][f] + 1 /\ sent'[Peer(p)][f] = Num(x)
              ELSE sent'[Peer(p)][f] = sent[Peer(p)][f]
      BY Zenon, <1>3, <1>6 DEF Data
    <3> QED
      BY Zenon, <1>4, <1>6, <1>7, <1>10, <2>2, <3>1, <3>2, <3>3, <3>4, <3>5, SidePush DEF Pushed
  <2> QED
    BY Zenon, <1>4, <2>1, <2>2 DEF TypeInv
<1>15. \A t \in Sides : SideOK(t)'
  BY Zenon, <1>7, <1>13, <1>14
<1> QED
  BY Zenon, <1>10, <1>11, <1>15 DEF IInv

\* The manager of side s is closed and all its sessions are.
Shut(s) ==
    /\ mgr' = [mgr EXCEPT ![s].closed = TRUE, ![s].sessions = NoSessions]
    /\ pump' = pump
    /\ sid' = sid
    /\ sent' = sent
    /\ got' = got
    /\ queue' = queue
    /\ link' = link
    /\ reading' = reading
    /\ closed' \in [Sides -> [Flows -> BOOLEAN]]
    /\ \A t \in Sides : t # s => closed'[t] = closed[t]
    /\ \A g \in Flows : closed'[s][g] <=> Live(s, g)

\* The manager of side s is closed and all its sessions are.
LEMMA Shuts ==
    ASSUME IInv, NEW s \in Sides, Shut(s)
    PROVE  IInv'
<1> USE DEF Shut
<1>1. TypeInv /\ MapInv /\ \A t \in Sides : SideOK(t)
  BY Zenon DEF IInv
<1>2. /\ MapInv'
      /\ mgr' \in [Sides -> [sessions : Maps, count : Nat, closed : BOOLEAN]]
  BY Zenon, <1>1, MapShut
<1>3. TypeInv'
  BY Zenon, <1>1, <1>2 DEF TypeInv
<1>4. \A t \in Sides, g \in Flows : closed[t][g] => closed'[t][g]
  <2>1. \A g \in Flows : closed[s][g] => Live(s, g)
    BY Zenon, <1>1 DEF MapInv, SessionOK
  <2> QED
    BY Zenon, <2>1
<1>5. \A t \in Sides : SideOK(t)'
  <2>1. \A t \in Sides : queue'[t] = queue[t] /\ got'[t] = got[t]
    BY Zenon
  <2> QED
    BY Zenon, <1>1, <1>3, <1>4, <2>1, Stays
<1> QED
  BY Zenon, <1>2, <1>3, <1>5 DEF IInv

\* monitor, when the worker is done: every session is closed.
LEMMA MonitorDoneOK == ASSUME IInv, NEW s \in Sides, MonitorDone(s) PROVE IInv'
<1>1. /\ pump' = pump /\ sid' = sid /\ sent' = sent /\ got' = got
      /\ queue' = queue /\ link' = link /\ reading' = reading
      /\ CloseLinks(s, Range(mgr[s].sessions))
      /\ mgr' = [mgr EXCEPT ![s].closed = TRUE, ![s].sessions = NoSessions]
  BY Zenon DEF MonitorDone, carrierVars
<1>2. TypeInv /\ MapInv
  BY Zenon DEF IInv
<1>3. PICK F : F = Range(mgr[s].sessions)
  OBVIOUS
<1>4. /\ closed' \in [Sides -> [Flows -> BOOLEAN]]
      /\ \A t \in Sides : t # s => closed'[t] = closed[t]
      /\ \A g \in Flows : closed'[s][g] <=> g \in F \/ closed[s][g]
  <2>1. CloseLinks(s, F)
    BY Zenon, <1>1, <1>3
  <2> QED
    BY Zenon, <1>2, <2>1, LinksClosed
<1>5. \A g \in Flows : closed'[s][g] <=> Live(s, g)
  <2> SUFFICES ASSUME NEW g \in Flows PROVE closed'[s][g] <=> Live(s, g)
    OBVIOUS
  <2>1. EntryOK(s) /\ SessionOK(s, g)
    BY Zenon, <1>2 DEF MapInv
  <2>2. g \in F => Live(s, g)
    BY Zenon, <1>3, <2>1 DEF EntryOK, Range
  <2>3. Live(s, g) /\ ~closed[s][g] => g \in F
    BY Zenon, <1>3, <2>1 DEF SessionOK, Range
  <2>4. closed[s][g] => Live(s, g)
    BY Zenon, <2>1 DEF SessionOK
  <2> QED
    BY Zenon, <1>4, <2>2, <2>3, <2>4
<1> QED
  BY Zenon, <1>1, <1>4, <1>5, Shuts DEF Shut

\* The server takes the New frame h of the flow f.
TookNew(h, f) ==
    /\ h.status = "New"
    /\ queue'["server"] = Tail(queue["server"])
    /\ queue'["client"] = queue["client"]
    /\ pump'["client"] = pump["client"]
    /\ \A g \in Flows : g # f => pump'["server"][g] = pump["server"][g]
    /\ pump'["server"][f] # "none" \/ ~reading'["server"]
    /\ sid' = sid
    /\ sent' = sent
    /\ link' = link
    /\ got'["client"] = got["client"]
    /\ reading'["client"] => reading["client"]
    /\ reading'["server"] => reading["server"]
    /\ \A t \in Sides, g \in Flows : closed[t][g] => closed'[t][g]
    /\ Taken("server", h)

\* The server takes a New frame: what the two streams keep.
LEMMA NewSides ==
    ASSUME IInv, TypeInv', queue["server"] # <<>>, NEW h, h = Head(queue["server"]),
           NEW f \in Flows, f = h.flow, TookNew(h, f)
    PROVE  \A s \in Sides : SideOK(s)'
<1> USE DEF TookNew
<1>1. TypeInv /\ SideOK("client") /\ SideOK("server") /\ "client" \in Sides /\ "server" \in Sides
  BY Zenon, SidesFacts DEF IInv
<1>2. FrameOK("server", h)
  BY Zenon, <1>1, HeadFacts
<1>3. pump["server"][f] = "none"
  BY Zenon, <1>2 DEF FrameOK
<1>4. \A g \in Flows : /\ Started(g) => Started(g)' /\ sid'[g] = sid[g]
                       /\ pump'["client"][g] = pump["client"][g]
  BY Zenon DEF Started
<1>5. \A g \in Flows : pump["server"][g] # "none" => pump'["server"][g] # "none"
  BY Zenon, <1>3
<1>6. \A g \in Flows : IsNew(h, g) <=> g = f
  BY Zenon DEF IsNew
<1>7. \A g \in Flows :
         /\ pump["server"][g] # "none" => pump'["server"][g] # "none"
         /\ pump["server"][g] = "none" /\ ~IsNew(h, g) => pump'["server"][g] = "none"
         /\ IsNew(h, g) => pump'["server"][g] # "none" \/ ~reading'["server"]
  BY Zenon, <1>5, <1>6
<1>8. SideOK("server")'
  <2>1. \A g \in Flows : /\ sent'[Peer("server")][g] = sent[Peer("server")][g]
                         /\ closed["server"][g] => closed'["server"][g]
    BY Zenon, <1>1
  <2>2. Popped("server", h)
    BY Zenon, <1>4, <1>7, <2>1 DEF Popped
  <2> HIDE DEF TookNew
  <2> QED
    BY Zenon, <1>1, <2>2, SidePop
<1>9. SideOK("client")'
  <2>1. \A g \in Flows :
           /\ sent[Peer("client")][g] <= sent'[Peer("client")][g]
           /\ link' = "up" => sent'[Peer("client")][g] = sent[Peer("client")][g]
    <3>1. sent \in [Sides -> [Flows -> Nat]] /\ Peer("client") \in Sides
      BY Zenon, <1>1, SidesFacts DEF TypeInv
    <3> QED
      BY <3>1
  <2>2. "client" # "server" /\ (link' = "up" => link = "up")
    OBVIOUS
  <2>3. \A g \in Flows : closed["client"][g] => closed'["client"][g]
    BY Zenon, <1>1
  <2> QED
    BY Zenon, <1>1, <1>4, <1>5, <2>1, <2>2, <2>3, SideSame DEF Kept
<1> QED
  BY Zenon, <1>8, <1>9, SidesFacts

\* server.go, handleStatusNew, when the dispatcher returns an error.
LEMMA ServerNewFailsOK == ASSUME IInv, ServerNewFails PROVE IInv'
<1>1. PICK h : h = Head(queue["server"])
  OBVIOUS
<1>2. /\ queue["server"] # <<>> /\ reading["server"] /\ h.status = "New"
      /\ queue' = [queue EXCEPT !["server"] = Tail(@)]
      /\ reading' = [reading EXCEPT !["server"] = FALSE]
      /\ mgr' = mgr /\ closed' = closed /\ got' = got
      /\ pump' = pump /\ sid' = sid /\ sent' = sent /\ link' = link
  BY Zenon, <1>1 DEF ServerNewFails, Take, StopReading, sessionVars
<1>3. TypeInv /\ MapInv /\ reading \in [Sides -> BOOLEAN]
  BY Zenon DEF IInv, TypeInv
<1>4. "client" \in Sides /\ "server" \in Sides /\ "client" # "server"
  BY Zenon, SidesFacts
<1>5. /\ queue' \in [Sides -> Seq(Frames)] /\ queue'["server"] = Tail(queue["server"])
      /\ queue'["client"] = queue["client"]
  BY Zenon, <1>2, <1>4, QueueTakes
<1>6. /\ reading' \in [Sides -> BOOLEAN] /\ ~reading'["server"]
      /\ reading'["client"] = reading["client"]
  BY Zenon, <1>2, <1>3, <1>4
<1>7. TypeInv'
  <2>1. TypeInv /\ queue' \in [Sides -> Seq(Frames)] /\ reading' \in [Sides -> BOOLEAN]
    BY Zenon, <1>3, <1>5, <1>6
  <2>2. /\ mgr' = mgr /\ closed' = closed /\ got' = got
        /\ pump' = pump /\ sid' = sid /\ sent' = sent /\ link' = link
    BY Zenon, <1>2
  <2> QED
    BY Zenon, <2>1, <2>2 DEF TypeInv
<1>8. MapInv'
  <2>1. /\ \A t \in Sides, g \in Flows : Live(t, g)' <=> Live(t, g)
        /\ \A g \in Flows : Started(g) => Started(g)'
        /\ \A g \in Flows : Live("client", g) => sid'[g] = sid[g]
    BY Zenon, <1>2 DEF Live, Started
  <2>2. \A g \in Flows :
           /\ pump'["server"][g] \in {"none", "copy", "end", "close", "done"}
           /\ pump'["server"][g] = "none" <=> pump["server"][g] = "none"
    BY Zenon, <1>2, <1>3 DEF MapInv, FlowOK
  <2>3. mgr' = mgr /\ closed' = closed
    BY Zenon, <1>2
  <2> QED
    BY Zenon, <1>3, <2>1, <2>2, <2>3, MapSame
<1>9. PICK f \in Flows : f = h.flow
  BY Zenon, <1>1, <1>2, <1>4, HeadFacts
<1>10. \A s \in Sides : SideOK(s)'
  <2>1. Taken("server", h)
    BY Zenon, <1>2, <1>6 DEF Taken
  <2>2. /\ pump'["client"] = pump["client"] /\ got'["client"] = got["client"]
        /\ \A g \in Flows : g # f => pump'["server"][g] = pump["server"][g]
        /\ \A t \in Sides, g \in Flows : closed[t][g] => closed'[t][g]
    BY Zenon, <1>2
  <2>3. sid' = sid /\ sent' = sent /\ link' = link /\ queue["server"] # <<>> /\ h.status = "New"
    BY Zenon, <1>2
  <2> QED
    BY Zenon, <1>1, <1>5, <1>6, <1>7, <1>9, <2>1, <2>2, <2>3, NewSides DEF TookNew
<1> QED
  BY Zenon, <1>7, <1>8, <1>10 DEF IInv

\* The server admits a session: Add puts it into the map under the identifier
\* of the client, which no other session of the server has.
LEMMA NewAdds ==
    ASSUME IdsSuffice, IInv, ServerNew, ~mgr["server"].closed
    PROVE  IInv'
<1>1. PICK h : h = Head(queue["server"])
  OBVIOUS
<1>2. PICK i : i = h.id
  OBVIOUS
<1>3. PICK n : n = (mgr["server"].count + 1) % IdSpace
  OBVIOUS
<1>4. "client" \in Sides /\ "server" \in Sides /\ "client" # "server"
  BY Zenon, SidesFacts
<1>5. queue["server"] # <<>> /\ reading["server"] /\ h.status = "New"
  BY Zenon, <1>1 DEF ServerNew, Take
<1>6. PICK f \in Flows : /\ f = h.flow /\ h \in Frames /\ i \in Nat /\ i = sid[f]
                         /\ FrameOK("server", h)
  BY Zenon, <1>1, <1>2, <1>4, <1>5, HeadFacts
<1>7. /\ queue' = [queue EXCEPT !["server"] = Tail(@)]
      /\ pump' = [pump EXCEPT !["server"][f] = "copy"]
      /\ mgr' = [mgr EXCEPT !["server"].count = n, !["server"].sessions = With(@, i, f)]
      /\ got' = [got EXCEPT !["server"][f] = IF h.pay = <<>> THEN @ ELSE Append(@, h.pay)]
      /\ reading' = reading /\ closed' = closed
      /\ link' = link /\ sid' = sid /\ sent' = sent
  BY Zenon, <1>1, <1>2, <1>3, <1>6 DEF ServerNew
<1>8. TypeInv /\ MapInv
  BY Zenon DEF IInv
<1>9. n \in Nat
  BY <1>3, <1>4, <1>8, MgrTypes DEF IdsSuffice
<1>10. pump["server"][f] = "none" /\ Started(f)
  BY Zenon, <1>5, <1>6 DEF FrameOK
<1>11. ~Live("server", f)
  BY Zenon, <1>10 DEF Live
<1>12. ~closed["server"][f]
  BY Zenon, <1>4, <1>8, <1>11 DEF MapInv, SessionOK
<1>13. i \notin DOMAIN mgr["server"].sessions
  <2> SUFFICES ASSUME i \in DOMAIN mgr["server"].sessions PROVE FALSE
    OBVIOUS
  <2>1. Found("server", h.id)
    BY Zenon, <1>2 DEF Found
  <2> QED
    BY Zenon, <1>1, <1>4, <1>5, <1>6, <1>11, <2>1, FoundIsOwn
<1>14. /\ queue' \in [Sides -> Seq(Frames)] /\ queue'["server"] = Tail(queue["server"])
       /\ queue'["client"] = queue["client"]
  BY Zenon, <1>4, <1>5, <1>7, QueueTakes
<1>15. /\ pump' \in [Sides -> [Flows -> PumpStates]] /\ pump'["server"][f] = "copy"
       /\ \A g \in Flows : g # f => pump'["server"][g] = pump["server"][g]
       /\ pump'["client"] = pump["client"]
  <2>1. pump \in [Sides -> [Flows -> PumpStates]] /\ "copy" \in PumpStates
    BY Zenon, <1>8 DEF TypeInv, PumpStates
  <2> QED
    BY <1>4, <1>7, <2>1, Update
<1>16. /\ got' \in [Sides -> [Flows -> Seq(Flows \X Nat)]]
       /\ got'["client"] = got["client"]
       /\ \A g \in Flows : g # f => got'["server"][g] = got["server"][g]
       /\ h.pay = <<>> => got'["server"][f] = got["server"][f]
       /\ h.pay # <<>> => got'["server"][f] = Append(got["server"][f], h.pay)
  <2>1. PICK v : v = IF h.pay = <<>> THEN got["server"][f] ELSE Append(got["server"][f], h.pay)
    BY Zenon
  <2>2. got \in [Sides -> [Flows -> Seq(Flows \X Nat)]]
    BY Zenon, <1>8 DEF TypeInv
  <2>3. h.pay \in {<<>>} \cup (Flows \X Nat)
    BY Zenon, <1>6 DEF Frames
  <2>4. v \in Seq(Flows \X Nat)
    BY <1>4, <2>1, <2>2, <2>3
  <2>5. got' = [got EXCEPT !["server"][f] = v]
    BY Zenon, <1>7, <2>1
  <2>6. /\ got' \in [Sides -> [Flows -> Seq(Flows \X Nat)]] /\ got'["server"][f] = v
        /\ \A g \in Flows : g # f => got'["server"][g] = got["server"][g]
        /\ \A t \in Sides : t # "server" => got'[t] = got[t]
    BY <1>4, <2>2, <2>4, <2>5, Update
  <2> QED
    BY Zenon, <1>4, <2>1, <2>6
<1>17. PICK w : w = With(mgr["server"].sessions, i, f)
  OBVIOUS
<1>18. /\ mgr' \in [Sides -> [sessions : Maps, count : Nat, closed : BOOLEAN]]
       /\ mgr'["server"].sessions = w
       /\ mgr'["server"].closed = mgr["server"].closed
       /\ \A t \in Sides : t # "server" => mgr'[t] = mgr[t]
  <2>1. mgr' = [mgr EXCEPT !["server"].count = n, !["server"].sessions = With(@, i, f)]
    BY Zenon, <1>7
  <2>2. i \in Nat
    BY Zenon, <1>6
  <2> QED
    BY Zenon, <1>4, <1>8, <1>9, <1>17, <2>1, <2>2, MgrAdd DEF Inserted
<1>19. /\ reading' = reading /\ closed' = closed
       /\ link' = link /\ sid' = sid /\ sent' = sent
  BY Zenon, <1>7
<1>20. TypeInv'
  BY Zenon, <1>8, <1>14, <1>15, <1>16, <1>18, <1>19 DEF TypeInv
<1>21. /\ Live("server", f)'
       /\ \A t \in Sides, g \in Flows : t # "server" \/ g # f => (Live(t, g)' <=> Live(t, g))
       /\ \A g \in Flows : Started(g)' <=> Started(g)
  BY Zenon, <1>15, SidesFacts DEF Live, Started
<1>22. /\ \A t \in Sides : EntryOK(t)'
       /\ \A t \in Sides, g \in Flows : SessionOK(t, g)'
  <2>1. /\ sid'[f] = i /\ \A t \in Sides : Live(t, f) => sid[f] = i
        /\ \A g \in Flows : g # f => sid'[g] = sid[g]
    BY Zenon, <1>6, <1>19
  <2>2. i \in Nat /\ closed' = closed
    BY Zenon, <1>6, <1>19
  <2>3. /\ ~Live("server", f) /\ Live("server", f)' /\ ~mgr["server"].closed
        /\ \A t \in Sides, g \in Flows : t # "server" \/ g # f => (Live(t, g)' <=> Live(t, g))
    BY Zenon, <1>11, <1>21
  <2>4. "server" \in Sides /\ TypeInv /\ MapInv
    BY Zenon, <1>4, <1>8
  <2> QED
    BY Zenon, <1>13, <1>17, <1>18, <2>1, <2>2, <2>3, <2>4, MapAdd DEF Added
<1>23. \A g \in Flows : FlowOK(g)'
  <2>1. \A g \in Flows : FlowOK(g)
    BY Zenon, <1>8 DEF MapInv
  <2>2. mgr'["client"] = mgr["client"]
    BY Zenon, <1>4, <1>18
  <2>3. \A g \in Flows : Live("client", g)' => Live("client", g)
    BY Zenon, <1>4, <1>21
  <2>4. \A g \in Flows : /\ pump'["server"][g] \in {"none", "copy", "end", "close", "done"}
                         /\ pump'["server"][g] # "none" => Started(g)'
    BY Zenon, <1>10, <1>15, <1>21, <2>1 DEF FlowOK
  <2> QED
    BY Zenon, <1>19, <2>1, <2>2, <2>3, <2>4 DEF FlowOK
<1>24. IdsDiffer' /\ mgr'["client"].count <= Ids
  BY Zenon, <1>4, <1>8, <1>18, <1>19, <1>21 DEF MapInv, IdsDiffer
<1>25. MapInv'
  BY Zenon, <1>22, <1>23, <1>24 DEF MapInv, Ids
<1>26. \A s \in Sides : SideOK(s)'
  <2>1. \A g \in Flows : Data(h, g) <=> g = f /\ h.pay # <<>>
    BY Zenon, <1>6 DEF Data
  <2>2. Taken("server", h)
    BY Zenon, <1>5, <1>12, <1>16, <2>1 DEF Taken
  <2>3. /\ pump'["server"][f] # "none"
        /\ \A t \in Sides, g \in Flows : closed[t][g] => closed'[t][g]
        /\ reading'["client"] => reading["client"]
        /\ reading'["server"] => reading["server"]
    BY Zenon, <1>15, <1>19
  <2> QED
    BY Zenon, <1>1, <1>5, <1>6, <1>14, <1>15, <1>16, <1>19, <1>20, <2>2, <2>3, NewSides DEF TookNew
<1> QED
  BY Zenon, <1>20, <1>25, <1>26 DEF IInv

\* The manager is closed: the session ends at once, and so does the reader.
LEMMA NewRefused ==
    ASSUME IInv, ServerNew, mgr["server"].closed
    PROVE  IInv'
<1>1. PICK h : h = Head(queue["server"])
  OBVIOUS
<1>2. "client" \in Sides /\ "server" \in Sides /\ "client" # "server"
  BY Zenon, SidesFacts
<1>3. queue["server"] # <<>> /\ reading["server"] /\ h.status = "New"
  BY Zenon, <1>1 DEF ServerNew, Take
<1>4. PICK f \in Flows : f = h.flow /\ FrameOK("server", h)
  BY Zenon, <1>1, <1>2, <1>3, HeadFacts
<1>5. /\ queue' = [queue EXCEPT !["server"] = Tail(@)]
      /\ pump' = [pump EXCEPT !["server"][f] = "done"]
      /\ closed' = [closed EXCEPT !["server"][f] = TRUE]
      /\ reading' = [reading EXCEPT !["server"] = FALSE]
      /\ mgr' = mgr /\ got' = got /\ link' = link /\ sid' = sid /\ sent' = sent
  BY Zenon, <1>1, <1>4 DEF ServerNew, StopReading
<1>6. TypeInv /\ MapInv /\ reading \in [Sides -> BOOLEAN]
  BY Zenon DEF IInv, TypeInv
<1>7. pump["server"][f] = "none" /\ Started(f)
  BY Zenon, <1>3, <1>4 DEF FrameOK
<1>8. ~Live("server", f)
  BY Zenon, <1>7 DEF Live
<1>9. /\ queue' \in [Sides -> Seq(Frames)] /\ queue'["server"] = Tail(queue["server"])
      /\ queue'["client"] = queue["client"]
  BY Zenon, <1>2, <1>3, <1>5, QueueTakes
<1>10. /\ pump' \in [Sides -> [Flows -> PumpStates]] /\ pump'["server"][f] = "done"
       /\ \A g \in Flows : g # f => pump'["server"][g] = pump["server"][g]
       /\ pump'["client"] = pump["client"]
  <2>1. pump \in [Sides -> [Flows -> PumpStates]] /\ "done" \in PumpStates
    BY Zenon, <1>6 DEF TypeInv, PumpStates
  <2> QED
    BY <1>2, <1>5, <2>1, Update
<1>11. /\ closed' \in [Sides -> [Flows -> BOOLEAN]] /\ closed'["server"][f] = TRUE
       /\ \A g \in Flows : g # f => closed'["server"][g] = closed["server"][g]
       /\ \A t \in Sides : t # "server" => closed'[t] = closed[t]
  <2>1. closed \in [Sides -> [Flows -> BOOLEAN]] /\ TRUE \in BOOLEAN
    BY Zenon, <1>6 DEF TypeInv
  <2> QED
    BY <1>2, <1>5, <2>1, Update
<1>12. /\ reading' \in [Sides -> BOOLEAN] /\ ~reading'["server"]
       /\ reading'["client"] = reading["client"]
  BY Zenon, <1>2, <1>5, <1>6
<1>13. mgr' = mgr /\ got' = got /\ link' = link /\ sid' = sid /\ sent' = sent
  BY Zenon, <1>5
<1>14. TypeInv'
  BY Zenon, <1>6, <1>9, <1>10, <1>11, <1>12, <1>13 DEF TypeInv
<1>15. /\ Live("server", f)'
       /\ \A t \in Sides, g \in Flows : t # "server" \/ g # f => (Live(t, g)' <=> Live(t, g))
       /\ \A g \in Flows : Started(g)' <=> Started(g)
  BY Zenon, <1>10, SidesFacts DEF Live, Started
<1>16. \A t \in Sides : EntryOK(t)'
  <2> SUFFICES ASSUME NEW t \in Sides PROVE EntryOK(t)'
    OBVIOUS
  <2>1. EntryOK(t) /\ \A j \in DOMAIN mgr[t].sessions : mgr[t].sessions[j] \in Flows
    BY Zenon, <1>6, MgrTypes DEF MapInv
  <2>2. PICK m : m = mgr[t].sessions
    OBVIOUS
  <2>3. mgr'[t].sessions = m /\ sid' = sid
    BY Zenon, <1>13, <2>2
  <2>4. ASSUME NEW j \in DOMAIN m
        PROVE  sid'[m[j]] = j /\ Live(t, m[j])' /\ ~closed'[t][m[j]]
    <3>1. m[j] \in Flows /\ sid[m[j]] = j /\ Live(t, m[j]) /\ ~closed[t][m[j]]
      BY Zenon, <2>1, <2>2, <2>4 DEF EntryOK
    <3>2. t # "server" \/ m[j] # f
      BY Zenon, <1>8, <3>1
    <3>3. closed'[t][m[j]] = closed[t][m[j]] /\ (Live(t, m[j])' <=> Live(t, m[j]))
      BY Zenon, <1>11, <1>15, <3>1, <3>2
    <3> QED
      BY Zenon, <2>3, <3>1, <3>3
  <2> QED
    BY Zenon, <2>3, <2>4 DEF EntryOK
<1>17. \A t \in Sides, g \in Flows : SessionOK(t, g)'
  <2> SUFFICES ASSUME NEW t \in Sides, NEW g \in Flows PROVE SessionOK(t, g)'
    OBVIOUS
  <2>1. SessionOK(t, g)
    BY Zenon, <1>6 DEF MapInv
  <2>2. CASE t = "server" /\ g = f
    BY Zenon, <1>11, <1>15, <2>2 DEF SessionOK
  <2>3. CASE t # "server" \/ g # f
    <3>1. closed'[t][g] = closed[t][g] /\ (Live(t, g)' <=> Live(t, g))
      BY Zenon, <1>11, <1>15, <2>3
    <3> QED
      BY Zenon, <1>13, <2>1, <3>1 DEF SessionOK
  <2> QED
    BY Zenon, <2>2, <2>3
<1>18. \A g \in Flows : FlowOK(g)'
  <2>1. \A g \in Flows : FlowOK(g)
    BY Zenon, <1>6 DEF MapInv
  <2>2. \A g \in Flows : Live("client", g)' => Live("client", g)
    BY Zenon, <1>2, <1>15
  <2>3. \A g \in Flows : /\ pump'["server"][g] \in {"none", "copy", "end", "close", "done"}
                         /\ pump'["server"][g] # "none" => Started(g)'
    BY Zenon, <1>7, <1>10, <1>15, <2>1 DEF FlowOK
  <2> QED
    BY Zenon, <1>13, <2>1, <2>2, <2>3 DEF FlowOK
<1>19. IdsDiffer' /\ mgr'["client"].count <= Ids
  BY Zenon, <1>2, <1>6, <1>13, <1>15 DEF MapInv, IdsDiffer
<1>20. MapInv'
  BY Zenon, <1>16, <1>17, <1>18, <1>19 DEF MapInv, Ids
<1>21. \A s \in Sides : SideOK(s)'
  <2>1. Taken("server", h)
    BY Zenon, <1>12, <1>13 DEF Taken
  <2>2. \A t \in Sides, g \in Flows : closed[t][g] => closed'[t][g]
    BY Zenon, <1>11
  <2>3. got'["client"] = got["client"]
    BY Zenon, <1>13
  <2> QED
    BY Zenon, <1>1, <1>3, <1>4, <1>9, <1>10, <1>12, <1>13, <1>14, <2>1, <2>2, <2>3, NewSides DEF TookNew
<1> QED
  BY Zenon, <1>14, <1>20, <1>21 DEF IInv

\* The invariant holds at the start.
LEMMA InitOK == ASSUME IdsSuffice, Init PROVE IInv
<1>1. TypeInv
  <2>1. /\ mgr \in [Sides -> [sessions : Maps, count : Nat, closed : BOOLEAN]]
    BY Zenon, EmptyMap DEF Init
  <2>2. pump \in [Sides -> [Flows -> PumpStates]]
    BY Zenon DEF Init, PumpStates
  <2>3. /\ reading \in [Sides -> BOOLEAN] /\ link \in {"up", "broken"}
        /\ queue \in [Sides -> Seq(Frames)] /\ sid \in [Flows -> Nat]
        /\ closed \in [Sides -> [Flows -> BOOLEAN]]
        /\ sent \in [Sides -> [Flows -> Nat]]
    BY DEF Init
  <2>4. got \in [Sides -> [Flows -> Seq(Flows \X Nat)]]
    BY DEF Init
  <2> QED
    BY Zenon, <2>1, <2>2, <2>3, <2>4 DEF TypeInv
<1>2. \A s \in Sides : /\ mgr[s].sessions = NoSessions /\ mgr[s].count = 0
                       /\ queue[s] = <<>> /\ reading[s]
                       /\ \A f \in Flows : /\ pump[s][f] = "none" /\ ~closed[s][f]
                                           /\ sent[s][f] = 0 /\ got[s][f] = <<>>
  BY Zenon DEF Init
<1>3. \A s \in Sides, f \in Flows : ~Live(s, f)
  BY Zenon, <1>2 DEF Live
<1>4. MapInv
  <2>1. \A s \in Sides : EntryOK(s)
    <3>1. \A s \in Sides : DOMAIN mgr[s].sessions = {}
      BY Zenon, <1>2, EmptyMap
    <3> QED
      BY Zenon, <3>1 DEF EntryOK
  <2>2. \A s \in Sides, f \in Flows : SessionOK(s, f)
    BY Zenon, <1>2, <1>3 DEF SessionOK
  <2>3. \A f \in Flows : FlowOK(f)
    BY Zenon, <1>2, <1>3, SidesFacts DEF FlowOK
  <2>4. IdsDiffer
    BY Zenon, <1>3, SidesFacts DEF IdsDiffer
  <2>5. mgr["client"].count <= Ids
    BY <1>2, SidesFacts, IdsFit
  <2> QED
    BY Zenon, <2>1, <2>2, <2>3, <2>4, <2>5 DEF MapInv
<1>5. ASSUME NEW s \in Sides PROVE SideOK(s)
  <2>1. queue[s] = <<>> /\ Len(queue[s]) = 0 /\ Range(queue[s]) = {} /\ Peer(s) \in Sides
    BY <1>2, SidesFacts DEF Range
  <2>2. Increasing(queue[s])
    BY <2>1 DEF Increasing
  <2>3. \A f \in Flows : StreamOK(s, f)
    BY <1>2, <2>1 DEF StreamOK, Chain, Reach
  <2>4. s = "server" => NewOK
    BY <1>2, <2>1, SidesFacts DEF NewOK
  <2> QED
    BY Zenon, <2>1, <2>2, <2>3, <2>4 DEF SideOK
<1> QED
  BY Zenon, <1>1, <1>4, <1>5 DEF IInv

INSTANCE FiniteSetTheorems

\* There are as many entries as identifiers at most.
LEMMA MapIsFinite ==
    ASSUME IdsSuffice, TypeInv, MapInv, NEW s \in Sides
    PROVE  IsFiniteSet(DOMAIN mgr[s].sessions)
<1>1. DOMAIN mgr[s].sessions \subseteq 0 .. Ids
  <2> SUFFICES ASSUME NEW i \in DOMAIN mgr[s].sessions PROVE i \in 0 .. Ids
    OBVIOUS
  <2>1. PICK f \in Flows : f = mgr[s].sessions[i]
    BY Zenon, MgrTypes
  <2>2. sid[f] = i /\ Live(s, f)
    BY Zenon, <2>1 DEF MapInv, EntryOK
  <2>3. i <= mgr["client"].count /\ mgr["client"].count <= Ids
    BY Zenon, <2>2, LiveStarted DEF MapInv, FlowOK
  <2>4. i \in Nat /\ mgr["client"].count \in Nat /\ Ids \in Nat
    BY Zenon, MgrTypes, SidesFacts, IdsFit
  <2> QED
    BY <2>3, <2>4
<1>2. IsFiniteSet(0 .. Ids)
  <2>1. 0 \in Int /\ Ids \in Int
    BY IdsFit
  <2> QED
    BY Zenon, <2>1, FS_Interval
<1> QED
  BY Zenon, <1>1, <1>2, FS_Subset

\* monitor, on the idle ticker: an idle manager without sessions is closed.
LEMMA MonitorTickOK == ASSUME IdsSuffice, IInv, NEW s \in Sides, MonitorTick(s) PROVE IInv'
<1>1. /\ pump' = pump /\ sid' = sid /\ sent' = sent /\ got' = got /\ closed' = closed
      /\ queue' = queue /\ link' = link /\ reading' = reading
  BY Zenon DEF MonitorTick, carrierVars, sessionVars
<1>2. TypeInv /\ MapInv /\ reading \in [Sides -> BOOLEAN] /\ link \in {"up", "broken"}
      /\ closed \in [Sides -> [Flows -> BOOLEAN]]
  BY Zenon DEF IInv, TypeInv
<1>3. CASE mgr' = mgr
  BY Zenon, <1>1, <1>2, <1>3, Aside
<1>4. CASE mgr' # mgr
  <2>1. /\ mgr' = [mgr EXCEPT ![s].closed = TRUE, ![s].sessions = NoSessions]
        /\ Cardinality(DOMAIN mgr[s].sessions) = 0
    BY Zenon, <1>4 DEF MonitorTick, Idle, Size
  <2>2. DOMAIN mgr[s].sessions = {}
    <3>1. IsFiniteSet(DOMAIN mgr[s].sessions)
      BY Zenon, <1>2, MapIsFinite
    <3> QED
      BY Zenon, <2>1, <3>1, FS_EmptySet
  <2>3. \A g \in Flows : closed[s][g] <=> Live(s, g)
    <3>1. \A g \in Flows : SessionOK(s, g) /\ sid[g] \notin DOMAIN mgr[s].sessions
      BY Zenon, <1>2, <2>2 DEF MapInv
    <3> QED
      BY Zenon, <3>1 DEF SessionOK
  <2>4. /\ closed' \in [Sides -> [Flows -> BOOLEAN]]
        /\ \A t \in Sides : t # s => closed'[t] = closed[t]
        /\ \A g \in Flows : closed'[s][g] <=> Live(s, g)
    BY Zenon, <1>1, <1>2, <2>3
  <2> QED
    BY Zenon, <1>1, <2>1, <2>4, Shuts DEF Shut
<1> QED
  BY Zenon, <1>3, <1>4

\* Every step keeps the invariant.
LEMMA NextOK == ASSUME IdsSuffice, IInv, [Next]_vars PROVE IInv'
<1>1. CASE \E f \in Flows : DispatchCheck(f) \/ Allocate(f) \/ DispatchAttach(f)
  BY Zenon, <1>1, DispatchCheckOK, AllocateOK, AttachOK
<1>2. CASE \E s \in Sides : Reader(s)
  <2>1. ASSUME ServerNew PROVE IInv'
    BY Zenon, <2>1, NewAdds, NewRefused
  <2> QED
    BY Zenon, <1>2, <2>1, KeepOK, KeepUnknownOK, EndOK DEF Reader
<1>3. CASE \E s \in Sides : Monitor(s)
  BY Zenon, <1>3, AsideOK, MonitorTickOK, MonitorDoneOK DEF Monitor
<1>4. CASE \E s \in Sides : \E f \in Flows : Pump(s, f)
  BY Zenon, <1>4, PumpCopyOK, PumpEndOK, PumpCloseOK DEF Pump
<1>5. CASE ServerNewFails
  BY Zenon, <1>5, ServerNewFailsOK
<1>6. CASE \/ \E s \in Sides :
                \/ ReadFails(s)
                \/ \E f \in Flows : \E b \in BOOLEAN : ApplicationEnds(s, f, b)
           \/ ProcessReturns \/ BreakLink \/ Cancel \/ UNCHANGED vars
  BY Zenon, <1>6, AsideOK
<1> QED
  BY Zenon, <1>1, <1>2, <1>3, <1>4, <1>5, <1>6 DEF Next

\* What the invariant says of the sessions and of closed managers.
LEMMA Consequences == ASSUME IInv PROVE SessionsAreSeparate /\ IdleCloseIsClean
<1>1. \A s \in Sides, f \in Flows : EntryOK(s) /\ SessionOK(s, f) /\ StreamOK(s, f)
  BY Zenon DEF IInv, MapInv, SideOK
<1>2. NoCrossTalk
  BY Zenon, <1>1 DEF NoCrossTalk, StreamOK
<1>3. MapHoldsOpenSessions
  <2> SUFFICES ASSUME NEW s \in Sides, NEW f \in Flows, Live(s, f)
               PROVE  ~closed[s][f] <=> sid[f] \in DOMAIN mgr[s].sessions
                                        /\ mgr[s].sessions[sid[f]] = f
    BY Zenon DEF MapHoldsOpenSessions
  <2>1. ~closed[s][f] => sid[f] \in DOMAIN mgr[s].sessions /\ mgr[s].sessions[sid[f]] = f
    BY Zenon, <1>1 DEF SessionOK
  <2>2. sid[f] \in DOMAIN mgr[s].sessions /\ mgr[s].sessions[sid[f]] = f => ~closed[s][f]
    BY Zenon, <1>1 DEF EntryOK
  <2> QED
    BY Zenon, <2>1, <2>2
<1>4. IdleCloseIsClean
  BY Zenon, <1>1 DEF IdleCloseIsClean, SessionOK
<1> QED
  BY Zenon, <1>2, <1>3, <1>4 DEF SessionsAreSeparate

\* The sessions of one carrier do not interfere, whatever the number of flows, the
\* capacity of the carrier and the faults, and although frames of closed sessions
\* are still under way when later sessions start: common/mux/session.go, client.go
\* and server.go.  The client's limit on the connections of one carrier keeps its
\* identifiers from coming round again.
THEOREM SessionsStaySeparate == ASSUME IdsSuffice PROVE Spec => []SessionsAreSeparate
<1>1. Init => IInv
  BY Zenon, InitOK
<1>2. IInv /\ [Next]_vars => IInv'
  BY Zenon, NextOK
<1>3. IInv => SessionsAreSeparate
  BY Zenon, Consequences
<1> QED
  BY <1>1, <1>2, <1>3, PTL DEF Spec

\* A manager that the idle ticker or the end of the worker has closed has no open
\* session left: common/mux/session.go:76 (CloseIfNoSessionAndIdle), :118 (Close).
THEOREM ClosedManagersAreEmpty == ASSUME IdsSuffice PROVE Spec => []IdleCloseIsClean
<1>1. Init => IInv
  BY Zenon, InitOK
<1>2. IInv /\ [Next]_vars => IInv'
  BY Zenon, NextOK
<1>3. IInv => IdleCloseIsClean
  BY Zenon, Consequences
<1> QED
  BY <1>1, <1>2, <1>3, PTL DEF Spec
=============================================================================
