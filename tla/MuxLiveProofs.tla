--------------------------- MODULE MuxLiveProofs ----------------------------
(***************************************************************************)
(* Proofs about XUDP, for any number of connections, objects, links and    *)
(* sessions: the link of a flow has one owner at a time.                   *)
(***************************************************************************)
EXTENDS MCMuxLive, TLAPS

\* The bounds are numbers.
FlowBounds == MaxObjects \in Nat /\ MaxLinks \in Nat /\ MaxSessions \in Nat

\* The variables have their types.
FlowTypeOK ==
    /\ nx \in Nat /\ nl \in Nat /\ ns \in Nat
    /\ nx <= MaxObjects /\ nl <= MaxLinks /\ ns <= MaxSessions
    /\ entry \in Nat /\ entry <= nx
    /\ status \in [Flow!Objects -> {"Initializing", "Active", "Expiring"}]
    /\ mux \in [Flow!Objects -> Nat]
    /\ xlink \in [Flow!Objects -> Nat]
    /\ sess \in [Flow!Sessions -> [x : Nat, link : Nat, worker : Workers \cup {Flow!None}]]
    /\ close \in [Flow!Sessions -> {"open", "sent", "closed"}]
    /\ errChan \in [Flow!Links -> BOOLEAN]
    /\ wpc \in [Workers -> {"idle", "detach", "replay", "dispatch", "bind",
                            "add", "spawn"}]
    /\ wx \in [Workers -> Nat]
    /\ added \subseteq Workers \X Flow!Sessions
    /\ handle \in [Workers -> [Flow!Sessions ->
                      {"none", "busy", "select", "end", "done"}]]

\* Where handleStatusNew has the object to itself, by the mark in the map.
FlowWorking == {"detach", "replay", "dispatch", "bind"}

\* A session that is not closed is the one its object points to, over the
\* link the object names; one not yet created is untouched.
FlowSessionOK(s) ==
    /\ s <= ns =>
         /\ sess[s].x \in Flow!Objects /\ sess[s].x <= nx
         /\ sess[s].link \in Flow!Links /\ sess[s].link <= nl
         /\ close[s] # "closed" => /\ mux[sess[s].x] = s
                                   /\ xlink[sess[s].x] = sess[s].link
    /\ ~(s <= ns) =>
         /\ close[s] = "open"
         /\ \A w \in Workers : handle[w][s] = "none" /\ <<w, s>> \notin added

\* An object that is no longer being initialised has a session, and an
\* expiring one a closed session; one not yet created is empty.
FlowObjectOK(x) ==
    /\ mux[x] <= ns /\ xlink[x] <= nl
    /\ mux[x] # Flow!None => xlink[x] # Flow!None
    /\ status[x] # "Initializing" => mux[x] # Flow!None
    /\ status[x] = "Expiring" => close[mux[x]] = "closed"
    /\ ~(x <= nx) => mux[x] = Flow!None /\ xlink[x] = Flow!None /\ status[x] = "Initializing"

\* The object a worker is initialising is the one of the map, and the session
\* it takes the place of is closed.
FlowWorkerOK(w) ==
    /\ wpc[w] # "idle" => wx[w] \in Flow!Objects /\ wx[w] <= nx
    /\ wpc[w] \in FlowWorking => entry = wx[w] /\ status[wx[w]] = "Initializing"
    /\ wpc[w] \in {"detach", "add", "spawn"} => mux[wx[w]] # Flow!None
    /\ wpc[w] \in {"replay", "dispatch", "bind"} =>
          mux[wx[w]] = Flow!None \/ close[mux[wx[w]]] = "closed"
    /\ wpc[w] \in {"replay", "bind"} => xlink[wx[w]] # Flow!None

\* One worker at a time initialises the object.
FlowOneWorks == \A w, v \in Workers :
    wpc[w] \in FlowWorking /\ wpc[v] \in FlowWorking => w = v

\* Two objects have different links.
FlowLinksDiffer ==
    \A x, y \in Flow!Objects : xlink[x] = xlink[y] => x = y \/ xlink[x] = Flow!None

\* An error that waits in a link was put there by a Close that has not taken it
\* back yet.
FlowErrorOwned == \A l \in Flow!Links : errChan[l] =>
    \E s \in Flow!Sessions : s <= ns /\ sess[s].link = l /\ close[s] = "sent"

\* The inductive invariant.
FlowIInv ==
    /\ FlowTypeOK
    /\ \A s \in Flow!Sessions : FlowSessionOK(s)
    /\ \A x \in Flow!Objects : FlowObjectOK(x)
    /\ \A w \in Workers : FlowWorkerOK(w)
    /\ FlowOneWorks
    /\ FlowLinksDiffer
    /\ FlowErrorOwned

\* The map is empty in the beginning.
LEMMA FlowInitOK == ASSUME FlowBounds PROVE Flow!Init => FlowIInv
<1> SUFFICES ASSUME Flow!Init PROVE FlowIInv
  OBVIOUS
<1>1. FlowTypeOK
  BY DEF FlowBounds, Flow!Init, FlowTypeOK, Flow!None, Flow!Objects, Flow!Links, Flow!Sessions
<1>2. \A s \in Flow!Sessions : FlowSessionOK(s)
  BY DEF Flow!Init, FlowSessionOK, Flow!Sessions
<1>3. \A x \in Flow!Objects : FlowObjectOK(x)
  BY DEF Flow!Init, FlowObjectOK, Flow!None, Flow!Objects
<1>4. \A w \in Workers : FlowWorkerOK(w)
  BY Zenon DEF Flow!Init, FlowWorkerOK, FlowWorking
<1>5. FlowOneWorks
  BY Zenon DEF Flow!Init, FlowOneWorks, FlowWorking
<1>6. FlowLinksDiffer
  BY Zenon DEF Flow!Init, FlowLinksDiffer
<1>7. FlowErrorOwned
  BY Zenon DEF Flow!Init, FlowErrorOwned
<1> QED
  BY Zenon, <1>1, <1>2, <1>3, <1>4, <1>5, <1>6, <1>7 DEF FlowIInv

\* The first half of Session.Close, whoever calls it.
LEMMA FlowBeginOK ==
    ASSUME FlowBounds, FlowIInv, NEW s \in Flow!Sessions, s <= ns, Flow!CloseBegin(s),
           UNCHANGED <<Flow!objVars, sess, Flow!counters, wpc, wx, added>>
    PROVE  FlowIInv'
<1>1. /\ entry' = entry /\ status' = status /\ mux' = mux /\ xlink' = xlink
      /\ sess' = sess /\ nx' = nx /\ nl' = nl /\ ns' = ns /\ wpc' = wpc
      /\ wx' = wx /\ added' = added
  BY Zenon DEF Flow!objVars, Flow!counters
<1>2. /\ FlowTypeOK /\ \A t \in Flow!Sessions : FlowSessionOK(t)
      /\ \A x \in Flow!Objects : FlowObjectOK(x)
      /\ \A w \in Workers : FlowWorkerOK(w)
      /\ FlowOneWorks /\ FlowLinksDiffer /\ FlowErrorOwned
  BY Zenon DEF FlowIInv
<1>3. close[s] = "open" /\ close' = [close EXCEPT ![s] = "sent"]
  BY Zenon DEF Flow!CloseBegin
<1>4. sess[s].link \in Flow!Links
  BY Zenon, <1>2 DEF FlowSessionOK
<1>5. /\ errChan' \in [Flow!Links -> BOOLEAN]
      /\ \A l \in Flow!Links : errChan'[l] => errChan[l] \/ l = sess[s].link
  <2>1. errChan' = errChan \/ errChan' = [errChan EXCEPT ![sess[s].link] = TRUE]
    BY Zenon DEF Flow!CloseBegin
  <2> QED
    BY Zenon, <2>1, <1>2, <1>4 DEF FlowTypeOK
<1>6. /\ handle' \in [Workers -> [Flow!Sessions ->
                         {"none", "busy", "select", "end", "done"}]]
      /\ \A w \in Workers, t \in Flow!Sessions :
            handle[w][t] = "none" => handle'[w][t] = "none"
  <2>1. CASE handle' = handle
    BY Zenon, <2>1, <1>2 DEF FlowTypeOK
  <2>2. CASE \E r \in Flow!Reading(sess[s].link) :
                handle' = [handle EXCEPT ![r[1]][r[2]] = "end"]
    <3>1. PICK r \in Flow!Reading(sess[s].link) :
                handle' = [handle EXCEPT ![r[1]][r[2]] = "end"]
      BY Zenon, <2>2
    <3>2. PICK v \in Workers, t \in Flow!Sessions :
             handle' = [handle EXCEPT ![v][t] = "end"] /\ handle[v][t] = "select"
      BY Zenon, <3>1 DEF Flow!Reading
    <3> QED
      BY Zenon, <3>2, <1>2 DEF FlowTypeOK
  <2> QED
    BY Zenon, <2>1, <2>2 DEF Flow!CloseBegin
<1>7. close' \in [Flow!Sessions -> {"open", "sent", "closed"}]
  BY Zenon, <1>2, <1>3 DEF FlowTypeOK
<1>8. \A t \in Flow!Sessions : /\ close'[t] = "closed" <=> close[t] = "closed"
                               /\ t # s => close'[t] = close[t]
  BY Zenon, <1>2, <1>3 DEF FlowTypeOK
<1>9. close'[s] = "sent"
  BY Zenon, <1>2, <1>3 DEF FlowTypeOK
<1>11. FlowTypeOK'
  <2>1. FlowTypeOK
    BY Zenon, <1>2
  <2> QED
    BY Zenon, <1>1, <1>5, <1>6, <1>7, <2>1
       DEF FlowTypeOK, Flow!Objects, Flow!Links, Flow!Sessions
<1>12. \A t \in Flow!Sessions : FlowSessionOK(t)'
  BY <1>1, <1>2, <1>6, <1>8 DEF FlowSessionOK
<1>13. \A x \in Flow!Objects : mux[x] # Flow!None => mux[x] \in Flow!Sessions
  BY <1>2 DEF FlowBounds, FlowTypeOK, FlowObjectOK, Flow!Sessions, Flow!None
<1>14. \A x \in Flow!Objects : FlowObjectOK(x)'
  BY Zenon, <1>1, <1>2, <1>8, <1>13 DEF FlowObjectOK
<1>15. \A w \in Workers : wpc[w] # "idle" => wx[w] \in Flow!Objects
  BY Zenon, <1>2 DEF FlowWorkerOK
<1>16. \A w \in Workers : FlowWorkerOK(w)'
  BY <1>1, <1>2, <1>8, <1>13, <1>15 DEF FlowWorkerOK
<1>17. FlowOneWorks' /\ FlowLinksDiffer'
  BY Zenon, <1>1, <1>2 DEF FlowOneWorks, FlowLinksDiffer
<1>18. FlowErrorOwned'
  <2> SUFFICES ASSUME NEW l \in Flow!Links, errChan'[l]
               PROVE  \E t \in Flow!Sessions : t <= ns /\ sess[t].link = l /\ close'[t] = "sent"
    BY Zenon, <1>1 DEF FlowErrorOwned
  <2>1. CASE l = sess[s].link
    BY Zenon, <2>1, <1>9
  <2>2. CASE errChan[l]
    <3>1. PICK t \in Flow!Sessions : t <= ns /\ sess[t].link = l /\ close[t] = "sent"
      BY Zenon, <2>2, <1>2 DEF FlowErrorOwned
    <3>2. close'[t] = "sent"
      BY Zenon, <3>1, <1>8, <1>9
    <3> QED
      BY Zenon, <3>1, <3>2
  <2> QED
    BY Zenon, <2>1, <2>2, <1>5
<1> QED
  BY Zenon, <1>11, <1>12, <1>14, <1>16, <1>17, <1>18 DEF FlowIInv

\* A step of a handle() goroutine, of the outbound side or of a dying worker:
\* errors may be taken, no session is created or closed.
LEMMA FlowQuietOK ==
    ASSUME FlowBounds, FlowIInv, UNCHANGED <<Flow!objVars, sess, close, Flow!counters, wpc, wx, added>>,
           errChan' \in [Flow!Links -> BOOLEAN],
           \A l \in Flow!Links : errChan'[l] => errChan[l],
           handle' \in [Workers -> [Flow!Sessions ->
                         {"none", "busy", "select", "end", "done"}]],
           \A w \in Workers, t \in Flow!Sessions :
              handle[w][t] = "none" => handle'[w][t] = "none"
    PROVE  FlowIInv'
<1>1. /\ entry' = entry /\ status' = status /\ mux' = mux /\ xlink' = xlink
      /\ sess' = sess /\ nx' = nx /\ nl' = nl /\ ns' = ns /\ wpc' = wpc
      /\ wx' = wx /\ added' = added /\ close' = close
  BY Zenon DEF Flow!objVars, Flow!counters
<1>2. /\ FlowTypeOK /\ \A t \in Flow!Sessions : FlowSessionOK(t)
      /\ \A x \in Flow!Objects : FlowObjectOK(x)
      /\ \A w \in Workers : FlowWorkerOK(w)
      /\ FlowOneWorks /\ FlowLinksDiffer /\ FlowErrorOwned
  BY Zenon DEF FlowIInv
<1>3. FlowTypeOK'
  <2>1. FlowTypeOK
    BY Zenon, <1>2
  <2> QED
    BY Zenon, <1>1, <2>1
       DEF FlowTypeOK, Flow!Objects, Flow!Links, Flow!Sessions
<1>4. \A t \in Flow!Sessions : FlowSessionOK(t)'
  BY <1>1, <1>2 DEF FlowSessionOK
<1>5. \A x \in Flow!Objects : FlowObjectOK(x)'
  BY Zenon, <1>1, <1>2 DEF FlowObjectOK
<1>6. \A w \in Workers : FlowWorkerOK(w)'
  BY <1>1, <1>2 DEF FlowWorkerOK
<1>7. FlowOneWorks' /\ FlowLinksDiffer'
  BY Zenon, <1>1, <1>2 DEF FlowOneWorks, FlowLinksDiffer
<1>8. FlowErrorOwned'
  BY <1>1, <1>2 DEF FlowErrorOwned
<1> QED
  BY Zenon, <1>3, <1>4, <1>5, <1>6, <1>7, <1>8 DEF FlowIInv

\* A worker that only moves on in handleStatusNew.
LEMMA FlowMoveOK ==
    ASSUME FlowBounds, FlowIInv, NEW w \in Workers, NEW pc,
           pc \in {"idle", "detach", "replay", "dispatch", "bind", "add", "spawn"},
           UNCHANGED <<Flow!objVars, sess, close, Flow!counters, errChan, wx>>,
           added' = added \/ \E t \in Flow!Sessions : t <= ns /\ added' = added \cup {<<w, t>>},
           wpc' = [wpc EXCEPT ![w] = pc],
           handle' \in [Workers -> [Flow!Sessions ->
                         {"none", "busy", "select", "end", "done"}]],
           \A v \in Workers, t \in Flow!Sessions :
              handle[v][t] = "none" => handle'[v][t] = "none" \/ t <= ns,
           pc \in FlowWorking => wpc[w] \in FlowWorking,
           FlowWorkerOK(w)'
    PROVE  FlowIInv'
<1>1. /\ entry' = entry /\ status' = status /\ mux' = mux /\ xlink' = xlink
      /\ sess' = sess /\ nx' = nx /\ nl' = nl /\ ns' = ns
      /\ wx' = wx /\ errChan' = errChan /\ close' = close
  BY Zenon DEF Flow!objVars, Flow!counters
<1>2. /\ FlowTypeOK /\ \A t \in Flow!Sessions : FlowSessionOK(t)
      /\ \A x \in Flow!Objects : FlowObjectOK(x)
      /\ \A v \in Workers : FlowWorkerOK(v)
      /\ FlowOneWorks /\ FlowLinksDiffer /\ FlowErrorOwned
  BY Zenon DEF FlowIInv
<1>3. added' \subseteq Workers \X Flow!Sessions
  <2>1. added \subseteq Workers \X Flow!Sessions
    BY Zenon, <1>2 DEF FlowTypeOK
  <2> QED
    BY <2>1
<1>4. /\ wpc' \in [Workers -> {"idle", "detach", "replay", "dispatch", "bind",
                            "add", "spawn"}]
      /\ \A v \in Workers : v # w => wpc'[v] = wpc[v]
      /\ wpc'[w] = pc
  BY Zenon, <1>2 DEF FlowTypeOK
<1>5. FlowTypeOK'
  <2>1. FlowTypeOK
    BY Zenon, <1>2
  <2> QED
    BY Zenon, <1>1, <1>3, <1>4, <2>1
       DEF FlowTypeOK, Flow!Objects, Flow!Links, Flow!Sessions
<1>6. \A t \in Flow!Sessions : ~(t <= ns) => \A v \in Workers : <<v, t>> \notin added'
  BY <1>2 DEF FlowSessionOK
<1>7. \A t \in Flow!Sessions : FlowSessionOK(t)'
  <2> SUFFICES ASSUME NEW t \in Flow!Sessions PROVE FlowSessionOK(t)'
    BY Zenon DEF Flow!Sessions
  <2>1. FlowSessionOK(t)
    BY Zenon, <1>2
  <2>2. ~(t <= ns) => \A v \in Workers : handle'[v][t] = "none"
    BY Zenon, <2>1 DEF FlowSessionOK
  <2>3. ~(t <= ns) => \A v \in Workers : <<v, t>> \notin added'
    BY Zenon, <1>6
  <2> QED
    BY Zenon, <1>1, <2>1, <2>2, <2>3 DEF FlowSessionOK, Flow!Objects, Flow!Links
<1>8. \A x \in Flow!Objects : FlowObjectOK(x)'
  BY Zenon, <1>1, <1>2 DEF FlowObjectOK
<1>9. \A v \in Workers : FlowWorkerOK(v)'
  BY <1>1, <1>2, <1>4 DEF FlowWorkerOK
<1>10. FlowOneWorks'
  BY Zenon, <1>2, <1>4 DEF FlowOneWorks
<1>11. FlowLinksDiffer' /\ FlowErrorOwned'
  BY <1>1, <1>2 DEF FlowErrorOwned, FlowLinksDiffer
<1> QED
  BY Zenon, <1>5, <1>7, <1>8, <1>9, <1>10, <1>11 DEF FlowIInv

\* The session x.Mux of the object a worker handles exists.
LEMMA FlowMuxExists ==
    ASSUME FlowBounds, FlowIInv, NEW w \in Workers, wpc[w] \in {"detach", "add", "spawn"}
    PROVE  mux[wx[w]] \in Flow!Sessions /\ mux[wx[w]] <= ns
<1>1. /\ FlowTypeOK
      /\ \A x \in Flow!Objects : FlowObjectOK(x)
      /\ FlowWorkerOK(w)
  BY Zenon DEF FlowIInv
<1>2. wx[w] \in Flow!Objects /\ mux[wx[w]] # Flow!None
  BY Zenon, <1>1 DEF FlowWorkerOK
<1> QED
  BY <1>1, <1>2 DEF FlowBounds, FlowTypeOK, FlowObjectOK, Flow!Sessions, Flow!None

\* The session of the other connection is closed first.
LEMMA FlowDetachOK == ASSUME FlowBounds, FlowIInv, NEW w \in Workers, Flow!Detach(w) PROVE FlowIInv'
<1>1. PICK s : s = mux[wx[w]]
  OBVIOUS
<1>2. s \in Flow!Sessions /\ s <= ns
  BY Zenon, <1>1, FlowMuxExists DEF Flow!Detach
<1>3. wpc[w] = "detach" /\ UNCHANGED <<Flow!objVars, sess, Flow!counters, wx, added>>
  BY Zenon DEF Flow!Detach
<1>4. CASE Flow!CloseBegin(s) /\ UNCHANGED wpc
  <2>1. UNCHANGED <<Flow!objVars, sess, Flow!counters, wpc, wx, added>>
    BY Zenon, <1>3, <1>4
  <2> QED
    BY Zenon, <2>1, <1>2, <1>4, FlowBeginOK
<1>5. CASE /\ close[s] = "closed"
           /\ wpc' = [wpc EXCEPT ![w] = "replay"]
           /\ UNCHANGED <<close, errChan, handle>>
  <2>1. UNCHANGED <<Flow!objVars, sess, close, Flow!counters, errChan, wx>> /\ added' = added
    BY Zenon, <1>3, <1>5
  <2>2. FlowWorkerOK(w) /\ FlowTypeOK
    BY Zenon DEF FlowIInv
  <2>3. /\ wpc'[w] = "replay" /\ handle' = handle
        /\ entry' = entry /\ status' = status /\ mux' = mux /\ xlink' = xlink
        /\ nx' = nx /\ wx' = wx /\ close' = close
    BY Zenon, <2>1, <1>5, <2>2 DEF FlowTypeOK, Flow!objVars, Flow!counters
  <2>4. xlink[wx[w]] # Flow!None
    BY Zenon, <1>3, <2>2 DEF FlowIInv, FlowWorkerOK, FlowObjectOK
  <2>5. FlowWorkerOK(w)'
    BY Zenon, <1>1, <1>3, <1>5, <2>2, <2>3, <2>4 DEF FlowWorkerOK, FlowWorking
  <2> QED
    BY Zenon, <1>3, <1>5, <2>1, <2>2, <2>3, <2>5, FlowMoveOK DEF FlowTypeOK, FlowWorking
<1> QED
  BY Zenon, <1>1, <1>4, <1>5 DEF Flow!Detach

\* The worker has closed the session it takes over from.
LEMMA FlowReplayOK == ASSUME FlowBounds, FlowIInv, NEW w \in Workers, Flow!Replay(w) PROVE FlowIInv'
<1>1. FlowWorkerOK(w) /\ FlowTypeOK
  BY Zenon DEF FlowIInv
<1>2. PICK pc \in {"dispatch", "bind"} : wpc' = [wpc EXCEPT ![w] = pc]
  BY Zenon DEF Flow!Replay
<1>3. /\ wpc[w] = "replay" /\ added' = added /\ handle' = handle
      /\ UNCHANGED <<Flow!objVars, sess, close, Flow!counters, errChan, wx>>
  BY Zenon DEF Flow!Replay
<1>4. /\ wpc'[w] = pc
      /\ entry' = entry /\ status' = status /\ mux' = mux /\ xlink' = xlink
      /\ nx' = nx /\ wx' = wx /\ close' = close
  BY Zenon, <1>1, <1>2, <1>3 DEF FlowTypeOK, Flow!objVars, Flow!counters
<1>5. FlowWorkerOK(w)'
  BY Zenon, <1>1, <1>2, <1>3, <1>4 DEF FlowWorkerOK, FlowWorking
<1> QED
  BY Zenon, <1>1, <1>2, <1>3, <1>5, FlowMoveOK DEF FlowTypeOK, FlowWorking

\* The session enters the manager of its worker.
LEMMA FlowAddOK == ASSUME FlowBounds, FlowIInv, NEW w \in Workers, Flow!Add(w) PROVE FlowIInv'
<1>1. FlowWorkerOK(w) /\ FlowTypeOK
  BY Zenon DEF FlowIInv
<1>2. /\ wpc[w] = "add" /\ handle' = handle /\ wpc' = [wpc EXCEPT ![w] = "spawn"]
      /\ UNCHANGED <<Flow!objVars, sess, close, Flow!counters, errChan, wx>>
  BY Zenon DEF Flow!Add
<1>3. \E t \in Flow!Sessions : t <= ns /\ added' = added \cup {<<w, t>>}
  BY Zenon, <1>2, FlowMuxExists DEF Flow!Add
<1>4. /\ wpc'[w] = "spawn"
      /\ entry' = entry /\ status' = status /\ mux' = mux /\ xlink' = xlink
      /\ nx' = nx /\ wx' = wx /\ close' = close
  BY Zenon, <1>1, <1>2 DEF FlowTypeOK, Flow!objVars, Flow!counters
<1>5. FlowWorkerOK(w)'
  BY Zenon, <1>1, <1>2, <1>4 DEF FlowWorkerOK, FlowWorking
<1> QED
  BY Zenon, <1>1, <1>2, <1>3, <1>5, FlowMoveOK DEF FlowTypeOK, FlowWorking

\* handle() is started.
LEMMA FlowSpawnOK == ASSUME FlowBounds, FlowIInv, NEW w \in Workers, Flow!Spawn(w) PROVE FlowIInv'
<1>1. FlowWorkerOK(w) /\ FlowTypeOK
  BY Zenon DEF FlowIInv
<1>2. /\ wpc[w] = "spawn" /\ added' = added /\ wpc' = [wpc EXCEPT ![w] = "idle"]
      /\ UNCHANGED <<Flow!objVars, sess, close, Flow!counters, errChan, wx>>
  BY Zenon DEF Flow!Spawn
<1>3. PICK t \in Flow!Sessions : t <= ns /\ handle' = [handle EXCEPT ![w][t] = "busy"]
  BY Zenon, <1>2, FlowMuxExists DEF Flow!Spawn
<1>4. /\ handle' \in [Workers -> [Flow!Sessions ->
                         {"none", "busy", "select", "end", "done"}]]
      /\ \A v \in Workers, u \in Flow!Sessions :
              handle[v][u] = "none" => handle'[v][u] = "none" \/ u <= ns
  BY Zenon, <1>1, <1>3 DEF FlowTypeOK
<1>5. wpc'[w] = "idle"
  BY Zenon, <1>1, <1>2 DEF FlowTypeOK
<1>6. FlowWorkerOK(w)'
  BY Zenon, <1>5 DEF FlowWorkerOK, FlowWorking
<1> QED
  BY Zenon, <1>1, <1>2, <1>4, <1>6, FlowMoveOK DEF FlowWorking

\* The worker died: the new session is closed.
LEMMA FlowAddFailsOK == ASSUME FlowBounds, FlowIInv, NEW w \in Workers, Flow!AddFails(w) PROVE FlowIInv'
<1>1. PICK s : s = mux[wx[w]]
  OBVIOUS
<1>2. s \in Flow!Sessions /\ s <= ns
  BY Zenon, <1>1, FlowMuxExists DEF Flow!AddFails
<1>3. wpc[w] = "add" /\ UNCHANGED <<Flow!objVars, sess, Flow!counters, wx, added>>
  BY Zenon DEF Flow!AddFails
<1>4. CASE Flow!CloseBegin(s) /\ UNCHANGED wpc
  <2>1. UNCHANGED <<Flow!objVars, sess, Flow!counters, wpc, wx, added>>
    BY Zenon, <1>3, <1>4
  <2> QED
    BY Zenon, <2>1, <1>2, <1>4, FlowBeginOK
<1>5. CASE /\ close[s] = "closed"
           /\ wpc' = [wpc EXCEPT ![w] = "idle"]
           /\ UNCHANGED <<close, errChan, handle>>
  <2>1. /\ UNCHANGED <<Flow!objVars, sess, close, Flow!counters, errChan, wx>>
        /\ added' = added /\ handle' = handle
    BY Zenon, <1>3, <1>5
  <2>2. FlowTypeOK
    BY Zenon DEF FlowIInv
  <2>3. wpc'[w] = "idle"
    BY Zenon, <1>5, <2>2 DEF FlowTypeOK
  <2>4. FlowWorkerOK(w)'
    BY Zenon, <2>3 DEF FlowWorkerOK, FlowWorking
  <2> QED
    BY Zenon, <1>5, <2>1, <2>2, <2>4, FlowMoveOK DEF FlowTypeOK, FlowWorking
<1> QED
  BY Zenon, <1>1, <1>4, <1>5 DEF Flow!AddFails

\* A worker dies.
LEMMA FlowWorkerDiesOK == ASSUME FlowBounds, FlowIInv, NEW w \in Workers, Flow!WorkerDies(w) PROVE FlowIInv'
<1>1. FlowTypeOK
  BY Zenon DEF FlowIInv
<1>2. /\ UNCHANGED <<Flow!objVars, sess, close, Flow!counters, wpc, wx, added>>
      /\ errChan' = errChan /\ handle' = handle
  BY Zenon DEF Flow!WorkerDies
<1> QED
  BY Zenon, <1>1, <1>2, FlowQuietOK DEF FlowTypeOK

\* The outbound side ends a link.
LEMMA FlowTargetEndsOK == ASSUME FlowBounds, FlowIInv, NEW l \in Flow!Links, Flow!TargetEnds(l) PROVE FlowIInv'
<1>1. FlowTypeOK
  BY Zenon DEF FlowIInv
<1>2. /\ UNCHANGED <<Flow!objVars, sess, close, Flow!counters, wpc, wx, added>>
      /\ errChan' = errChan /\ handle' = handle
  BY Zenon DEF Flow!TargetEnds, Flow!workerVars
<1> QED
  BY Zenon, <1>1, <1>2, FlowQuietOK DEF FlowTypeOK

\* handle() exists only for sessions that were created.
LEMMA FlowHandledExists ==
    ASSUME FlowIInv, NEW w \in Workers, NEW s \in Flow!Sessions, handle[w][s] # "none"
    PROVE  s <= ns
BY Zenon DEF FlowIInv, FlowSessionOK

\* handle() reads on, or sees the end of its input.
LEMMA FlowHandleOK ==
    ASSUME FlowBounds, FlowIInv, NEW w \in Workers, NEW s \in Flow!Sessions,
           Flow!HandlePacket(w, s) \/ Flow!HandleRead(w, s) \/ Flow!HandleSeesEnd(w, s)
    PROVE  FlowIInv'
<1>1. FlowTypeOK
  BY Zenon DEF FlowIInv
<1>2. UNCHANGED <<Flow!objVars, sess, close, Flow!counters, wpc, wx, added>>
  BY Zenon DEF Flow!HandlePacket, Flow!HandleRead, Flow!HandleSeesEnd, Flow!workerVars
<1>3. handle[w][s] # "none"
  BY Zenon DEF Flow!HandlePacket, Flow!HandleRead, Flow!HandleSeesEnd
<1>4. PICK pc \in {"busy", "end", "select"} : handle' = [handle EXCEPT ![w][s] = pc]
  BY Zenon DEF Flow!HandlePacket, Flow!HandleRead, Flow!HandleSeesEnd
<1>5. /\ handle' \in [Workers -> [Flow!Sessions ->
                         {"none", "busy", "select", "end", "done"}]]
      /\ \A v \in Workers, u \in Flow!Sessions :
              handle[v][u] = "none" => handle'[v][u] = "none"
  BY Zenon, <1>1, <1>3, <1>4 DEF FlowTypeOK
<1>6. errChan' = errChan \/ errChan' = [errChan EXCEPT ![sess[s].link] = FALSE]
  BY Zenon DEF Flow!HandlePacket, Flow!HandleRead, Flow!HandleSeesEnd
<1>7. /\ errChan' \in [Flow!Links -> BOOLEAN]
      /\ \A l \in Flow!Links : errChan'[l] => errChan[l]
  BY Zenon, <1>1, <1>6 DEF FlowTypeOK
<1> QED
  BY Zenon, <1>2, <1>5, <1>7, FlowQuietOK

\* handle() closes its session.
LEMMA FlowHandleEndsOK ==
    ASSUME FlowBounds, FlowIInv, NEW w \in Workers, NEW s \in Flow!Sessions, Flow!HandleEnds(w, s)
    PROVE  FlowIInv'
<1>1. FlowTypeOK
  BY Zenon DEF FlowIInv
<1>2. UNCHANGED <<Flow!objVars, sess, Flow!counters, wpc, wx, added>>
  BY Zenon DEF Flow!HandleEnds, Flow!workerVars
<1>3. handle[w][s] = "end"
  BY Zenon DEF Flow!HandleEnds
<1>4. s <= ns
  BY Zenon, <1>3, FlowHandledExists
<1>5. CASE Flow!CloseBegin(s)
  BY Zenon, <1>2, <1>4, <1>5, FlowBeginOK
<1>6. CASE /\ handle' = [handle EXCEPT ![w][s] = "done"]
           /\ UNCHANGED <<close, errChan>>
  <2>1. /\ handle' \in [Workers -> [Flow!Sessions ->
                         {"none", "busy", "select", "end", "done"}]]
        /\ \A v \in Workers, u \in Flow!Sessions :
              handle[v][u] = "none" => handle'[v][u] = "none"
    BY Zenon, <1>1, <1>3, <1>6 DEF FlowTypeOK
  <2>2. /\ UNCHANGED <<Flow!objVars, sess, close, Flow!counters, wpc, wx, added>>
        /\ errChan' = errChan
    BY Zenon, <1>2, <1>6
  <2> QED
    BY Zenon, <1>1, <2>1, <2>2, FlowQuietOK DEF FlowTypeOK
<1> QED
  BY Zenon, <1>5, <1>6 DEF Flow!HandleEnds

\* The reader or the death of the worker closes a session.
LEMMA FlowPeerClosesOK == ASSUME FlowBounds, FlowIInv, NEW s \in Flow!Sessions, Flow!PeerCloses(s) PROVE FlowIInv'
<1>1. /\ s <= ns /\ Flow!CloseBegin(s)
      /\ UNCHANGED <<Flow!objVars, sess, Flow!counters, wpc, wx, added>>
  BY Zenon DEF Flow!PeerCloses, Flow!workerVars
<1> QED
  BY Zenon, <1>1, FlowBeginOK

\* The deletion of an entry that no handleStatusNew works on afterwards.
LEMMA FlowDeleteOK ==
    ASSUME FlowBounds, FlowIInv, entry' = Flow!None,
           UNCHANGED <<status, mux, xlink, sess, close, Flow!counters, errChan, wx,
                       handle, added>>,
           wpc' \in [Workers -> {"idle", "detach", "replay", "dispatch", "bind",
                                 "add", "spawn"}],
           \A v \in Workers : wpc'[v] \notin FlowWorking,
           \A v \in Workers : wpc'[v] = wpc[v] \/ wpc'[v] = "idle"
    PROVE  FlowIInv'
<1>1. /\ FlowTypeOK /\ \A t \in Flow!Sessions : FlowSessionOK(t)
      /\ \A x \in Flow!Objects : FlowObjectOK(x)
      /\ \A v \in Workers : FlowWorkerOK(v)
      /\ FlowOneWorks /\ FlowLinksDiffer /\ FlowErrorOwned
  BY Zenon DEF FlowIInv
<1>2. /\ status' = status /\ mux' = mux /\ xlink' = xlink /\ sess' = sess
      /\ close' = close /\ nx' = nx /\ nl' = nl /\ ns' = ns
      /\ errChan' = errChan /\ wx' = wx /\ handle' = handle /\ added' = added
  BY Zenon DEF Flow!counters
<1>3. entry' \in Nat /\ entry' <= nx
  BY <1>1 DEF FlowTypeOK, Flow!None
<1>4. FlowTypeOK'
  <2>1. FlowTypeOK
    BY Zenon, <1>1
  <2> QED
    BY Zenon, <1>2, <1>3, <2>1
       DEF FlowTypeOK, Flow!Objects, Flow!Links, Flow!Sessions
<1>5. \A t \in Flow!Sessions : FlowSessionOK(t)'
  BY <1>1, <1>2 DEF FlowSessionOK
<1>6. \A x \in Flow!Objects : FlowObjectOK(x)'
  BY Zenon, <1>1, <1>2 DEF FlowObjectOK
<1>7. \A v \in Workers : FlowWorkerOK(v)'
  <2> SUFFICES ASSUME NEW v \in Workers PROVE FlowWorkerOK(v)'
    BY Zenon
  <2>1. /\ FlowWorkerOK(v) /\ wpc'[v] \notin FlowWorking
        /\ wpc'[v] # "idle" => wpc'[v] = wpc[v]
    BY Zenon, <1>1
  <2> QED
    BY Zenon, <1>2, <2>1 DEF FlowWorkerOK, FlowWorking, Flow!Objects
<1>8. FlowOneWorks'
  BY Zenon DEF FlowOneWorks
<1>9. FlowLinksDiffer' /\ FlowErrorOwned'
  <2>1. FlowLinksDiffer /\ FlowErrorOwned
    BY Zenon, <1>1
  <2> QED
    BY <1>2, <2>1 DEF FlowLinksDiffer, FlowErrorOwned
<1> QED
  BY Zenon, <1>4, <1>5, <1>6, <1>7, <1>8, <1>9 DEF FlowIInv

\* The expiry interrupts the link of a session that is closed already.
LEMMA FlowExpireOK == ASSUME FlowBounds, FlowIInv, Flow!Expire PROVE FlowIInv'
<1>1. FlowTypeOK /\ \A v \in Workers : FlowWorkerOK(v)
  BY Zenon DEF FlowIInv
<1>2. /\ entry' = Flow!None /\ status[entry] = "Expiring" /\ wpc' = wpc
      /\ UNCHANGED <<status, mux, xlink, sess, close, Flow!counters, errChan, wx,
                     handle, added>>
  BY Zenon DEF Flow!Expire, Flow!workerVars
<1>3. \A v \in Workers : wpc[v] \notin FlowWorking
  BY Zenon, <1>1, <1>2 DEF FlowWorkerOK
<1> QED
  BY Zenon, <1>1, <1>2, <1>3, FlowDeleteOK DEF FlowTypeOK

\* Without a link the entry is deleted.
LEMMA FlowDispatchFailsOK ==
    ASSUME FlowBounds, FlowIInv, NEW w \in Workers, Flow!DispatchFails(w) PROVE FlowIInv'
<1>1. FlowTypeOK /\ FlowOneWorks
  BY Zenon DEF FlowIInv
<1>2. /\ entry' = Flow!None /\ wpc[w] = "dispatch"
      /\ wpc' = [wpc EXCEPT ![w] = "idle"]
      /\ UNCHANGED <<status, mux, xlink, sess, close, Flow!counters, errChan, wx,
                     handle, added>>
  BY Zenon DEF Flow!DispatchFails
<1>3. /\ wpc' \in [Workers -> {"idle", "detach", "replay", "dispatch", "bind",
                               "add", "spawn"}]
      /\ wpc'[w] = "idle"
      /\ \A v \in Workers : v # w => wpc'[v] = wpc[v]
  BY Zenon, <1>1, <1>2 DEF FlowTypeOK
<1>4. \A v \in Workers : wpc'[v] \notin FlowWorking
  BY Zenon, <1>1, <1>2, <1>3 DEF FlowOneWorks, FlowWorking
<1> QED
  BY Zenon, <1>2, <1>3, <1>4, FlowDeleteOK

\* Recover, the change of status and Remove.
LEMMA FlowCloseEndOK == ASSUME FlowBounds, FlowIInv, NEW s \in Flow!Sessions, Flow!CloseEnd(s) PROVE FlowIInv'
<1>1. /\ FlowTypeOK /\ \A t \in Flow!Sessions : FlowSessionOK(t)
      /\ \A x \in Flow!Objects : FlowObjectOK(x)
      /\ \A v \in Workers : FlowWorkerOK(v)
      /\ FlowOneWorks /\ FlowLinksDiffer /\ FlowErrorOwned
  BY Zenon DEF FlowIInv
<1>2. /\ close[s] = "sent" /\ close' = [close EXCEPT ![s] = "closed"]
      /\ errChan' = [errChan EXCEPT ![sess[s].link] = FALSE]
      /\ entry' = entry /\ mux' = mux /\ xlink' = xlink /\ sess' = sess
      /\ nx' = nx /\ nl' = nl /\ ns' = ns /\ wpc' = wpc /\ wx' = wx
      /\ handle' = handle /\ added' = added \ {<<sess[s].worker, s>>}
  BY Zenon DEF Flow!CloseEnd, Flow!counters
<1>3. PICK x : x = sess[s].x
  OBVIOUS
<1>4. /\ s <= ns /\ x \in Flow!Objects /\ x <= nx
      /\ mux[x] = s /\ sess[s].link \in Flow!Links
  BY Zenon, <1>1, <1>2, <1>3 DEF FlowSessionOK
<1>5. /\ status' \in [Flow!Objects -> {"Initializing", "Active", "Expiring"}]
      /\ \A y \in Flow!Objects : y # x => status'[y] = status[y]
      /\ status'[x] = "Initializing" <=> status[x] = "Initializing"
  <2>1. PICK st \in {"Initializing", "Active", "Expiring"} :
            /\ status' = [status EXCEPT ![x] = st]
            /\ st = "Initializing" <=> status[x] = "Initializing"
    BY Zenon, <1>1, <1>3, <1>4 DEF Flow!CloseEnd, Flow!PutUpForExpiry, FlowTypeOK
  <2> QED
    BY Zenon, <2>1, <1>1, <1>4 DEF FlowTypeOK
<1>6. /\ close' \in [Flow!Sessions -> {"open", "sent", "closed"}]
      /\ close'[s] = "closed"
      /\ \A t \in Flow!Sessions : t # s => close'[t] = close[t]
      /\ errChan' \in [Flow!Links -> BOOLEAN]
      /\ ~errChan'[sess[s].link]
      /\ \A l \in Flow!Links : errChan'[l] => errChan[l]
  BY Zenon, <1>1, <1>2, <1>4 DEF FlowTypeOK
<1>7. added' \subseteq Workers \X Flow!Sessions /\ added' \subseteq added
  BY Zenon, <1>1, <1>2 DEF FlowTypeOK
<1>8. FlowTypeOK'
  <2>1. FlowTypeOK
    BY Zenon, <1>1
  <2> QED
    BY Zenon, <1>2, <1>5, <1>6, <1>7, <2>1
       DEF FlowTypeOK, Flow!Objects, Flow!Links, Flow!Sessions
<1>9. \A t \in Flow!Sessions : FlowSessionOK(t)'
  BY <1>1, <1>2, <1>4, <1>6, <1>7 DEF FlowSessionOK
<1>10. \A y \in Flow!Objects : mux[y] # Flow!None => mux[y] \in Flow!Sessions
  <2> SUFFICES ASSUME NEW y \in Flow!Objects, mux[y] # Flow!None
               PROVE  mux[y] \in Flow!Sessions
    BY Zenon
  <2>1. mux[y] \in Nat /\ mux[y] <= ns /\ ns \in Nat /\ ns <= MaxSessions
    BY Zenon, <1>1 DEF FlowTypeOK, FlowObjectOK
  <2> QED
    BY <2>1 DEF FlowBounds, Flow!Sessions, Flow!None
<1>11. \A y \in Flow!Objects : FlowObjectOK(y)'
  BY <1>1, <1>2, <1>4, <1>5, <1>6, <1>10 DEF FlowObjectOK
<1>12. \A v \in Workers : wpc[v] # "idle" => wx[v] \in Flow!Objects
  BY Zenon, <1>1 DEF FlowWorkerOK
<1>13. \A v \in Workers : FlowWorkerOK(v)'
  BY <1>1, <1>2, <1>5, <1>6, <1>10, <1>12 DEF FlowWorkerOK, FlowWorking
<1>14. FlowOneWorks' /\ FlowLinksDiffer'
  BY Zenon, <1>1, <1>2 DEF FlowOneWorks, FlowLinksDiffer
<1>15. FlowErrorOwned'
  BY <1>1, <1>2, <1>6 DEF FlowErrorOwned
<1> QED
  BY Zenon, <1>8, <1>9, <1>11, <1>13, <1>14, <1>15 DEF FlowIInv

\* The lookup of the identifier under the lock of the map.
LEMMA FlowLookupOK == ASSUME FlowBounds, FlowIInv, NEW w \in Workers, Flow!Lookup(w) PROVE FlowIInv'
<1>1. /\ FlowTypeOK /\ \A t \in Flow!Sessions : FlowSessionOK(t)
      /\ \A x \in Flow!Objects : FlowObjectOK(x)
      /\ \A v \in Workers : FlowWorkerOK(v)
      /\ FlowOneWorks /\ FlowLinksDiffer /\ FlowErrorOwned
  BY Zenon DEF FlowIInv
<1>2. /\ wpc[w] = "idle" /\ mux' = mux /\ xlink' = xlink /\ sess' = sess
      /\ close' = close /\ nl' = nl /\ ns' = ns /\ errChan' = errChan
      /\ handle' = handle /\ added' = added
  BY Zenon DEF Flow!Lookup
<1>3. FlowOneWorks' /\ FlowLinksDiffer' /\ FlowErrorOwned'
  <2>1. \A v \in Workers : wpc[v] \notin FlowWorking
    BY <1>1 DEF Flow!Lookup, FlowWorkerOK, Flow!Conflict, Flow!None, Flow!Objects, FlowWorking
  <2>2. \A v \in Workers : v # w => wpc'[v] = wpc[v]
    BY Zenon, <1>1 DEF Flow!Lookup, FlowTypeOK
  <2>3. FlowOneWorks'
    BY Zenon, <2>1, <2>2 DEF FlowOneWorks
  <2>4. FlowLinksDiffer' /\ FlowErrorOwned'
    BY Zenon, <1>1, <1>2 DEF FlowLinksDiffer, FlowErrorOwned
  <2> QED
    BY Zenon, <2>3, <2>4
<1>4. CASE /\ entry = Flow!None /\ nx < MaxObjects
           /\ nx' = nx + 1
           /\ entry' = nx + 1
           /\ wx' = [wx EXCEPT ![w] = nx + 1]
           /\ wpc' = [wpc EXCEPT ![w] = "dispatch"]
           /\ UNCHANGED status
  <2>1. /\ nx + 1 \in Nat /\ nx + 1 <= MaxObjects /\ nx + 1 \in Flow!Objects
        /\ ~(nx + 1 <= nx)
        /\ \A y \in Flow!Objects : y <= nx => y <= nx + 1
    BY <1>1, <1>4 DEF FlowTypeOK, FlowBounds, Flow!Objects
  <2>2. /\ wpc' \in [Workers -> {"idle", "detach", "replay", "dispatch", "bind",
                                 "add", "spawn"}]
        /\ wx' \in [Workers -> Nat]
        /\ wpc'[w] = "dispatch" /\ wx'[w] = nx + 1
        /\ \A v \in Workers : v # w => wpc'[v] = wpc[v] /\ wx'[v] = wx[v]
    BY Zenon, <1>1, <1>4, <2>1 DEF FlowTypeOK
  <2>3. nx + 1 <= nx + 1
    BY <2>1
  <2>4. FlowTypeOK'
    <3>1. /\ nx' \in Nat /\ nl' \in Nat /\ ns' \in Nat
          /\ nx' <= MaxObjects /\ nl' <= MaxLinks /\ ns' <= MaxSessions
          /\ entry' \in Nat /\ entry' <= nx'
      BY Zenon, <1>1, <1>2, <1>4, <2>1, <2>3 DEF FlowTypeOK
    <3>2. status' = status
      BY Zenon, <1>4
    <3> QED
      BY Zenon, <1>1, <1>2, <2>2, <3>1, <3>2
         DEF FlowTypeOK, Flow!Objects, Flow!Links, Flow!Sessions
  <2>5. \A t \in Flow!Sessions : FlowSessionOK(t)'
    <3> SUFFICES ASSUME NEW t \in Flow!Sessions PROVE FlowSessionOK(t)'
      BY Zenon DEF Flow!Sessions
    <3>1. FlowSessionOK(t) /\ nx' = nx + 1
      BY Zenon, <1>1, <1>4
    <3> QED
      BY Zenon, <1>2, <2>1, <3>1 DEF FlowSessionOK, Flow!Objects, Flow!Links
  <2>6. \A y \in Flow!Objects : FlowObjectOK(y)'
    <3> SUFFICES ASSUME NEW y \in Flow!Objects PROVE FlowObjectOK(y)'
      BY Zenon DEF Flow!Objects
    <3>1. FlowObjectOK(y) /\ nx' = nx + 1 /\ status' = status
      BY Zenon, <1>1, <1>4
    <3> QED
      BY Zenon, <1>2, <2>1, <3>1 DEF FlowObjectOK
  <2>7. FlowWorkerOK(w)'
    BY <1>1, <1>2, <1>4, <2>1, <2>2, <2>3 DEF FlowWorkerOK, FlowObjectOK, FlowWorking
  <2>8. \A v \in Workers : wpc[v] \notin FlowWorking
    BY <1>1, <1>4 DEF FlowWorkerOK, Flow!None, Flow!Objects, FlowWorking
  <2>9. \A v \in Workers : v # w => FlowWorkerOK(v)'
    <3> SUFFICES ASSUME NEW v \in Workers, v # w PROVE FlowWorkerOK(v)'
      BY Zenon
    <3>1. FlowWorkerOK(v) /\ wpc[v] \notin FlowWorking /\ nx' = nx + 1 /\ status' = status
      BY Zenon, <1>1, <1>4, <2>8
    <3> QED
      BY Zenon, <1>2, <2>1, <2>2, <3>1 DEF FlowWorkerOK, FlowWorking, Flow!Objects
  <2> QED
    BY Zenon, <1>3, <2>4, <2>5, <2>6, <2>7, <2>9 DEF FlowIInv
<1>5. CASE /\ entry # Flow!None
           /\ ~Flow!Conflict(entry)
           /\ status' = [status EXCEPT ![entry] = "Initializing"]
           /\ wx' = [wx EXCEPT ![w] = entry]
           /\ wpc' = [wpc EXCEPT ![w] = "detach"]
           /\ UNCHANGED <<nx, entry>>
  <2>1. /\ entry \in Flow!Objects /\ entry <= nx /\ nx' = nx /\ entry' = entry
        /\ entry \in Nat
    BY <1>1, <1>5 DEF FlowTypeOK, FlowBounds, Flow!Objects, Flow!None
  <2>2. /\ wpc' \in [Workers -> {"idle", "detach", "replay", "dispatch", "bind",
                                 "add", "spawn"}]
        /\ wx' \in [Workers -> Nat]
        /\ wpc'[w] = "detach" /\ wx'[w] = entry
        /\ \A v \in Workers : v # w => wpc'[v] = wpc[v] /\ wx'[v] = wx[v]
        /\ status' \in [Flow!Objects -> {"Initializing", "Active", "Expiring"}]
        /\ status'[entry] = "Initializing"
        /\ \A y \in Flow!Objects : y # entry => status'[y] = status[y]
    BY Zenon, <1>1, <1>5, <2>1 DEF FlowTypeOK
  <2>3. mux[entry] # Flow!None
    BY Zenon, <1>1, <1>5, <2>1 DEF FlowObjectOK, Flow!Conflict
  <2>4. FlowTypeOK'
    <3>1. FlowTypeOK
      BY Zenon, <1>1
    <3> QED
      BY Zenon, <1>2, <1>5, <2>1, <2>2, <3>1
         DEF FlowTypeOK, Flow!Objects, Flow!Links, Flow!Sessions
  <2>5. \A t \in Flow!Sessions : FlowSessionOK(t)'
    BY <1>1, <1>2, <1>5, <2>1 DEF FlowSessionOK
  <2>6. \A y \in Flow!Objects : FlowObjectOK(y)'
    <3> SUFFICES ASSUME NEW y \in Flow!Objects PROVE FlowObjectOK(y)'
      OBVIOUS
    <3>1. CASE y = entry
      BY Zenon, <3>1, <1>1, <1>2, <1>5, <2>1, <2>2 DEF FlowObjectOK
    <3>2. CASE y # entry
      BY <3>2, <1>1, <1>2, <1>5, <2>1, <2>2 DEF FlowObjectOK
    <3> QED
      BY Zenon, <3>1, <3>2
  <2>7. FlowWorkerOK(w)'
    BY <1>1, <1>2, <1>5, <2>1, <2>2, <2>3 DEF FlowWorkerOK, FlowWorking
  <2>8. \A v \in Workers : wpc[v] \notin FlowWorking
    BY Zenon, <1>1, <1>5 DEF FlowWorkerOK, Flow!Conflict
  <2>9. \A v \in Workers : v # w => FlowWorkerOK(v)'
    BY <1>1, <1>2, <1>5, <2>1, <2>2, <2>8 DEF FlowWorkerOK, FlowWorking
  <2> QED
    BY Zenon, <1>3, <2>4, <2>5, <2>6, <2>7, <2>9 DEF FlowIInv
<1> QED
  BY Zenon, <1>4, <1>5 DEF Flow!Lookup

\* No session of the object that is to be bound anew is left open.
LEMMA FlowNoneOpen ==
    ASSUME FlowBounds, FlowIInv, NEW w \in Workers, wpc[w] \in {"replay", "dispatch", "bind"},
           NEW s \in Flow!Sessions, s <= ns, close[s] # "closed"
    PROVE  sess[s].x # wx[w]
<1>1. FlowSessionOK(s) /\ FlowWorkerOK(w) /\ FlowTypeOK
  BY Zenon DEF FlowIInv
<1>2. s # Flow!None
  BY DEF Flow!Sessions, Flow!None
<1>3. mux[sess[s].x] = s
  BY Zenon, <1>1 DEF FlowSessionOK
<1>4. mux[wx[w]] = Flow!None \/ close[mux[wx[w]]] = "closed"
  BY Zenon, <1>1 DEF FlowWorkerOK
<1> QED
  BY Zenon, <1>2, <1>3, <1>4

\* A fresh link from the dispatcher.
LEMMA FlowDispatchLinkOK == ASSUME FlowBounds, FlowIInv, NEW w \in Workers, Flow!DispatchLink(w) PROVE FlowIInv'
<1>1. /\ FlowTypeOK /\ \A t \in Flow!Sessions : FlowSessionOK(t)
      /\ \A x \in Flow!Objects : FlowObjectOK(x)
      /\ \A v \in Workers : FlowWorkerOK(v)
      /\ FlowOneWorks /\ FlowLinksDiffer /\ FlowErrorOwned
  BY Zenon DEF FlowIInv
<1>2. /\ wpc[w] = "dispatch" /\ nl < MaxLinks /\ nl' = nl + 1
      /\ xlink' = [xlink EXCEPT ![wx[w]] = nl + 1]
      /\ wpc' = [wpc EXCEPT ![w] = "bind"]
      /\ entry' = entry /\ status' = status /\ mux' = mux /\ sess' = sess
      /\ close' = close /\ nx' = nx /\ ns' = ns /\ errChan' = errChan
      /\ wx' = wx /\ handle' = handle /\ added' = added
  BY Zenon DEF Flow!DispatchLink
<1>3. PICK x : x = wx[w]
  OBVIOUS
<1>4. x \in Flow!Objects /\ x <= nx
  BY Zenon, <1>1, <1>2, <1>3 DEF FlowWorkerOK
<1>5. /\ nl + 1 \in Nat /\ nl + 1 <= MaxLinks /\ nl + 1 # Flow!None
      /\ \A l \in Nat : l <= nl => l <= nl + 1 /\ l # nl + 1
      /\ nl + 1 <= nl + 1
  BY <1>1, <1>2 DEF FlowTypeOK, FlowBounds, Flow!None
<1>6. /\ xlink' \in [Flow!Objects -> Nat]
      /\ xlink'[x] = nl + 1
      /\ \A y \in Flow!Objects : y # x => xlink'[y] = xlink[y]
      /\ wpc' \in [Workers -> {"idle", "detach", "replay", "dispatch", "bind",
                               "add", "spawn"}]
      /\ wpc'[w] = "bind"
      /\ \A v \in Workers : v # w => wpc'[v] = wpc[v]
  BY Zenon, <1>1, <1>2, <1>3, <1>4, <1>5 DEF FlowTypeOK
<1>7. FlowTypeOK'
  <2>1. FlowTypeOK
    BY Zenon, <1>1
  <2> QED
    BY Zenon, <1>2, <1>5, <1>6, <2>1
       DEF FlowTypeOK, Flow!Objects, Flow!Links, Flow!Sessions
<1>8. \A t \in Flow!Sessions : FlowSessionOK(t)'
  <2> SUFFICES ASSUME NEW t \in Flow!Sessions PROVE FlowSessionOK(t)'
    OBVIOUS
  <2>1. t <= ns /\ close[t] # "closed" => sess[t].x # x
    BY Zenon, <1>2, <1>3, FlowNoneOpen
  <2>2. t <= ns => sess[t].link \in Nat
    BY <1>1 DEF FlowSessionOK, Flow!Links
  <2>3. FlowSessionOK(t)
    BY Zenon, <1>1
  <2> QED
    BY Zenon, <1>2, <1>5, <1>6, <2>1, <2>2, <2>3 DEF FlowSessionOK
<1>9. \A y \in Flow!Objects : FlowObjectOK(y)'
  <2> SUFFICES ASSUME NEW y \in Flow!Objects PROVE FlowObjectOK(y)'
    OBVIOUS
  <2>1. CASE y = x
    BY Zenon, <1>1, <1>2, <1>4, <1>5, <1>6, <2>1 DEF FlowObjectOK
  <2>2. CASE y # x
    <3>1. xlink[y] \in Nat /\ FlowObjectOK(y)
      BY Zenon, <1>1 DEF FlowTypeOK
    <3> QED
      BY Zenon, <3>1, <1>2, <1>4, <1>5, <1>6, <2>2 DEF FlowObjectOK
  <2> QED
    BY Zenon, <2>1, <2>2
<1>10. \A v \in Workers : FlowWorkerOK(v)'
  <2> SUFFICES ASSUME NEW v \in Workers PROVE FlowWorkerOK(v)'
    OBVIOUS
  <2>1. FlowWorkerOK(v) /\ FlowWorkerOK(w)
    BY Zenon, <1>1
  <2>2. v # w => wpc[v] \notin FlowWorking
    BY Zenon, <1>1, <1>2 DEF FlowOneWorks, FlowWorking
  <2>3. CASE v = w
    BY Zenon, <2>1, <2>3, <1>2, <1>3, <1>5, <1>6 DEF FlowWorkerOK, FlowWorking
  <2>4. CASE v # w
    BY Zenon, <2>1, <2>2, <2>4, <1>2, <1>6 DEF FlowWorkerOK, FlowWorking
  <2> QED
    BY Zenon, <2>3, <2>4
<1>11. FlowOneWorks'
  BY Zenon, <1>1, <1>2, <1>6 DEF FlowOneWorks, FlowWorking
<1>12. FlowLinksDiffer'
  <2>1. \A y \in Flow!Objects : xlink[y] # nl + 1
    BY Zenon, <1>1, <1>5 DEF FlowObjectOK, FlowTypeOK
  <2> QED
    BY <1>1, <1>4, <1>6, <2>1 DEF FlowLinksDiffer
<1>13. FlowErrorOwned'
  BY Zenon, <1>1, <1>2 DEF FlowErrorOwned
<1> QED
  BY Zenon, <1>7, <1>8, <1>9, <1>10, <1>11, <1>12, <1>13 DEF FlowIInv

\* The new session over the object's link.
LEMMA FlowBindOK == ASSUME FlowBounds, FlowIInv, NEW w \in Workers, Flow!Bind(w) PROVE FlowIInv'
<1>1. /\ FlowTypeOK /\ \A t \in Flow!Sessions : FlowSessionOK(t)
      /\ \A x \in Flow!Objects : FlowObjectOK(x)
      /\ \A v \in Workers : FlowWorkerOK(v)
      /\ FlowOneWorks /\ FlowLinksDiffer /\ FlowErrorOwned
  BY Zenon DEF FlowIInv
<1>2. PICK x : x = wx[w]
  OBVIOUS
<1>3. /\ wpc[w] = "bind" /\ ns < MaxSessions /\ ns' = ns + 1
      /\ sess' = [sess EXCEPT ![ns + 1] = [x |-> x, link |-> xlink[x], worker |-> w]]
      /\ mux' = [mux EXCEPT ![x] = ns + 1]
      /\ status' = [status EXCEPT ![x] = "Active"]
      /\ wpc' = [wpc EXCEPT ![w] = "add"]
      /\ entry' = entry /\ xlink' = xlink /\ close' = close /\ nx' = nx
      /\ nl' = nl /\ errChan' = errChan /\ wx' = wx /\ handle' = handle
      /\ added' = added
  BY Zenon, <1>2 DEF Flow!Bind
<1>4. /\ x \in Flow!Objects /\ x <= nx /\ xlink[x] # Flow!None /\ xlink[x] \in Nat
      /\ xlink[x] <= nl
  BY Zenon, <1>1, <1>2, <1>3 DEF FlowWorkerOK, FlowTypeOK, FlowObjectOK
<1>5. xlink[x] \in Flow!Links
  BY <1>1, <1>4 DEF FlowTypeOK, Flow!Links, Flow!None, FlowBounds
<1>6. /\ ns + 1 \in Flow!Sessions /\ ns + 1 \in Nat /\ ns + 1 <= MaxSessions /\ ns + 1 # Flow!None
      /\ \A t \in Nat : t <= ns => t <= ns + 1 /\ t # ns + 1
      /\ ns + 1 <= ns + 1 /\ ~(ns + 1 <= ns)
      /\ \A t \in Flow!Sessions : t # ns + 1 => (t <= ns + 1 <=> t <= ns)
      /\ \A t \in Flow!Sessions : t \in Nat
  BY <1>1, <1>3 DEF FlowTypeOK, FlowBounds, Flow!None, Flow!Sessions
<1>7. /\ sess' \in [Flow!Sessions -> [x : Nat, link : Nat, worker : Workers \cup {Flow!None}]]
      /\ sess'[ns + 1].x = x /\ sess'[ns + 1].link = xlink[x]
      /\ \A t \in Flow!Sessions : t # ns + 1 => sess'[t] = sess[t]
  <2>1. [x |-> x, link |-> xlink[x], worker |-> w]
           \in [x : Nat, link : Nat, worker : Workers \cup {Flow!None}]
    BY <1>4 DEF Flow!Objects
  <2> QED
    BY Zenon, <1>1, <1>3, <1>6, <2>1 DEF FlowTypeOK
<1>8. /\ mux' \in [Flow!Objects -> Nat] /\ mux'[x] = ns + 1
      /\ \A y \in Flow!Objects : y # x => mux'[y] = mux[y]
  BY Zenon, <1>1, <1>3, <1>4, <1>6 DEF FlowTypeOK
<1>9. /\ status' \in [Flow!Objects -> {"Initializing", "Active", "Expiring"}]
      /\ status'[x] = "Active"
      /\ \A y \in Flow!Objects : y # x => status'[y] = status[y]
  BY Zenon, <1>1, <1>3, <1>4 DEF FlowTypeOK
<1>10. /\ wpc' \in [Workers -> {"idle", "detach", "replay", "dispatch", "bind",
                               "add", "spawn"}]
       /\ wpc'[w] = "add"
       /\ \A v \in Workers : v # w => wpc'[v] = wpc[v]
  BY Zenon, <1>1, <1>3 DEF FlowTypeOK
<1>11. FlowTypeOK'
  <2>1. FlowTypeOK
    BY Zenon, <1>1
  <2> QED
    BY Zenon, <1>3, <1>6, <1>7, <1>8, <1>9, <1>10, <2>1
       DEF FlowTypeOK, Flow!Objects, Flow!Links, Flow!Sessions
<1>12. \A t \in Flow!Sessions : FlowSessionOK(t)'
  <2> SUFFICES ASSUME NEW t \in Flow!Sessions PROVE FlowSessionOK(t)'
    OBVIOUS
  <2>1. CASE t = ns + 1
    BY Zenon, <2>1, <1>3, <1>4, <1>5, <1>6, <1>7, <1>8 DEF FlowSessionOK
  <2>2. CASE t # ns + 1
    <3>1. t <= ns /\ close[t] # "closed" => sess[t].x # x
      BY Zenon, <1>2, <1>3, FlowNoneOpen
    <3>2. FlowSessionOK(t) /\ sess'[t] = sess[t] /\ (t <= ns' <=> t <= ns)
      BY Zenon, <1>1, <1>3, <1>6, <1>7, <2>2
    <3> QED
      BY Zenon, <1>3, <1>8, <3>1, <3>2 DEF FlowSessionOK
  <2> QED
    BY Zenon, <2>1, <2>2
<1>13. \A y \in Flow!Objects : FlowObjectOK(y)'
  <2> SUFFICES ASSUME NEW y \in Flow!Objects PROVE FlowObjectOK(y)'
    OBVIOUS
  <2>1. CASE y = x
    BY Zenon, <2>1, <1>1, <1>3, <1>4, <1>6, <1>8, <1>9 DEF FlowObjectOK
  <2>2. CASE y # x
    <3>1. mux[y] \in Nat /\ FlowObjectOK(y)
      BY Zenon, <1>1 DEF FlowTypeOK
    <3>2. mux'[y] = mux[y] /\ status'[y] = status[y] /\ mux[y] <= ns'
      BY Zenon, <3>1, <2>2, <1>3, <1>6, <1>8, <1>9 DEF FlowObjectOK
    <3> QED
      BY Zenon, <3>1, <3>2, <1>3 DEF FlowObjectOK
  <2> QED
    BY Zenon, <2>1, <2>2
<1>14. \A v \in Workers : FlowWorkerOK(v)'
  <2> SUFFICES ASSUME NEW v \in Workers PROVE FlowWorkerOK(v)'
    OBVIOUS
  <2>1. FlowWorkerOK(v)
    BY Zenon, <1>1
  <2>2. CASE v = w
    BY Zenon, <2>1, <2>2, <1>2, <1>3, <1>4, <1>6, <1>8, <1>10 DEF FlowWorkerOK, FlowWorking
  <2>3. CASE v # w
    <3>1. wpc[v] \notin FlowWorking /\ wpc'[v] = wpc[v]
      BY Zenon, <2>3, <1>1, <1>3, <1>10 DEF FlowOneWorks, FlowWorking
    <3>2. wpc[v] # "idle" => wx[v] \in Flow!Objects
      BY Zenon, <2>1 DEF FlowWorkerOK
    <3>3. \A y \in Flow!Objects : mux[y] # Flow!None => mux'[y] # Flow!None
      BY Zenon, <1>6, <1>8
    <3> QED
      BY Zenon, <2>1, <3>1, <3>2, <3>3, <1>3 DEF FlowWorkerOK, FlowWorking
  <2> QED
    BY Zenon, <2>2, <2>3
<1>15. FlowOneWorks'
  BY Zenon, <1>1, <1>10 DEF FlowOneWorks, FlowWorking
<1>16. FlowLinksDiffer'
  BY Zenon, <1>1, <1>3 DEF FlowLinksDiffer
<1>17. FlowErrorOwned'
  <2> SUFFICES ASSUME NEW l \in Flow!Links, errChan[l]
               PROVE  \E t \in Flow!Sessions : t <= ns' /\ sess'[t].link = l /\ close'[t] = "sent"
    BY Zenon, <1>3 DEF FlowErrorOwned
  <2>1. PICK t \in Flow!Sessions : t <= ns /\ sess[t].link = l /\ close[t] = "sent"
    BY Zenon, <1>1 DEF FlowErrorOwned
  <2>2. t # ns + 1 /\ t <= ns'
    BY Zenon, <2>1, <1>3, <1>6
  <2> QED
    BY Zenon, <2>1, <2>2, <1>3, <1>7
<1> QED
  BY Zenon, <1>11, <1>12, <1>13, <1>14, <1>15, <1>16, <1>17 DEF FlowIInv

\* Every step keeps the invariant.
LEMMA FlowNextOK == ASSUME FlowBounds PROVE FlowIInv /\ [Flow!Next]_Flow!vars => FlowIInv'
<1> SUFFICES ASSUME FlowIInv, [Flow!Next]_Flow!vars PROVE FlowIInv'
  OBVIOUS
<1>1. CASE UNCHANGED Flow!vars
  <2>1. FlowTypeOK
    BY Zenon DEF FlowIInv
  <2>2. /\ UNCHANGED <<Flow!objVars, sess, close, Flow!counters, wpc, wx, added>>
        /\ errChan' = errChan /\ handle' = handle
    BY Zenon, <1>1 DEF Flow!vars, Flow!workerVars
  <2> QED
    BY Zenon, <2>1, <2>2, FlowQuietOK DEF FlowTypeOK
<1>2. CASE \E w \in Workers :
             \/ Flow!Lookup(w) \/ Flow!Detach(w) \/ Flow!Replay(w) \/ Flow!DispatchLink(w)
             \/ Flow!DispatchFails(w) \/ Flow!Bind(w) \/ Flow!Add(w) \/ Flow!Spawn(w) \/ Flow!AddFails(w)
             \/ Flow!WorkerDies(w)
             \/ \E s \in Flow!Sessions :
                   \/ Flow!HandlePacket(w, s) \/ Flow!HandleRead(w, s)
                   \/ Flow!HandleSeesEnd(w, s) \/ Flow!HandleEnds(w, s)
  BY Zenon, <1>2, FlowLookupOK, FlowDetachOK, FlowReplayOK, FlowDispatchLinkOK, FlowDispatchFailsOK,
     FlowBindOK, FlowAddOK, FlowSpawnOK, FlowAddFailsOK, FlowWorkerDiesOK, FlowHandleOK, FlowHandleEndsOK
<1>3. CASE \E s \in Flow!Sessions : Flow!PeerCloses(s) \/ Flow!CloseEnd(s)
  BY Zenon, <1>3, FlowPeerClosesOK, FlowCloseEndOK
<1>4. CASE \E l \in Flow!Links : Flow!TargetEnds(l)
  BY Zenon, <1>4, FlowTargetEndsOK
<1>5. CASE Flow!Expire
  BY Zenon, <1>5, FlowExpireOK
<1> QED
  BY Zenon, <1>1, <1>2, <1>3, <1>4, <1>5 DEF Flow!Next

\* The Cardinality of the instance is the usual one.
LEMMA FlowCardinality == \A S : Flow!Cardinality(S) = Cardinality(S)
BY Zenon DEF Flow!Cardinality, Cardinality

INSTANCE FiniteSetTheorems

\* One handleStatusNew at a time works on an object, by the mark in the map.
LEMMA FlowOwnerIsUnique == ASSUME FlowIInv PROVE Flow!OneInitializer
<1> SUFFICES ASSUME NEW x \in 1 .. nx
             PROVE  /\ Cardinality(Flow!Initializers(x)) <= 1
                    /\ Flow!Initializers(x) # {} => entry = x /\ status[x] = "Initializing"
  BY Zenon, FlowCardinality DEF Flow!OneInitializer
<1>1. \A w \in Workers : FlowWorkerOK(w)
  BY Zenon DEF FlowIInv
<1>2. \A w, v \in Flow!Initializers(x) : w = v
  BY Zenon DEF FlowIInv, FlowOneWorks, Flow!Initializers, FlowWorking
<1>3. CASE Flow!Initializers(x) = {}
  BY <1>3, FS_EmptySet
<1>4. CASE Flow!Initializers(x) # {}
  <2>1. PICK w : w \in Flow!Initializers(x)
    BY Zenon, <1>4
  <2>2. Flow!Initializers(x) = {w}
    BY Zenon, <2>1, <1>2
  <2>3. Cardinality({w}) = 1
    BY Zenon, FS_Singleton
  <2>4. entry = x /\ status[x] = "Initializing"
    BY Zenon, <2>1, <1>1 DEF Flow!Initializers, FlowWorkerOK, FlowWorking
  <2> QED
    BY <2>2, <2>3, <2>4
<1> QED
  BY Zenon, <1>3, <1>4

\* An open session finds no error in its link: the one that would have put it
\* there is the session of another object, which has another link.
LEMMA FlowNoErrorPending == ASSUME FlowBounds, FlowIInv PROVE Flow!CloseNeverBlocks
<1> SUFFICES ASSUME NEW s \in 1 .. ns, close[s] = "open", errChan[sess[s].link]
             PROVE  FALSE
  BY Zenon DEF Flow!CloseNeverBlocks
<1>1. /\ FlowTypeOK /\ \A t \in Flow!Sessions : FlowSessionOK(t)
      /\ FlowLinksDiffer /\ FlowErrorOwned
  BY Zenon DEF FlowIInv
<1>2. s \in Flow!Sessions /\ s <= ns
  BY <1>1 DEF FlowTypeOK, Flow!Sessions, FlowBounds
<1>3. sess[s].link \in Flow!Links /\ mux[sess[s].x] = s /\ xlink[sess[s].x] = sess[s].link
      /\ sess[s].x \in Flow!Objects
  BY Zenon, <1>1, <1>2 DEF FlowSessionOK
<1>4. PICK t \in Flow!Sessions : t <= ns /\ sess[t].link = sess[s].link /\ close[t] = "sent"
  BY Zenon, <1>1, <1>3 DEF FlowErrorOwned
<1>5. mux[sess[t].x] = t /\ xlink[sess[t].x] = sess[t].link /\ sess[t].x \in Flow!Objects
  BY Zenon, <1>1, <1>4 DEF FlowSessionOK
<1>6. sess[s].link # Flow!None
  BY <1>3 DEF Flow!Links, Flow!None
<1>7. sess[t].x = sess[s].x
  BY Zenon, <1>1, <1>3, <1>4, <1>5, <1>6 DEF FlowLinksDiffer
<1> QED
  BY Zenon, <1>3, <1>4, <1>5, <1>7

\* What may expire has no open session.
LEMMA FlowExpiringIsClosed == ASSUME FlowBounds, FlowIInv PROVE Flow!ExpiryIsIdle
<1>1. /\ FlowTypeOK
      /\ \A x \in Flow!Objects : FlowObjectOK(x)
  BY Zenon DEF FlowIInv
<1>2. entry # Flow!None => entry \in Flow!Objects
  BY <1>1 DEF FlowTypeOK, Flow!Objects, Flow!None, FlowBounds
<1> QED
  BY Zenon, <1>1, <1>2 DEF Flow!ExpiryIsIdle, FlowObjectOK

\* However many connections compete for the flow of an identifier, and lose it,
\* handleStatusNew, Session.Close and the expiry of XUDPManager never have the
\* link of the flow at the same time, and the error that Close puts into the
\* link's input never finds another one there, on which it would block.
THEOREM FlowIsOwnedOnce == ASSUME FlowBounds PROVE Flow!Spec => []FlowHasOneOwner
<1>1. Flow!Init => FlowIInv
  BY Zenon, FlowInitOK
<1>2. FlowIInv /\ [Flow!Next]_Flow!vars => FlowIInv'
  BY Zenon, FlowNextOK
<1>3. FlowIInv => Flow!FlowHasOneOwner
  BY Zenon, FlowOwnerIsUnique, FlowNoErrorPending, FlowExpiringIsClosed DEF Flow!FlowHasOneOwner
<1> QED
  BY <1>1, <1>2, <1>3, PTL DEF Flow!Spec, FlowHasOneOwner

=============================================================================
