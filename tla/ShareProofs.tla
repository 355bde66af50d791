---------------------------- MODULE ShareProofs -----------------------------
(***************************************************************************)
(* Proofs about what connections share: the table of outbound handlers     *)
(* (OutboundManager) and the clients of an XHTTP dialer (Xmux), for any number *)
(* of handlers, tags, selectors, connections, dials and clients.  The sessions *)
(* of a mux connection have a module of their own (MuxProofs).             *)
(***************************************************************************)
EXTENDS MCShare, TLAPS

-----------------------------------------------------------------------------
(* OutboundManager *)

ManagerSteps == {"new", "load", "miss", "store", "pick", "picked", "default", "done"}

\* The part of the state that the argument is about has its types.
ManagerTyped ==
    /\ tagsCache \in 0..MaxChanges
    /\ taggedHandler \in [Tags -> Handlers \cup {None}]
    /\ caches \in [0..MaxChanges -> [Selectors -> {None} \cup SUBSET Tags]]
    /\ readers \subseteq Conns
    /\ opc \in [Conns -> ManagerSteps]
    /\ selector \in [Conns -> Selectors]
    /\ cache \in [Conns -> {None} \cup 0..MaxChanges]
    /\ tags \in [Conns -> SUBSET Tags]
    /\ valid \in [Conns -> SUBSET SUBSET Tags]

\* A cache that is not in place yet is empty; the one in place agrees with
\* the handlers.
ManagerCaches ==
    /\ \A g \in 0..MaxChanges : g > tagsCache => caches[g] = Manager!NoCache
    /\ \A s \in Selectors :
         caches[tagsCache][s] \in {None, Manager!Selected(s, taggedHandler)}

\* What a call of Select holds: the selection of now is one that it may give;
\* so is the entry it will find in the cache that it loaded, which may have
\* been replaced since; and what it computed is still the selection of now
\* when it is stored, since it holds the read lock.
ManagerCall(p) ==
    /\ opc[p] \notin {"new", "done"} =>
          Manager!Selected(selector[p], taggedHandler) \in valid[p]
    /\ opc[p] = "load" =>
          /\ cache[p] \in 0..tagsCache
          /\ caches[cache[p]][selector[p]] \in {None} \cup valid[p]
    /\ opc[p] = "store" =>
          /\ p \in readers
          /\ tags[p] = Manager!Selected(selector[p], taggedHandler)
    /\ opc[p] \in {"pick", "picked", "default"} => tags[p] \in valid[p]

ManagerIInv == ManagerTyped /\ ManagerCaches /\ \A p \in Conns : ManagerCall(p)

\* What the proofs assume of the constants: prefixes match tags, and None is
\* neither an answer nor the number of a cache.
ManagerParameters ==
    /\ MaxChanges \in Nat
    /\ Matches \in [Selectors -> SUBSET Tags]
    /\ None \notin SUBSET Tags
    /\ None \notin Handlers

\* A selection is a set of tags.
LEMMA ManagerSelectedType ==
  ASSUME ManagerParameters, NEW s \in Selectors, NEW th
  PROVE  Manager!Selected(s, th) \in SUBSET Tags
  BY Zenon DEF ManagerParameters, Manager!Selected

\* The initial state satisfies the invariant.
LEMMA ManagerInitIInv == ASSUME ManagerParameters, Manager!Init PROVE ManagerIInv
  <1>1. ManagerTyped
    BY DEF ManagerParameters, Manager!Init, ManagerTyped, Manager!NoCache, ManagerSteps
  <1>2. ManagerCaches
    BY DEF ManagerParameters, Manager!Init, ManagerCaches, Manager!NoCache
  <1>3. ASSUME NEW p \in Conns PROVE ManagerCall(p)
    BY Zenon DEF Manager!Init, ManagerCall
  <1> QED BY Zenon, <1>1, <1>2, <1>3 DEF ManagerIInv

\* A change of the handlers: a new, empty cache, no call holding the lock,
\* and the selection of now added to those that the calls may give.
LEMMA ManagerChangeIInv ==
  ASSUME ManagerParameters, ManagerIInv, readers = {}, Manager!NewCache, Manager!NowValid,
         taggedHandler' \in [Tags -> Handlers \cup {None}],
         UNCHANGED <<caches, readers, Manager!cvars>>
  PROVE  ManagerIInv'
  <1>1. /\ tagsCache' = tagsCache + 1 /\ tagsCache' \in 0..MaxChanges
        /\ caches' = caches /\ readers' = readers /\ opc' = opc
        /\ selector' = selector /\ cache' = cache /\ tags' = tags
    BY DEF ManagerParameters, Manager!NewCache, Manager!cvars, ManagerIInv, ManagerTyped
  <1>2. \A p \in Conns : valid[p] \subseteq valid'[p]
    BY Zenon DEF Manager!NowValid, ManagerIInv, ManagerTyped
  <1>3. \A p \in Conns : opc[p] \notin {"new", "done"} =>
           Manager!Selected(selector[p], taggedHandler') \in valid'[p]
    BY Zenon DEF Manager!NowValid, ManagerIInv, ManagerTyped
  <1>4. ManagerTyped'
    <2>1. \A p \in Conns : Manager!Selected(selector[p], taggedHandler') \in SUBSET Tags
      BY Zenon, ManagerSelectedType DEF ManagerIInv, ManagerTyped
    <2>2. valid' \in [Conns -> SUBSET SUBSET Tags]
      BY <2>1 DEF Manager!NowValid, ManagerIInv, ManagerTyped
    <2> QED BY Zenon, <1>1, <2>2 DEF ManagerIInv, ManagerTyped
  <1>5. ManagerCaches'
    <2>1. caches[tagsCache + 1] = Manager!NoCache
      BY <1>1 DEF ManagerIInv, ManagerTyped, ManagerCaches
    <2> QED BY <1>1, <2>1 DEF ManagerIInv, ManagerTyped, ManagerCaches, Manager!NoCache
  <1>6. ASSUME NEW p \in Conns PROVE ManagerCall(p)'
    BY <1>1, <1>2, <1>3 DEF ManagerIInv, ManagerTyped, ManagerCall
  <1> QED BY Zenon, <1>4, <1>5, <1>6 DEF ManagerIInv

\* AddHandler preserves the invariant.
LEMMA ManagerAddHandlerIInv ==
  ASSUME ManagerParameters, ManagerIInv, NEW h \in Handlers, Manager!AddHandler(h)
  PROVE  ManagerIInv'
  <1>1. taggedHandler' \in [Tags -> Handlers \cup {None}]
    <2>1. \/ taggedHandler' = taggedHandler
          \/ taggedHandler' = [taggedHandler EXCEPT ![Tag[h]] = h]
      BY Zenon DEF Manager!AddHandler
    <2>2. taggedHandler \in [Tags -> Handlers \cup {None}]
      BY Zenon DEF ManagerIInv, ManagerTyped
    <2> QED BY Zenon, <2>1, <2>2
  <1> QED BY Zenon, <1>1, ManagerChangeIInv DEF Manager!AddHandler

\* So does RemoveHandler.
LEMMA ManagerRemoveHandlerIInv ==
  ASSUME ManagerParameters, ManagerIInv, NEW t \in Tags, Manager!RemoveHandler(t)
  PROVE  ManagerIInv'
  <1>1. taggedHandler' \in [Tags -> Handlers \cup {None}]
    BY Zenon DEF Manager!RemoveHandler, ManagerIInv, ManagerTyped
  <1> QED BY Zenon, <1>1, ManagerChangeIInv DEF Manager!RemoveHandler

\* Select takes the cache in place.
LEMMA ManagerSelectIInv ==
  ASSUME ManagerParameters, ManagerIInv, NEW p \in Conns, Manager!Select(p)
  PROVE  ManagerIInv'
  <1>1. Manager!Selected(selector[p], taggedHandler) \in SUBSET Tags
    BY Zenon, ManagerSelectedType DEF ManagerIInv, ManagerTyped
  <1>2. ManagerTyped'
    BY Zenon, <1>1 DEF Manager!Select, Manager!mvars, ManagerIInv, ManagerTyped, ManagerSteps
  <1>3. ManagerCaches'
    BY Zenon DEF Manager!Select, Manager!mvars, ManagerIInv, ManagerCaches
  <1>4. ASSUME NEW q \in Conns PROVE ManagerCall(q)'
    <2>1. CASE q = p
      <3>1. /\ opc'[p] = "load" /\ cache'[p] = tagsCache
            /\ valid'[p] = {Manager!Selected(selector[p], taggedHandler)}
            /\ UNCHANGED <<taggedHandler, tagsCache, caches, readers,
                           selector, tags>>
        BY Zenon DEF Manager!Select, Manager!mvars, ManagerIInv, ManagerTyped
      <3>2. caches[tagsCache][selector[p]] \in
                     {None, Manager!Selected(selector[p], taggedHandler)}
        BY Zenon DEF ManagerIInv, ManagerTyped, ManagerCaches
      <3> QED BY <2>1, <3>1, <3>2 DEF ManagerIInv, ManagerTyped, ManagerCall
    <2>2. CASE q # p
      BY Zenon, <2>2 DEF Manager!Select, Manager!mvars, ManagerIInv, ManagerTyped, ManagerCall
    <2> QED BY Zenon, <2>1, <2>2
  <1> QED BY Zenon, <1>2, <1>3, <1>4 DEF ManagerIInv

\* Load finds nothing, or an answer of its own time.
LEMMA ManagerLoadIInv ==
  ASSUME ManagerParameters, ManagerIInv, NEW p \in Conns, Manager!Load(p)
  PROVE  ManagerIInv'
  <1>1. opc[p] = "load" /\ cache[p] \in 0..MaxChanges
    BY DEF ManagerParameters, Manager!Load, ManagerIInv, ManagerTyped, ManagerCall
  <1>2. ManagerTyped'
    <2>1. caches[cache[p]][selector[p]] \in {None} \cup SUBSET Tags
      BY <1>1 DEF ManagerIInv, ManagerTyped
    <2>2. tags' \in [Conns -> SUBSET Tags]
      BY Zenon, <2>1 DEF Manager!Load, ManagerIInv, ManagerTyped
    <2>3. PICK l \in {"pick", "miss"} : opc' = [opc EXCEPT ![p] = l]
      BY Zenon DEF Manager!Load
    <2>4. cache' = [cache EXCEPT ![p] = None]
      BY Zenon DEF Manager!Load
    <2>5. cache' \in [Conns -> {None} \cup 0..MaxChanges]
      BY Zenon, <2>4 DEF ManagerIInv, ManagerTyped
    <2>6. UNCHANGED <<taggedHandler, tagsCache, caches, readers, selector, valid>>
      BY Zenon DEF Manager!Load, Manager!mvars
    <2>7. opc' \in [Conns -> ManagerSteps]
      BY Zenon, <2>3 DEF ManagerIInv, ManagerTyped, ManagerSteps
    <2> QED BY Zenon, <2>2, <2>5, <2>6, <2>7 DEF ManagerIInv, ManagerTyped
  <1>3. ManagerCaches'
    BY Zenon DEF Manager!Load, Manager!mvars, ManagerIInv, ManagerCaches
  <1>4. ASSUME NEW q \in Conns PROVE ManagerCall(q)'
    <2>1. UNCHANGED <<taggedHandler, tagsCache, caches, readers, selector, valid>>
      BY Zenon DEF Manager!Load, Manager!mvars
    <2>2. CASE q = p
      <3>1. /\ caches[cache[p]][selector[p]] \in {None} \cup valid[p]
            /\ Manager!Selected(selector[p], taggedHandler) \in valid[p]
        BY Zenon, <1>1 DEF ManagerIInv, ManagerCall
      <3>2. \/ opc'[p] = "miss"
            \/ /\ opc'[p] = "pick" /\ caches[cache[p]][selector[p]] # None
               /\ tags'[p] = caches[cache[p]][selector[p]]
        BY Zenon DEF Manager!Load, ManagerIInv, ManagerTyped
      <3> QED BY Zenon, <2>1, <2>2, <3>1, <3>2 DEF ManagerCall
    <2>3. CASE q # p
      <3>1. opc'[q] = opc[q] /\ cache'[q] = cache[q] /\ tags'[q] = tags[q]
        BY Zenon, <2>3 DEF Manager!Load, ManagerIInv, ManagerTyped
      <3> QED BY Zenon, <2>1, <3>1 DEF ManagerIInv, ManagerCall
    <2> QED BY Zenon, <2>2, <2>3
  <1> QED BY Zenon, <1>2, <1>3, <1>4 DEF ManagerIInv

\* Compute answers from the handlers of now.
LEMMA ManagerComputeIInv ==
  ASSUME ManagerParameters, ManagerIInv, NEW p \in Conns, Manager!Compute(p)
  PROVE  ManagerIInv'
  <1>1. Manager!Selected(selector[p], taggedHandler) \in SUBSET Tags
    BY Zenon, ManagerSelectedType DEF ManagerIInv, ManagerTyped
  <1>2. ManagerTyped'
    BY Zenon, <1>1 DEF Manager!Compute, Manager!mvars, ManagerIInv, ManagerTyped, ManagerSteps
  <1>3. ManagerCaches'
    BY Zenon DEF Manager!Compute, Manager!mvars, ManagerIInv, ManagerCaches
  <1>4. ASSUME NEW q \in Conns PROVE ManagerCall(q)'
    BY Zenon DEF Manager!Compute, Manager!mvars, ManagerIInv, ManagerTyped, ManagerCall
  <1> QED BY Zenon, <1>2, <1>3, <1>4 DEF ManagerIInv

\* Store writes what the read lock kept true.
LEMMA ManagerStoreIInv ==
  ASSUME ManagerParameters, ManagerIInv, NEW p \in Conns, Manager!Store(p)
  PROVE  ManagerIInv'
  <1>1. /\ opc[p] = "store"
        /\ tags[p] = Manager!Selected(selector[p], taggedHandler)
    BY Zenon DEF Manager!Store, ManagerIInv, ManagerCall
  <1>2. ManagerTyped'
    BY Zenon DEF Manager!Store, Manager!mvars, ManagerIInv, ManagerTyped, ManagerSteps
  <1>3. ManagerCaches'
    BY <1>1 DEF Manager!Store, Manager!mvars, ManagerIInv, ManagerTyped, ManagerCaches
  <1>4. ASSUME NEW q \in Conns PROVE ManagerCall(q)'
    <2>1. CASE q = p
      <3>1. /\ opc'[p] = "pick"
            /\ UNCHANGED <<taggedHandler, selector, tags, valid>>
        BY Zenon DEF Manager!Store, Manager!mvars, ManagerIInv, ManagerTyped
      <3>2. Manager!Selected(selector[p], taggedHandler) \in valid[p]
        BY Zenon, <1>1 DEF ManagerIInv, ManagerCall
      <3> QED BY Zenon, <1>1, <2>1, <3>1, <3>2 DEF ManagerCall
    <2>2. CASE q # p
      <3>1. /\ UNCHANGED <<taggedHandler, tagsCache, selector, cache, tags,
                           valid>>
            /\ opc'[q] = opc[q] /\ (q \in readers => q \in readers')
        BY Zenon, <2>2 DEF Manager!Store, Manager!mvars, ManagerIInv, ManagerTyped
      <3>2. ASSUME opc[q] = "load"
            PROVE  caches'[cache[q]][selector[q]] \in {None} \cup valid[q]
        <4>1. /\ caches[cache[q]][selector[q]] \in {None} \cup valid[q]
              /\ Manager!Selected(selector[q], taggedHandler) \in valid[q]
              /\ cache[q] \in 0..MaxChanges /\ selector[q] \in Selectors
          BY <3>2 DEF ManagerParameters, ManagerIInv, ManagerTyped, ManagerCall
        <4>2. CASE cache[q] = tagsCache /\ selector[q] = selector[p]
          BY Zenon, <1>1, <4>1, <4>2 DEF Manager!Store, ManagerIInv, ManagerTyped
        <4>3. CASE ~(cache[q] = tagsCache /\ selector[q] = selector[p])
          BY Zenon, <4>1, <4>3 DEF Manager!Store, ManagerIInv, ManagerTyped
        <4> QED BY Zenon, <4>2, <4>3
      <3> QED BY Zenon, <3>1, <3>2 DEF ManagerIInv, ManagerCall
    <2> QED BY Zenon, <2>1, <2>2
  <1> QED BY Zenon, <1>2, <1>3, <1>4 DEF ManagerIInv

\* What comes after Select leaves the caches alone.
LEMMA ManagerPickIInv ==
  ASSUME ManagerParameters, ManagerIInv, NEW p \in Conns, Manager!PickOutbound(p) \/ Manager!RoutedDispatch(p)
  PROVE  ManagerIInv'
  <1>1. PICK l \in {"default", "picked", "done"} :
           /\ opc' = [opc EXCEPT ![p] = l]
           /\ opc[p] \in {"pick", "picked", "default"}
    BY Zenon DEF Manager!PickOutbound, Manager!RoutedDispatch
  <1>2. UNCHANGED <<taggedHandler, tagsCache, caches, readers, selector, cache,
                    tags, valid>>
    BY Zenon DEF Manager!PickOutbound, Manager!RoutedDispatch, Manager!mvars
  <1>3. ManagerTyped' /\ ManagerCaches'
    BY Zenon, <1>1, <1>2 DEF ManagerIInv, ManagerTyped, ManagerCaches, ManagerSteps
  <1>4. ASSUME NEW q \in Conns PROVE ManagerCall(q)'
    BY Zenon, <1>1, <1>2 DEF ManagerIInv, ManagerTyped, ManagerCall
  <1> QED BY Zenon, <1>3, <1>4 DEF ManagerIInv

\* Every step preserves the invariant.
LEMMA ManagerNextIInv == ASSUME ManagerParameters, ManagerIInv, [Manager!Next]_Manager!vars PROVE ManagerIInv'
  <1>1. ASSUME NEW h \in Handlers, Manager!AddHandler(h) PROVE ManagerIInv'
    BY Zenon, <1>1, ManagerAddHandlerIInv
  <1>2. ASSUME NEW t \in Tags, Manager!RemoveHandler(t) PROVE ManagerIInv'
    BY Zenon, <1>2, ManagerRemoveHandlerIInv
  <1>3. ASSUME NEW p \in Conns, Manager!Select(p) PROVE ManagerIInv'
    BY Zenon, <1>3, ManagerSelectIInv
  <1>4. ASSUME NEW p \in Conns, Manager!Load(p) PROVE ManagerIInv'
    BY Zenon, <1>4, ManagerLoadIInv
  <1>5. ASSUME NEW p \in Conns, Manager!Compute(p) PROVE ManagerIInv'
    BY Zenon, <1>5, ManagerComputeIInv
  <1>6. ASSUME NEW p \in Conns, Manager!Store(p) PROVE ManagerIInv'
    BY Zenon, <1>6, ManagerStoreIInv
  <1>7. ASSUME NEW p \in Conns, Manager!PickOutbound(p) \/ Manager!RoutedDispatch(p) PROVE ManagerIInv'
    BY Zenon, <1>7, ManagerPickIInv
  <1>8. CASE UNCHANGED Manager!vars
    BY Zenon, <1>8 DEF Manager!vars, Manager!mvars, Manager!cvars, ManagerIInv, ManagerTyped, ManagerCaches, ManagerCall
  <1> QED
    BY Zenon, <1>1, <1>2, <1>3, <1>4, <1>5, <1>6, <1>7, <1>8 DEF Manager!Next

\* Manager.Select is linearizable, and the cache in place never stale, for
\* any number of balancers and changes, although Select reads the cache
\* outside the lock.
THEOREM ManagerSelectIsCurrent ==
  ASSUME ManagerParameters
  PROVE  Manager!Spec => []SelectIsCurrent
  <1>1. Manager!Init => ManagerIInv
    BY Zenon, ManagerInitIInv
  <1>2. ManagerIInv /\ [Manager!Next]_Manager!vars => ManagerIInv'
    BY Zenon, ManagerNextIInv
  <1>3. ManagerIInv => Manager!SelectIsCurrent
    BY Zenon DEF ManagerIInv, ManagerCaches, ManagerCall, Manager!SelectIsCurrent
  <1> QED BY <1>1, <1>2, <1>3, PTL DEF Manager!Spec, SelectIsCurrent

-----------------------------------------------------------------------------
(* Where a connection ends up *)

\* A handler stands under its own tag, and a default handler with a tag has
\* some handler under that tag.
ManagerLabels ==
    /\ Tag \in [Handlers -> Tags \cup {Manager!NoTag}]
    /\ \A t \in Tags : taggedHandler[t] # None => Tag[taggedHandler[t]] = t
    /\ defaultHandler \in Handlers \cup {None}
    /\ Manager!DefaultHasItsTag

\* What a balanced connection may choose from has tags that its selectors
\* match, and it is on the default route only if there were none.
ManagerRouted(p) ==
    /\ \A S \in valid[p] : S \subseteq Matches[selector[p]]
    /\ opc[p] = "picked" => target[p] \in Matches[selector[p]]
    /\ opc[p] = "default" => {} \in valid[p]
    /\ opc[p] = "done" /\ out[p] # None =>
          Tag[out[p]] \in Matches[selector[p]] \/ {} \in valid[p]

ManagerRouteTyped == target \in [Conns -> Tags \cup {None}]
                     /\ out \in [Conns -> Handlers \cup {None}]

ManagerRInv == ManagerIInv /\ ManagerLabels /\ ManagerRouteTyped /\ \A p \in Conns : ManagerRouted(p)

\* The initial state satisfies the invariant.
LEMMA ManagerInitRInv ==
  ASSUME ManagerParameters, Tag \in [Handlers -> Tags \cup {Manager!NoTag}], Manager!Init
  PROVE  ManagerRInv
  <1>1. ManagerIInv
    BY Zenon, ManagerInitIInv
  <1>2. ManagerLabels /\ ManagerRouteTyped
    BY Zenon DEF Manager!Init, ManagerLabels, Manager!DefaultHasItsTag, ManagerRouteTyped
  <1>3. \A p \in Conns : ManagerRouted(p)
    BY Zenon DEF Manager!Init, ManagerRouted
  <1> QED BY Zenon, <1>1, <1>2, <1>3 DEF ManagerRInv

\* A change of the handlers leaves the connections where they are.
LEMMA ManagerChangeRouted ==
  ASSUME ManagerParameters, ManagerRInv, Manager!NowValid, UNCHANGED <<caches, readers, Manager!cvars>>
  PROVE  ManagerRouteTyped' /\ \A p \in Conns : ManagerRouted(p)'
  <1>1. ASSUME NEW p \in Conns PROVE ManagerRouted(p)'
    <2>1. /\ opc' = opc /\ selector' = selector /\ target' = target /\ out' = out
      BY Zenon DEF Manager!cvars
    <2>2. Manager!Selected(selector[p], taggedHandler') \subseteq Matches[selector[p]]
      BY Zenon DEF Manager!Selected
    <2>3. /\ valid[p] \subseteq valid'[p]
          /\ \A S \in valid'[p] : S \in valid[p]
                \/ S = Manager!Selected(selector[p], taggedHandler')
      BY Zenon DEF Manager!NowValid, ManagerRInv, ManagerIInv, ManagerTyped
    <2> QED BY Zenon, <2>1, <2>2, <2>3 DEF ManagerRInv, ManagerRouted
  <1>2. ManagerRouteTyped'
    BY Zenon DEF Manager!cvars, ManagerRInv, ManagerRouteTyped
  <1> QED BY Zenon, <1>1, <1>2

\* AddHandler keeps every handler under its tag.
LEMMA ManagerAddHandlerRInv ==
  ASSUME ManagerParameters, Manager!NoTag \notin Tags, ManagerRInv, ManagerIInv', NEW h \in Handlers, Manager!AddHandler(h)
  PROVE  ManagerRInv'
  <1>1. ManagerLabels'
    <2>1. defaultHandler' \in {defaultHandler, h}
      BY Zenon DEF Manager!AddHandler
    <2>2. CASE Tag[h] = Manager!NoTag
      <3>1. taggedHandler' = taggedHandler
        BY Zenon, <2>2 DEF Manager!AddHandler
      <3> QED BY Zenon, <2>1, <2>2, <3>1 DEF ManagerRInv, ManagerLabels, Manager!DefaultHasItsTag
    <2>3. CASE Tag[h] # Manager!NoTag /\ taggedHandler[Tag[h]] # None
      <3>1. taggedHandler' = taggedHandler
        BY Zenon, <2>3 DEF Manager!AddHandler
      <3> QED BY Zenon, <2>1, <2>3, <3>1 DEF ManagerRInv, ManagerLabels, Manager!DefaultHasItsTag
    <2>4. CASE Tag[h] # Manager!NoTag /\ taggedHandler[Tag[h]] = None
      <3>1. Tag[h] \in Tags /\ h # None
        BY Zenon, <2>4 DEF ManagerParameters, ManagerRInv, ManagerLabels
      <3>2. taggedHandler' = [taggedHandler EXCEPT ![Tag[h]] = h]
        BY Zenon, <2>4 DEF Manager!AddHandler
      <3>3. \A t \in Tags :
               taggedHandler'[t] = IF t = Tag[h] THEN h ELSE taggedHandler[t]
        BY Zenon, <3>1, <3>2 DEF ManagerRInv, ManagerIInv, ManagerTyped
      <3>4. \A t \in Tags : taggedHandler'[t] # None => Tag[taggedHandler'[t]] = t
        BY Zenon, <3>3 DEF ManagerRInv, ManagerLabels
      <3>5. \A t \in Tags : taggedHandler[t] # None => taggedHandler'[t] # None
        BY Zenon, <3>1, <3>3
      <3>6. taggedHandler'[Tag[h]] # None
        BY Zenon, <3>1, <3>3
      <3>7. Manager!DefaultHasItsTag'
        <4>1. CASE defaultHandler' = defaultHandler
          <5>1. defaultHandler # None /\ Tag[defaultHandler] # Manager!NoTag =>
                  /\ Tag[defaultHandler] \in Tags
                  /\ taggedHandler[Tag[defaultHandler]] # None
            BY Zenon DEF ManagerRInv, ManagerLabels, Manager!DefaultHasItsTag
          <5> QED BY Zenon, <3>5, <4>1, <5>1 DEF Manager!DefaultHasItsTag
        <4>2. CASE defaultHandler' = h
          BY Zenon, <3>6, <4>2 DEF Manager!DefaultHasItsTag
        <4> QED BY Zenon, <2>1, <4>1, <4>2
      <3> QED BY Zenon, <2>1, <3>4, <3>7 DEF ManagerRInv, ManagerLabels
    <2> QED BY Zenon, <2>2, <2>3, <2>4
  <1> QED BY Zenon, <1>1, ManagerChangeRouted DEF Manager!AddHandler, ManagerRInv

\* RemoveHandler takes the default with its tag.
LEMMA ManagerRemoveHandlerRInv ==
  ASSUME ManagerParameters, Manager!NoTag \notin Tags, ManagerRInv, ManagerIInv', NEW t \in Tags, Manager!RemoveHandler(t)
  PROVE  ManagerRInv'
  <1>1. ManagerLabels'
    BY Zenon DEF Manager!RemoveHandler, ManagerRInv, ManagerIInv, ManagerTyped, ManagerLabels, Manager!DefaultHasItsTag
  <1> QED BY Zenon, <1>1, ManagerChangeRouted DEF Manager!RemoveHandler, ManagerRInv

\* Select finds tags that the selectors match.
LEMMA ManagerSelectRInv ==
  ASSUME ManagerParameters, Manager!NoTag \notin Tags, ManagerRInv, ManagerIInv', NEW p \in Conns, Manager!Select(p) \/ Manager!Load(p) \/ Manager!Compute(p) \/ Manager!Store(p)
  PROVE  ManagerRInv'
  <1>1. UNCHANGED <<taggedHandler, defaultHandler, selector, target, out>>
    BY Zenon DEF Manager!Select, Manager!Load, Manager!Compute, Manager!Store, Manager!mvars
  <1>2. PICK l \in {"load", "miss", "store", "pick"} :
           opc' = [opc EXCEPT ![p] = l]
    BY Zenon DEF Manager!Select, Manager!Load, Manager!Compute, Manager!Store
  <1>3. \/ valid' = valid
        \/ valid' = [valid EXCEPT ![p] = {Manager!Selected(selector[p], taggedHandler)}]
    BY Zenon DEF Manager!Select, Manager!Load, Manager!Compute, Manager!Store
  <1>4. Manager!Selected(selector[p], taggedHandler) \subseteq Matches[selector[p]]
    BY Zenon DEF Manager!Selected
  <1>5. ASSUME NEW q \in Conns PROVE ManagerRouted(q)'
    <2>1. CASE q = p
      <3>1. opc'[q] \notin {"picked", "default", "done"}
        BY Zenon, <1>2, <2>1 DEF ManagerRInv, ManagerIInv, ManagerTyped
      <3>2. \A S \in valid'[q] : S \subseteq Matches[selector[q]]
        <4>1. CASE valid' = valid
          BY Zenon, <2>1, <4>1 DEF ManagerRInv, ManagerRouted
        <4>2. CASE valid' =
                [valid EXCEPT ![p] = {Manager!Selected(selector[p], taggedHandler)}]
          <5>1. valid'[q] = {Manager!Selected(selector[q], taggedHandler)}
            BY Zenon, <2>1, <4>2 DEF ManagerRInv, ManagerIInv, ManagerTyped
          <5> QED BY Zenon, <1>4, <2>1, <5>1
        <4> QED BY Zenon, <1>3, <4>1, <4>2
      <3> QED BY Zenon, <1>1, <3>1, <3>2 DEF ManagerRouted
    <2>2. CASE q # p
      <3>1. opc'[q] = opc[q] /\ valid'[q] = valid[q]
        BY Zenon, <1>2, <1>3, <2>2 DEF ManagerRInv, ManagerIInv, ManagerTyped
      <3> QED BY Zenon, <1>1, <3>1 DEF ManagerRInv, ManagerRouted
    <2> QED BY Zenon, <2>1, <2>2
  <1>6. ManagerLabels' /\ ManagerRouteTyped'
    BY Zenon, <1>1 DEF ManagerRInv, ManagerLabels, Manager!DefaultHasItsTag, ManagerRouteTyped
  <1> QED BY Zenon, <1>5, <1>6 DEF ManagerRInv

\* PickOutbound takes one of them.
LEMMA ManagerPickOutboundRInv ==
  ASSUME ManagerParameters, Manager!NoTag \notin Tags, ManagerRInv, ManagerIInv', NEW p \in Conns, Manager!PickOutbound(p)
  PROVE  ManagerRInv'
  <1>1. UNCHANGED <<taggedHandler, defaultHandler, selector, valid, out>>
    BY Zenon DEF Manager!PickOutbound, Manager!mvars
  <1>2. tags[p] \in valid[p] /\ tags[p] \subseteq Matches[selector[p]]
    BY Zenon DEF Manager!PickOutbound, ManagerRInv, ManagerIInv, ManagerCall, ManagerRouted
  <1>3. Matches[selector[p]] \subseteq Tags
    BY Zenon DEF ManagerParameters, ManagerRInv, ManagerIInv, ManagerTyped
  <1>4. CASE tags[p] = {}
    <2>1. opc' = [opc EXCEPT ![p] = "default"] /\ target' = target
      BY Zenon, <1>4 DEF Manager!PickOutbound
    <2>2. ASSUME NEW q \in Conns PROVE ManagerRouted(q)'
      <3>1. CASE q = p
        <4>1. opc'[p] = "default"
          BY Zenon, <2>1 DEF ManagerRInv, ManagerIInv, ManagerTyped
        <4> QED BY Zenon, <1>1, <1>2, <1>4, <3>1, <4>1 DEF ManagerRInv, ManagerRouted
      <3>2. CASE q # p
        <4>1. opc'[q] = opc[q]
          BY Zenon, <2>1, <3>2 DEF ManagerRInv, ManagerIInv, ManagerTyped
        <4>2. ManagerRouted(q)
          BY Zenon DEF ManagerRInv
        <4> QED BY Zenon, <1>1, <2>1, <4>1, <4>2 DEF ManagerRouted
      <3> QED BY Zenon, <3>1, <3>2
    <2>3. ManagerLabels'
      BY Zenon, <1>1 DEF ManagerRInv, ManagerLabels, Manager!DefaultHasItsTag
    <2>4. ManagerRouteTyped'
      BY Zenon, <1>1, <2>1 DEF ManagerRInv, ManagerRouteTyped
    <2> QED BY Zenon, <2>2, <2>3, <2>4 DEF ManagerRInv
  <1>5. CASE tags[p] # {}
    <2>1. PICK t \in tags[p] : /\ opc' = [opc EXCEPT ![p] = "picked"]
                               /\ target' = [target EXCEPT ![p] = t]
      BY Zenon, <1>5 DEF Manager!PickOutbound
    <2>2. ASSUME NEW q \in Conns PROVE ManagerRouted(q)'
      <3>1. CASE q = p
        <4>1. opc'[p] = "picked" /\ target'[p] = t
          BY Zenon, <2>1 DEF ManagerRInv, ManagerIInv, ManagerTyped, ManagerRouteTyped
        <4> QED BY Zenon, <1>1, <1>2, <3>1, <4>1 DEF ManagerRInv, ManagerRouted
      <3>2. CASE q # p
        <4>1. opc'[q] = opc[q] /\ target'[q] = target[q]
          BY Zenon, <2>1, <3>2 DEF ManagerRInv, ManagerIInv, ManagerTyped, ManagerRouteTyped
        <4> QED BY Zenon, <1>1, <4>1 DEF ManagerRInv, ManagerRouted
      <3> QED BY Zenon, <3>1, <3>2
    <2>3. ManagerRouteTyped'
      BY Zenon, <1>1, <1>2, <1>3, <2>1 DEF ManagerRInv, ManagerRouteTyped
    <2>4. ManagerLabels'
      BY Zenon, <1>1 DEF ManagerRInv, ManagerLabels, Manager!DefaultHasItsTag
    <2> QED BY Zenon, <2>2, <2>3, <2>4 DEF ManagerRInv
  <1> QED BY Zenon, <1>4, <1>5

\* routedDispatch takes the handler of that tag.
LEMMA ManagerRoutedDispatchRInv ==
  ASSUME ManagerParameters, Manager!NoTag \notin Tags, ManagerRInv, ManagerIInv', NEW p \in Conns, Manager!RoutedDispatch(p)
  PROVE  ManagerRInv'
  <1>1. /\ UNCHANGED <<taggedHandler, defaultHandler, selector, valid, target>>
        /\ opc' = [opc EXCEPT ![p] = "done"]
    BY Zenon DEF Manager!RoutedDispatch, Manager!mvars
  <1>2. Matches[selector[p]] \subseteq Tags
    BY Zenon DEF ManagerParameters, ManagerRInv, ManagerIInv, ManagerTyped
  <1>3. PICK h \in Handlers \cup {None} : out' = [out EXCEPT ![p] = h] /\
           (h # None => Tag[h] \in Matches[selector[p]] \/ {} \in valid[p])
    <2>1. CASE opc[p] = "default"
      <3>1. out' = [out EXCEPT ![p] = defaultHandler]
        BY Zenon, <2>1 DEF Manager!RoutedDispatch
      <3> QED BY Zenon, <2>1, <3>1 DEF ManagerRInv, ManagerLabels, ManagerRouted
    <2>2. CASE opc[p] = "picked"
      <3>1. out' = [out EXCEPT ![p] = taggedHandler[target[p]]]
        BY Zenon, <2>2 DEF Manager!RoutedDispatch
      <3>2. target[p] \in Matches[selector[p]] /\ target[p] \in Tags
        BY Zenon, <1>2, <2>2 DEF ManagerRInv, ManagerRouted
      <3>3. taggedHandler[target[p]] \in Handlers \cup {None}
        BY Zenon, <3>2 DEF ManagerRInv, ManagerIInv, ManagerTyped
      <3> QED BY Zenon, <3>1, <3>2, <3>3 DEF ManagerRInv, ManagerLabels
    <2> QED BY Zenon, <2>1, <2>2 DEF Manager!RoutedDispatch
  <1>4. ASSUME NEW q \in Conns PROVE ManagerRouted(q)'
    <2>1. CASE q = p
      <3>1. opc'[p] = "done" /\ out'[p] = h
        BY Zenon, <1>1, <1>3 DEF ManagerRInv, ManagerIInv, ManagerTyped, ManagerRouteTyped
      <3> QED BY Zenon, <1>1, <1>3, <2>1, <3>1 DEF ManagerRInv, ManagerRouted
    <2>2. CASE q # p
      <3>1. opc'[q] = opc[q] /\ out'[q] = out[q]
        BY Zenon, <1>1, <1>3, <2>2 DEF ManagerRInv, ManagerIInv, ManagerTyped, ManagerRouteTyped
      <3> QED BY Zenon, <1>1, <3>1 DEF ManagerRInv, ManagerRouted
    <2> QED BY Zenon, <2>1, <2>2
  <1>5. ManagerLabels' /\ ManagerRouteTyped'
    BY Zenon, <1>1, <1>3 DEF ManagerRInv, ManagerLabels, Manager!DefaultHasItsTag, ManagerRouteTyped
  <1> QED BY Zenon, <1>4, <1>5 DEF ManagerRInv

\* Every step preserves the invariant.
LEMMA ManagerNextRInv == ASSUME ManagerParameters, Manager!NoTag \notin Tags, ManagerRInv, [Manager!Next]_Manager!vars PROVE ManagerRInv'
  <1>0. ManagerIInv'
    BY Zenon, ManagerNextIInv DEF ManagerRInv
  <1>1. ASSUME NEW h \in Handlers, Manager!AddHandler(h) PROVE ManagerRInv'
    BY Zenon, <1>0, <1>1, ManagerAddHandlerRInv
  <1>2. ASSUME NEW t \in Tags, Manager!RemoveHandler(t) PROVE ManagerRInv'
    BY Zenon, <1>0, <1>2, ManagerRemoveHandlerRInv
  <1>3. ASSUME NEW p \in Conns,
               Manager!Select(p) \/ Manager!Load(p) \/ Manager!Compute(p) \/ Manager!Store(p)
        PROVE  ManagerRInv'
    BY Zenon, <1>0, <1>3, ManagerSelectRInv
  <1>4. ASSUME NEW p \in Conns, Manager!PickOutbound(p) PROVE ManagerRInv'
    BY Zenon, <1>0, <1>4, ManagerPickOutboundRInv
  <1>5. ASSUME NEW p \in Conns, Manager!RoutedDispatch(p) PROVE ManagerRInv'
    BY Zenon, <1>0, <1>5, ManagerRoutedDispatchRInv
  <1>6. CASE UNCHANGED Manager!vars
    BY Zenon, <1>0, <1>6 DEF Manager!vars, Manager!mvars, Manager!cvars, ManagerRInv, ManagerLabels, Manager!DefaultHasItsTag,
                      ManagerRouteTyped, ManagerRouted
  <1> QED BY Zenon, <1>1, <1>2, <1>3, <1>4, <1>5, <1>6 DEF Manager!Next

\* Every reachable state satisfies it.
LEMMA ManagerSpecRInv ==
  ASSUME ManagerParameters, Tag \in [Handlers -> Tags \cup {Manager!NoTag}], Manager!NoTag \notin Tags
  PROVE  Manager!Spec => []ManagerRInv
  <1>1. Manager!Init => ManagerRInv
    BY Zenon, ManagerInitRInv
  <1>2. ManagerRInv /\ [Manager!Next]_Manager!vars => ManagerRInv'
    BY Zenon, ManagerNextRInv
  <1> QED BY <1>1, <1>2, PTL DEF Manager!Spec

\* For any handlers, selectors and connections, routedDispatch gives balanced
\* traffic to a handler that was selected, or to the default one only if at
\* some moment of the call nothing was.
THEOREM ManagerRoutes ==
  ASSUME ManagerParameters, Tag \in [Handlers -> Tags \cup {Manager!NoTag}], Manager!NoTag \notin Tags
  PROVE  Manager!Spec => []RoutedAsSelected
  <1>1. Manager!Spec => []ManagerRInv
    BY Zenon, ManagerSpecRInv
  <1>2. ManagerRInv => Manager!RoutedAsSelected
    BY Zenon DEF ManagerRInv, ManagerRouted, Manager!RoutedAsSelected
  <1> QED BY <1>1, <1>2, PTL DEF RoutedAsSelected

\* The default handler of the Manager never outlives its tag: as long as it is
\* the default, GetHandler of its tag finds a handler.
THEOREM ManagerDefaultHasItsTag ==
  ASSUME ManagerParameters, Tag \in [Handlers -> Tags \cup {Manager!NoTag}], Manager!NoTag \notin Tags
  PROVE  Manager!Spec => []DefaultHasItsTag
  <1>1. Manager!Spec => []ManagerRInv
    BY Zenon, ManagerSpecRInv
  <1>2. ManagerRInv => Manager!DefaultHasItsTag
    BY Zenon DEF ManagerRInv, ManagerLabels
  <1> QED BY <1>1, <1>2, PTL DEF DefaultHasItsTag

-----------------------------------------------------------------------------
(* Xmux *)

INSTANCE FiniteSetTheorems

\* What the proofs assume of the constants: every configuration lets a client
\* be used at least once, and None is neither a user nor a client.
DialerParameters ==
    /\ Limits \subseteq Nat \X Nat \X (Nat \ {0})
    /\ None \notin Users \cup Clients /\ IsFiniteSet(Users)

DialerPlaces == {"idle", "got", "up", "closing", "end"}

\* What the steps need to know of the types.
DialerTyped ==
    /\ limit \in Limits
    /\ pool \subseteq made /\ made \subseteq Clients /\ todo \subseteq pool
    /\ notUsed \subseteq made /\ notUsed \cap pool = {}
    /\ left \in [Clients -> Nat] /\ handed \in [Clients -> Nat]
    /\ running \in [Clients -> Int]
    /\ lock \in Users \cup {None} /\ xcheck \in Clients \cup {None}
    /\ pc \in [Users -> DialerPlaces]
    /\ client \in [Users -> Clients \cup {None}]
    /\ \A u \in Users : pc[u] # "idle" => client[u] \in Clients

\* leftUsage and the uses so far add up, and the clients that the loop of
\* GetXmuxClient has passed have a use left for the caller.
DialerUses ==
    /\ \A c \in made : handed[c] + left[c] = Dialer!MaxReuse
    /\ \A c \in Clients \ made : handed[c] = 0
    /\ lock # None => \A c \in pool \ todo : left[c] > 0
    /\ lock = None => todo = {}

\* The users between AddRunning and DoneRunning.
DialerUps(c) == {u \in Users : client[u] = c /\ pc[u] = "up"}

\* Running counts them.
DialerCounts == \A c \in Clients : running[c] = Cardinality(DialerUps(c))

DialerIInv == DialerTyped /\ DialerUses /\ DialerCounts /\ Dialer!NoClientLeaks

\* newXmuxClient counts the use that makes the client.
LEMMA DialerFirstUsageIs ==
    ASSUME DialerParameters, limit \in Limits
    PROVE  Dialer!MaxReuse \in Nat \ {0} /\ Dialer!FirstUsage \in Nat
           /\ Dialer!FirstUsage + 1 = Dialer!MaxReuse
  BY DEF DialerParameters, Dialer!FirstUsage, Dialer!MaxReuse

\* Only finitely many users can be counted.
LEMMA DialerUpsFinite ==
    ASSUME DialerParameters, NEW c
    PROVE  IsFiniteSet(DialerUps(c)) /\ Cardinality(DialerUps(c)) \in Nat
<1>1. DialerUps(c) \subseteq Users  BY Zenon DEF DialerUps
<1>2. IsFiniteSet(DialerUps(c))  BY Zenon, <1>1, FS_Subset DEF DialerParameters
<1> QED  BY Zenon, <1>2, FS_CardinalityType

\* Nothing runs on a client exactly if nobody is counted.
LEMMA DialerNothingRuns ==
    ASSUME DialerParameters, DialerCounts, NEW c \in Clients
    PROVE  running[c] <= 0 <=> DialerUps(c) = {}
<1>1. running[c] = Cardinality(DialerUps(c))  BY Zenon DEF DialerCounts
<1>2. IsFiniteSet(DialerUps(c)) /\ Cardinality(DialerUps(c)) \in Nat  BY Zenon, DialerUpsFinite
<1>3. Cardinality(DialerUps(c)) = 0 <=> DialerUps(c) = {}  BY Zenon, <1>2, FS_EmptySet
<1> QED  BY <1>1, <1>2, <1>3

\* A new manager has no clients.
LEMMA DialerXmuxInit == Dialer!Init => DialerIInv
<1> SUFFICES ASSUME Dialer!Init PROVE DialerIInv  OBVIOUS
<1>1. DialerTyped
  <2>0. limit \in Limits  BY Zenon DEF Dialer!Init
  <2>1. pool \subseteq made /\ made \subseteq Clients /\ todo \subseteq pool
        /\ notUsed \subseteq made /\ notUsed \cap pool = {}
    BY Zenon DEF Dialer!Init
  <2>2. left \in [Clients -> Nat] /\ handed \in [Clients -> Nat]
        /\ running \in [Clients -> Int]
    BY DEF Dialer!Init
  <2>3. lock \in Users \cup {None} /\ xcheck \in Clients \cup {None}
    BY Zenon DEF Dialer!Init
  <2>4. pc \in [Users -> DialerPlaces] /\ client \in [Users -> Clients \cup {None}]
    BY Zenon DEF Dialer!Init, DialerPlaces
  <2>5. \A u \in Users : pc[u] # "idle" => client[u] \in Clients
    BY Zenon DEF Dialer!Init
  <2> QED  BY Zenon, <2>0, <2>1, <2>2, <2>3, <2>4, <2>5 DEF DialerTyped
<1>2. DialerUses  BY Zenon DEF Dialer!Init, DialerUses
<1>3. DialerCounts
  <2> SUFFICES ASSUME NEW c \in Clients
               PROVE  running[c] = Cardinality(DialerUps(c))
    BY Zenon DEF DialerCounts
  <2>1. DialerUps(c) = {}  BY Zenon DEF Dialer!Init, DialerUps
  <2>2. running[c] = 0  BY Zenon DEF Dialer!Init
  <2> QED  BY Zenon, <2>1, <2>2, FS_EmptySet
<1>4. Dialer!NoClientLeaks  BY Zenon DEF Dialer!Init, Dialer!NoClientLeaks
<1> QED  BY Zenon, <1>1, <1>2, <1>3, <1>4 DEF DialerIInv

\* A step that moves nobody in or out of "up" and leaves the users' clients
\* and Running alone keeps the count.
LEMMA DialerCountsKept ==
    ASSUME DialerCounts, UNCHANGED <<running, client, pc>>
    PROVE  DialerCounts'
  BY Zenon DEF DialerCounts, DialerUps

\* GetXmuxClient takes the lock: every client is still to be looked at.
LEMMA DialerLockKeeps ==
    ASSUME DialerParameters, DialerIInv, NEW u \in Users, Dialer!Lock(u) PROVE DialerIInv'
<1>1. UNCHANGED <<limit, Dialer!MaxReuse, pool, made, xcheck, pc, Dialer!cvars, Dialer!uvars>>
      /\ lock' = u /\ todo' = pool
  BY Zenon DEF Dialer!Lock, Dialer!MaxReuse
<1>2. DialerTyped'  BY Zenon, <1>1 DEF DialerIInv, DialerTyped, Dialer!cvars, Dialer!uvars
<1>3. DialerUses'  BY Zenon, <1>1 DEF DialerParameters, DialerIInv, DialerTyped, DialerUses, Dialer!cvars, Dialer!uvars
<1>4. DialerCounts'  BY Zenon, <1>1, DialerCountsKept DEF DialerIInv, Dialer!cvars, Dialer!uvars
<1>5. Dialer!NoClientLeaks'
  BY Zenon, <1>1 DEF DialerIInv, Dialer!NoClientLeaks, Dialer!Holders, Dialer!cvars, Dialer!uvars
<1> QED  BY Zenon, <1>2, <1>3, <1>4, <1>5 DEF DialerIInv

\* A stale client leaves the pool and is the one to be checked; the others
\* that were passed have a use left.
LEMMA DialerSweepKeeps ==
    ASSUME DialerParameters, DialerIInv, NEW c \in Clients, Dialer!Sweep(c) PROVE DialerIInv'
<1>1. UNCHANGED <<limit, Dialer!MaxReuse, made, lock, pc, left, running, xclosed,
                  handed, client>>
      /\ c \in todo /\ xcheck = None /\ todo' = todo \ {c}
  BY Zenon DEF Dialer!Sweep, Dialer!uvars, Dialer!MaxReuse
<1>4. DialerCounts'  BY Zenon, <1>1, DialerCountsKept DEF DialerIInv
<1>5. CASE Dialer!Stale(c)
  <2>1. notUsed' = notUsed \cup {c} /\ pool' = pool \ {c} /\ xcheck' = c
    BY Zenon, <1>5 DEF Dialer!Sweep
  <2>2. DialerTyped'  BY Zenon, <1>1, <2>1 DEF DialerIInv, DialerTyped
  <2>3. DialerUses'  BY Zenon, <1>1, <2>1 DEF DialerIInv, DialerTyped, DialerUses
  <2>4. Dialer!NoClientLeaks'
    <3> SUFFICES ASSUME NEW d \in notUsed', Dialer!Holders(d)' = {}, xcheck' # d
                 PROVE  d \in xclosed
      BY Zenon, <1>1 DEF Dialer!NoClientLeaks
    <3>1. d \in notUsed /\ Dialer!Holders(d) = {}  BY Zenon, <1>1, <2>1 DEF Dialer!Holders
    <3>2. d # xcheck  BY Zenon, <1>1, <3>1 DEF DialerParameters, DialerIInv, DialerTyped
    <3> QED  BY Zenon, <3>1, <3>2 DEF DialerIInv, Dialer!NoClientLeaks
  <2> QED  BY Zenon, <1>4, <2>2, <2>3, <2>4 DEF DialerIInv
<1>6. CASE ~Dialer!Stale(c)
  <2>1. UNCHANGED <<notUsed, pool, xcheck>> /\ left[c] # 0
    BY Zenon, <1>6 DEF Dialer!Sweep, Dialer!Stale
  <2>2. DialerTyped'  BY Zenon, <1>1, <2>1 DEF DialerIInv, DialerTyped
  <2>3. left[c] > 0  BY <2>1 DEF DialerIInv, DialerTyped
  <2>4. DialerUses'  BY Zenon, <1>1, <2>1, <2>3 DEF DialerIInv, DialerTyped, DialerUses
  <2>5. Dialer!NoClientLeaks'
    BY Zenon, <1>1, <2>1 DEF DialerIInv, Dialer!NoClientLeaks, Dialer!Holders
  <2> QED  BY Zenon, <1>4, <2>2, <2>4, <2>5 DEF DialerIInv
<1> QED  BY Zenon, <1>5, <1>6

\* The client that was marked is closed, or somebody runs on it.
LEMMA DialerSweepCloseKeeps ==
    ASSUME DialerParameters, DialerIInv, Dialer!SweepClose PROVE DialerIInv'
<1>1. UNCHANGED <<limit, Dialer!MaxReuse, pool, made, lock, todo, pc, left, running,
                  notUsed, handed, client>>
      /\ xcheck # None /\ xcheck' = None
      /\ xclosed' = IF running[xcheck] <= 0 THEN xclosed \cup {xcheck} ELSE xclosed
  BY Zenon DEF Dialer!SweepClose, Dialer!uvars, Dialer!MaxReuse
<1>2. DialerTyped'  BY Zenon, <1>1 DEF DialerIInv, DialerTyped
<1>3. DialerUses'  BY Zenon, <1>1 DEF DialerIInv, DialerUses
<1>4. DialerCounts'  BY Zenon, <1>1, DialerCountsKept DEF DialerIInv
<1>5. Dialer!NoClientLeaks'
  <2> SUFFICES ASSUME NEW c \in notUsed, Dialer!Holders(c) = {}
               PROVE  c \in xclosed'
    BY Zenon, <1>1 DEF Dialer!NoClientLeaks, Dialer!Holders
  <2>1. CASE c # xcheck
    BY Zenon, <1>1, <2>1 DEF DialerIInv, Dialer!NoClientLeaks
  <2>2. CASE c = xcheck
    <3>1. c \in Clients  BY Zenon DEF DialerIInv, DialerTyped
    <3>2. DialerUps(c) = {}  BY Zenon DEF DialerUps, Dialer!Holders
    <3>3. running[c] <= 0  BY Zenon, <3>1, <3>2, DialerNothingRuns DEF DialerIInv
    <3> QED  BY Zenon, <1>1, <2>2, <3>3
  <2> QED  BY Zenon, <2>1, <2>2
<1> QED  BY Zenon, <1>2, <1>3, <1>4, <1>5 DEF DialerIInv

\* A client is handed to a user that is not counted yet: nobody is added to
\* Running, and no client that left the pool gets a user.
LEMMA DialerTakeKeeps ==
    ASSUME DialerParameters, DialerIInv, NEW u \in Users, NEW c \in Clients, c \notin notUsed,
           Dialer!Take(u, c), todo = {}, DialerTyped', DialerUses'
    PROVE  DialerIInv'
<1>1. UNCHANGED <<running, notUsed, xclosed, xcheck>>  BY Zenon DEF Dialer!Take
<1>2. \A v \in Users : v # u => client'[v] = client[v] /\ pc'[v] = pc[v]
  BY DEF Dialer!Take, DialerIInv, DialerTyped
<1>3. \/ client'[u] = c /\ pc'[u] = "got" /\ pc[u] = "idle"
      \/ client'[u] = client[u] /\ pc'[u] = pc[u]
  BY DEF Dialer!Take, DialerIInv, DialerTyped
<1>4. DialerCounts'
  <2> SUFFICES ASSUME NEW d \in Clients
               PROVE  running'[d] = Cardinality(DialerUps(d)')
    BY Zenon DEF DialerCounts
  <2>1. \A v \in Users : (client'[v] = d /\ pc'[v] = "up")
                           <=> (client[v] = d /\ pc[v] = "up")
    BY Zenon, <1>2, <1>3
  <2>2. DialerUps(d)' = DialerUps(d)  BY Zenon, <2>1 DEF DialerUps
  <2> QED  BY Zenon, <1>1, <2>2 DEF DialerIInv, DialerCounts
<1>5. Dialer!NoClientLeaks'
  <2> SUFFICES ASSUME NEW d \in notUsed, Dialer!Holders(d)' = {}, xcheck # d
               PROVE  d \in xclosed
    BY Zenon, <1>1 DEF Dialer!NoClientLeaks
  <2>1. \A v \in Users : (client[v] = d /\ pc[v] \in {"got", "up", "closing"})
             => (client'[v] = d /\ pc'[v] \in {"got", "up", "closing"})
    BY Zenon, <1>2, <1>3
  <2>2. Dialer!Holders(d) = {}  BY Zenon, <2>1 DEF Dialer!Holders
  <2> QED  BY Zenon, <2>2 DEF DialerIInv, Dialer!NoClientLeaks
<1> QED  BY Zenon, <1>4, <1>5 DEF DialerIInv

\* A new client: its first use is counted.
LEMMA DialerMakeKeeps ==
    ASSUME DialerParameters, DialerIInv, NEW u \in Users, Dialer!Make(u) PROVE DialerIInv'
<1> PICK c \in Clients \ made :
         /\ made' = made \cup {c} /\ pool' = pool \cup {c}
         /\ left' = [left EXCEPT ![c] = Dialer!FirstUsage]
         /\ Dialer!Take(u, c)
  BY Zenon DEF Dialer!Make
<1>1. lock' = None /\ handed' = [handed EXCEPT ![c] = @ + 1]
      /\ UNCHANGED <<limit, Dialer!MaxReuse, todo, xcheck, running, notUsed>>
  BY Zenon DEF Dialer!Take, Dialer!MaxReuse
<1>2. lock = u /\ todo = {}  BY Zenon DEF Dialer!Make
<1>3. c \notin notUsed /\ c \notin pool  BY Zenon DEF DialerIInv, DialerTyped
<1>4. DialerTyped'
  <2>1. pc' \in [Users -> DialerPlaces]
        /\ client' \in [Users -> Clients \cup {None}]
        /\ \A v \in Users : pc'[v] # "idle" => client'[v] \in Clients
    BY Zenon DEF Dialer!Take, DialerIInv, DialerTyped, DialerPlaces
  <2>2. left' \in [Clients -> Nat] /\ handed' \in [Clients -> Nat]
    BY <1>1, DialerFirstUsageIs DEF DialerIInv, DialerTyped
  <2>3. pool' \subseteq made' /\ made' \subseteq Clients /\ todo' \subseteq pool'
        /\ notUsed' \subseteq made' /\ notUsed' \cap pool' = {}
    BY Zenon, <1>1, <1>2, <1>3 DEF DialerIInv, DialerTyped
  <2> QED  BY Zenon, <1>1, <2>1, <2>2, <2>3 DEF DialerIInv, DialerTyped
<1>5. DialerUses'
  <2>1. handed'[c] + left'[c] = Dialer!MaxReuse
    BY <1>1, DialerFirstUsageIs DEF DialerIInv, DialerTyped, DialerUses
  <2>2. \A d \in Clients : d # c => handed'[d] = handed[d] /\ left'[d] = left[d]
    BY Zenon, <1>1 DEF DialerIInv, DialerTyped
  <2>3. \A d \in made' : handed'[d] + left'[d] = Dialer!MaxReuse
    BY Zenon, <2>1, <2>2 DEF DialerIInv, DialerTyped, DialerUses
  <2>4. \A d \in Clients \ made' : handed'[d] = 0
    BY Zenon, <2>2 DEF DialerIInv, DialerUses
  <2> QED  BY Zenon, <1>1, <1>2, <2>3, <2>4 DEF DialerUses
<1> QED  BY Zenon, <1>2, <1>3, <1>4, <1>5, DialerTakeKeeps

\* A client of the pool has a use left, and loses it.
LEMMA DialerReuseKeeps ==
    ASSUME DialerParameters, DialerIInv, NEW u \in Users, Dialer!Reuse(u) PROVE DialerIInv'
<1> PICK c \in Dialer!Usable :
         /\ left' = [left EXCEPT ![c] = IF @ > 0 THEN @ - 1 ELSE @]
         /\ Dialer!Take(u, c)
  BY Zenon DEF Dialer!Reuse
<1>1. lock' = None /\ handed' = [handed EXCEPT ![c] = @ + 1]
      /\ UNCHANGED <<limit, Dialer!MaxReuse, todo, xcheck, running, notUsed, pool,
                     made>>
  BY Zenon DEF Dialer!Take, Dialer!Reuse, Dialer!MaxReuse
<1>2. lock = u /\ todo = {}  BY Zenon DEF Dialer!Reuse
<1>3. c \in pool /\ c \in made /\ c \in Clients /\ c \notin notUsed
  BY Zenon DEF DialerIInv, DialerTyped, Dialer!Usable
<1>4. left[c] > 0  BY Zenon, <1>2, <1>3 DEF DialerParameters, DialerIInv, DialerUses
<1>5. DialerTyped'
  <2>1. pc' \in [Users -> DialerPlaces]
        /\ client' \in [Users -> Clients \cup {None}]
        /\ \A v \in Users : pc'[v] # "idle" => client'[v] \in Clients
    BY Zenon, <1>3 DEF Dialer!Take, DialerIInv, DialerTyped, DialerPlaces
  <2>2. left' \in [Clients -> Nat] /\ handed' \in [Clients -> Nat]
    BY <1>1, <1>3, <1>4 DEF DialerIInv, DialerTyped
  <2> QED  BY Zenon, <1>1, <2>1, <2>2 DEF DialerIInv, DialerTyped
<1>6. DialerUses'
  <2>1. handed'[c] = handed[c] + 1 /\ left'[c] = left[c] - 1
    BY Zenon, <1>1, <1>3, <1>4 DEF DialerIInv, DialerTyped
  <2>2. \A d \in Clients : d # c => handed'[d] = handed[d] /\ left'[d] = left[d]
    BY Zenon, <1>1 DEF DialerIInv, DialerTyped
  <2>3. \A d \in made' : handed'[d] + left'[d] = Dialer!MaxReuse
    BY <1>1, <1>3, <2>1, <2>2 DEF DialerIInv, DialerTyped, DialerUses
  <2>4. \A d \in Clients \ made' : handed'[d] = 0
    BY Zenon, <1>1, <1>3, <2>2 DEF DialerIInv, DialerUses
  <2> QED  BY Zenon, <1>1, <1>2, <2>3, <2>4 DEF DialerUses
<1> QED  BY Zenon, <1>2, <1>3, <1>5, <1>6, DialerTakeKeeps

\* The user that has a client counts itself.
LEMMA DialerAddRunningKeeps ==
    ASSUME DialerParameters, DialerIInv, NEW u \in Users, Dialer!AddRunning(u) PROVE DialerIInv'
<1>1. UNCHANGED <<limit, Dialer!MaxReuse, pool, made, lock, todo, xcheck, left, notUsed,
                  xclosed, handed, client>>
      /\ pc[u] = "got" /\ pc' = [pc EXCEPT ![u] = "up"]
      /\ running' = [running EXCEPT ![client[u]] = @ + 1]
  BY Zenon DEF Dialer!AddRunning, Dialer!MaxReuse
<1>2. client[u] \in Clients  BY Zenon, <1>1 DEF DialerIInv, DialerTyped
<1>3. DialerTyped'  BY <1>1, <1>2 DEF DialerIInv, DialerTyped, DialerPlaces
<1>4. DialerUses'  BY Zenon, <1>1 DEF DialerIInv, DialerUses
<1>5. DialerCounts'
  <2> SUFFICES ASSUME NEW c \in Clients
               PROVE  running'[c] = Cardinality(DialerUps(c)')
    BY Zenon DEF DialerCounts
  <2>0. IsFiniteSet(DialerUps(c)) /\ running[c] = Cardinality(DialerUps(c))
    BY Zenon, DialerUpsFinite DEF DialerIInv, DialerCounts
  <2>1. CASE c = client[u]
    <3>1. DialerUps(c)' = DialerUps(c) \cup {u} /\ u \notin DialerUps(c)
      BY Zenon, <1>1, <2>1 DEF DialerUps, DialerIInv, DialerTyped
    <3>2. Cardinality(DialerUps(c)') = Cardinality(DialerUps(c)) + 1
      BY Zenon, <2>0, <3>1, FS_AddElement
    <3> QED  BY Zenon, <1>1, <1>2, <2>0, <2>1, <3>2 DEF DialerIInv, DialerTyped
  <2>2. CASE c # client[u]
    <3>1. DialerUps(c)' = DialerUps(c)  BY Zenon, <1>1, <2>2 DEF DialerUps, DialerIInv, DialerTyped
    <3> QED  BY Zenon, <1>1, <1>2, <2>0, <2>2, <3>1 DEF DialerIInv, DialerTyped
  <2> QED  BY Zenon, <2>1, <2>2
<1>6. Dialer!NoClientLeaks'
  <2> SUFFICES ASSUME NEW d \in notUsed, Dialer!Holders(d)' = {}, xcheck # d
               PROVE  d \in xclosed
    BY Zenon, <1>1 DEF Dialer!NoClientLeaks
  <2>1. Dialer!Holders(d) = {}  BY Zenon, <1>1 DEF Dialer!Holders, DialerIInv, DialerTyped
  <2> QED  BY Zenon, <2>1 DEF DialerIInv, Dialer!NoClientLeaks
<1> QED  BY Zenon, <1>3, <1>4, <1>5, <1>6 DEF DialerIInv

\* DoneRunning: the user still holds its client until maybeClose has looked.
LEMMA DialerDoneKeeps ==
    ASSUME DialerParameters, DialerIInv, NEW u \in Users, Dialer!Done(u) PROVE DialerIInv'
<1>1. UNCHANGED <<limit, Dialer!MaxReuse, pool, made, lock, todo, xcheck, left, notUsed,
                  xclosed, handed, client>>
      /\ pc[u] = "up" /\ pc' = [pc EXCEPT ![u] = "closing"]
      /\ running' = [running EXCEPT ![client[u]] = @ - 1]
  BY Zenon DEF Dialer!Done, Dialer!uvars, Dialer!MaxReuse
<1>2. client[u] \in Clients  BY Zenon, <1>1 DEF DialerIInv, DialerTyped
<1>3. DialerTyped'  BY <1>1, <1>2 DEF DialerIInv, DialerTyped, DialerPlaces
<1>4. DialerUses'  BY Zenon, <1>1 DEF DialerIInv, DialerUses
<1>5. DialerCounts'
  <2> SUFFICES ASSUME NEW c \in Clients
               PROVE  running'[c] = Cardinality(DialerUps(c)')
    BY Zenon DEF DialerCounts
  <2>0. IsFiniteSet(DialerUps(c)) /\ running[c] = Cardinality(DialerUps(c))
    BY Zenon, DialerUpsFinite DEF DialerIInv, DialerCounts
  <2>1. CASE c = client[u]
    <3>1. DialerUps(c)' = DialerUps(c) \ {u} /\ u \in DialerUps(c)
      BY Zenon, <1>1, <2>1 DEF DialerUps, DialerIInv, DialerTyped
    <3>2. Cardinality(DialerUps(c)') = Cardinality(DialerUps(c)) - 1
      BY Zenon, <2>0, <3>1, FS_RemoveElement
    <3> QED  BY Zenon, <1>1, <1>2, <2>0, <2>1, <3>2 DEF DialerIInv, DialerTyped
  <2>2. CASE c # client[u]
    <3>1. DialerUps(c)' = DialerUps(c)  BY Zenon, <1>1, <2>2 DEF DialerUps, DialerIInv, DialerTyped
    <3> QED  BY Zenon, <1>1, <1>2, <2>0, <2>2, <3>1 DEF DialerIInv, DialerTyped
  <2> QED  BY Zenon, <2>1, <2>2
<1>6. Dialer!NoClientLeaks'
  <2> SUFFICES ASSUME NEW d \in notUsed, Dialer!Holders(d)' = {}, xcheck # d
               PROVE  d \in xclosed
    BY Zenon, <1>1 DEF Dialer!NoClientLeaks
  <2>1. Dialer!Holders(d) = {}  BY Zenon, <1>1 DEF Dialer!Holders, DialerIInv, DialerTyped
  <2> QED  BY Zenon, <2>1 DEF DialerIInv, Dialer!NoClientLeaks
<1> QED  BY Zenon, <1>3, <1>4, <1>5, <1>6 DEF DialerIInv

\* The last user of a client that left the pool finds nothing running on it.
LEMMA DialerMaybeCloseKeeps ==
    ASSUME DialerParameters, DialerIInv, NEW u \in Users, Dialer!MaybeClose(u) PROVE DialerIInv'
<1>1. UNCHANGED <<limit, Dialer!MaxReuse, pool, made, lock, todo, xcheck, left, running,
                  notUsed, handed, client>>
      /\ pc[u] = "closing" /\ pc' = [pc EXCEPT ![u] = "end"]
      /\ xclosed' = IF client[u] \in notUsed /\ running[client[u]] <= 0
                      THEN xclosed \cup {client[u]} ELSE xclosed
  BY Zenon DEF Dialer!MaybeClose, Dialer!uvars, Dialer!MaxReuse
<1>2. client[u] \in Clients  BY Zenon, <1>1 DEF DialerIInv, DialerTyped
<1>3. DialerTyped'  BY Zenon, <1>1, <1>2 DEF DialerIInv, DialerTyped, DialerPlaces
<1>4. DialerUses'  BY Zenon, <1>1 DEF DialerIInv, DialerUses
<1>5. DialerCounts'
  <2> SUFFICES ASSUME NEW c \in Clients
               PROVE  running'[c] = Cardinality(DialerUps(c)')
    BY Zenon DEF DialerCounts
  <2>1. DialerUps(c)' = DialerUps(c)  BY Zenon, <1>1 DEF DialerUps, DialerIInv, DialerTyped
  <2> QED  BY Zenon, <1>1, <2>1 DEF DialerIInv, DialerCounts
<1>6. Dialer!NoClientLeaks'
  <2> SUFFICES ASSUME NEW d \in notUsed, Dialer!Holders(d)' = {}, xcheck # d
               PROVE  d \in xclosed'
    BY Zenon, <1>1 DEF Dialer!NoClientLeaks
  <2>1. \A v \in Users : v # u => pc'[v] = pc[v]  BY Zenon, <1>1 DEF DialerIInv, DialerTyped
  <2>2. CASE d = client[u]
    <3>1. DialerUps(d) = {}
      <4> SUFFICES ASSUME NEW v \in Users, client[v] = d, pc[v] = "up"
                   PROVE  FALSE
        BY Zenon DEF DialerUps
      <4>1. v # u  BY Zenon, <1>1
      <4>2. v \in Dialer!Holders(d)'  BY Zenon, <1>1, <2>1, <4>1 DEF Dialer!Holders
      <4> QED  BY Zenon, <4>2
    <3>2. running[d] <= 0  BY Zenon, <1>2, <2>2, <3>1, DialerNothingRuns DEF DialerIInv
    <3> QED  BY Zenon, <1>1, <2>2, <3>2
  <2>3. CASE d # client[u]
    <3>1. Dialer!Holders(d) = {}  BY Zenon, <1>1, <2>1, <2>3 DEF Dialer!Holders
    <3> QED  BY Zenon, <1>1, <3>1 DEF DialerIInv, Dialer!NoClientLeaks
  <2> QED  BY Zenon, <2>2, <2>3
<1> QED  BY Zenon, <1>3, <1>4, <1>5, <1>6 DEF DialerIInv

\* Requests change neither the pool nor the count of users.
LEMMA DialerRequestKeeps ==
    ASSUME DialerParameters, DialerIInv,
           UNCHANGED <<limit, pool, made, lock, todo, xcheck, pc, left, running,
                       notUsed, xclosed, handed, client>>
    PROVE  DialerIInv'
<1>1. DialerTyped'  BY Zenon DEF DialerIInv, DialerTyped
<1>2. DialerUses'  BY Zenon DEF DialerIInv, DialerUses, Dialer!MaxReuse
<1>3. DialerCounts'  BY Zenon, DialerCountsKept DEF DialerIInv
<1>4. Dialer!NoClientLeaks'  BY Zenon DEF DialerIInv, Dialer!NoClientLeaks, Dialer!Holders
<1> QED  BY Zenon, <1>1, <1>2, <1>3, <1>4 DEF DialerIInv

\* Every step of the manager, the dials and the uploads keeps the invariant.
LEMMA DialerXmuxStep == ASSUME DialerParameters PROVE DialerIInv /\ [Dialer!Next]_Dialer!vars => DialerIInv'
<1> SUFFICES ASSUME DialerIInv, [Dialer!Next]_Dialer!vars PROVE DialerIInv'  OBVIOUS
<1>1. CASE UNCHANGED Dialer!vars
  BY Zenon, <1>1, DialerRequestKeeps DEF Dialer!vars, Dialer!cvars, Dialer!uvars
<1>2. ASSUME NEW u \in Users, Dialer!Lock(u) PROVE DialerIInv'  BY Zenon, <1>2, DialerLockKeeps
<1>3. ASSUME NEW u \in Users, Dialer!Make(u) PROVE DialerIInv'  BY Zenon, <1>3, DialerMakeKeeps
<1>4. ASSUME NEW u \in Users, Dialer!Reuse(u) PROVE DialerIInv'  BY Zenon, <1>4, DialerReuseKeeps
<1>5. ASSUME NEW u \in Users, Dialer!AddRunning(u) PROVE DialerIInv'
  BY Zenon, <1>5, DialerAddRunningKeeps
<1>6. ASSUME NEW u \in Users, Dialer!Post(u) PROVE DialerIInv'
  BY Zenon, <1>6, DialerRequestKeeps DEF Dialer!Post
<1>7. ASSUME NEW u \in Users, Dialer!PostDone(u) PROVE DialerIInv'
  BY Zenon, <1>7, DialerRequestKeeps DEF Dialer!PostDone
<1>8. ASSUME NEW u \in Users, Dialer!Done(u) PROVE DialerIInv'  BY Zenon, <1>8, DialerDoneKeeps
<1>9. ASSUME NEW u \in Users, Dialer!MaybeClose(u) PROVE DialerIInv'
  BY Zenon, <1>9, DialerMaybeCloseKeeps
<1>10. ASSUME NEW c \in Clients, Dialer!Sweep(c) PROVE DialerIInv'  BY Zenon, <1>10, DialerSweepKeeps
<1>11. CASE Dialer!SweepClose  BY Zenon, <1>11, DialerSweepCloseKeeps
<1> QED  BY Zenon, <1>1, <1>2, <1>3, <1>4, <1>5, <1>6, <1>7, <1>8, <1>9, <1>10,
            <1>11 DEF Dialer!Next

\* XmuxManager and Dial: a client is returned cMaxReuseTimes times at most,
\* and one that left the pool is closed when its last user is gone.
THEOREM XmuxClientsRetire == ASSUME DialerParameters PROVE Dialer!Spec => []ClientsRetire
<1>1. DialerIInv => Dialer!ClientsRetire
  <2> SUFFICES ASSUME DialerIInv PROVE Dialer!UsageBounded
    BY Zenon DEF Dialer!ClientsRetire, DialerIInv
  <2> SUFFICES ASSUME NEW c \in Clients PROVE handed[c] <= Dialer!MaxReuse
    BY Zenon DEF Dialer!UsageBounded
  <2>1. handed[c] \in Nat /\ left[c] \in Nat  BY Zenon DEF DialerIInv, DialerTyped
  <2>2. Dialer!MaxReuse \in Nat \ {0}  BY Zenon, DialerFirstUsageIs DEF DialerIInv, DialerTyped
  <2>3. CASE c \in made
    <3>1. handed[c] + left[c] = Dialer!MaxReuse  BY Zenon, <2>3 DEF DialerIInv, DialerUses
    <3> QED  BY <2>1, <2>2, <3>1
  <2>4. CASE c \notin made
    <3>1. handed[c] = 0  BY Zenon, <2>4 DEF DialerIInv, DialerUses
    <3> QED  BY <2>2, <3>1
  <2> QED  BY Zenon, <2>3, <2>4
<1> QED  BY DialerXmuxInit, DialerXmuxStep, <1>1, PTL DEF Dialer!Spec, ClientsRetire

=============================================================================
