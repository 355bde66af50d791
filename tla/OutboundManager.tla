-------------------------- MODULE OutboundManager ---------------------------
(***************************************************************************)
(* The outbound manager (app/proxyman/outbound/outbound.go) under the       *)
(* connections that are routed through a balancer: the balancer asks Select *)
(* for the tags that match its selectors (app/router/balancing.go), picks   *)
(* one, and the dispatcher looks its handler up (app/dispatcher/default.go, *)
(* routedDispatch).  Select answers from a cache that it reads outside the  *)
(* lock; AddHandler and RemoveHandler, called by the API at any time, put a *)
(* new cache in place.  A Select that found nothing stores its answer in    *)
(* the cache of that moment.                                                *)
(***************************************************************************)
EXTENDS Naturals, Sequences, FiniteSets, Functions

CONSTANTS
    Handlers,      \* outbound handlers
    Tags,          \* their tags
    Tag,           \* [Handlers -> Tags \cup {NoTag}]
    Selectors,     \* the selectors of the balancers
    Matches,       \* [Selectors -> SUBSET Tags]: strings.HasPrefix
    Conns,         \* connections, each routed once
    MaxChanges,    \* how often handlers are added and removed
    None

VARIABLES
    defaultHandler,
    taggedHandler,     \* [Tags -> Handlers \cup {None}]
    untaggedHandlers,
    tagsCache,         \* which of caches is Manager.tagsCache
    caches,            \* [0..MaxChanges -> [Selectors -> None or tags]]
    readers,           \* the connections that hold access.RLock
    pc, selector,      \* of each connection: where it is, its balancer's
    cache,             \* ... the cache it loaded,
    tags,              \* ... what Select found,
    target,            \* ... the tag picked,
    out,               \* ... the handler it was given
    valid              \* ... what Select could have answered since it began

mvars == <<defaultHandler, taggedHandler, untaggedHandlers>>
cvars == <<pc, selector, cache, tags, target, out>>
vars == <<mvars, tagsCache, caches, readers, cvars, valid>>

\* The tag of a handler without one.
NoTag == ""

NoCache == [s \in Selectors |-> None]

\* The tags that s selects among the handlers of th.
Selected(s, th) == {t \in Matches[s] : th[t] # None}

Listed == Range(untaggedHandlers)
          \cup {h \in Handlers : Tag[h] # NoTag /\ taggedHandler[Tag[h]] = h}

Init ==
    /\ defaultHandler = None
    /\ taggedHandler = [t \in Tags |-> None]
    /\ untaggedHandlers = <<>>
    /\ tagsCache = 0
    /\ caches = [g \in 0..MaxChanges |-> NoCache]
    /\ readers = {}
    /\ pc = [p \in Conns |-> "new"]
    /\ selector \in [Conns -> Selectors]
    /\ cache = [p \in Conns |-> None]
    /\ tags = [p \in Conns |-> {}]
    /\ target = [p \in Conns |-> None]
    /\ out = [p \in Conns |-> None]
    /\ valid = [p \in Conns |-> {}]

-----------------------------------------------------------------------------
(* The API: under access.Lock, so while no Select holds the read lock *)

\* m.tagsCache = &sync.Map{}
NewCache == tagsCache < MaxChanges /\ tagsCache' = tagsCache + 1

\* The selections of the calls in progress become these too.
NowValid ==
    valid' = [p \in Conns |->
                IF pc[p] \in {"new", "done"} THEN valid[p]
                ELSE valid[p] \cup {Selected(selector[p], taggedHandler')}]

\* AddHandler: the first handler is the default, even one that is turned away
\* because its tag is taken.
AddHandler(h) ==
    /\ readers = {} /\ h \notin Listed
    /\ NewCache
    /\ defaultHandler' = IF defaultHandler = None THEN h ELSE defaultHandler
    /\ IF Tag[h] = NoTag
       THEN /\ untaggedHandlers' = Append(untaggedHandlers, h)
            /\ UNCHANGED taggedHandler
       ELSE /\ taggedHandler' = IF taggedHandler[Tag[h]] = None
                                THEN [taggedHandler EXCEPT ![Tag[h]] = h]
                                ELSE taggedHandler
            /\ UNCHANGED untaggedHandlers
    /\ NowValid
    /\ UNCHANGED <<caches, readers, cvars>>

\* Mutant: the default is forgotten only when it is the handler removed.
RemoveHandlerByIdentity(t) ==
    /\ readers = {}
    /\ NewCache
    /\ taggedHandler' = [taggedHandler EXCEPT ![t] = None]
    /\ defaultHandler' = IF defaultHandler # None
                             /\ defaultHandler = taggedHandler[t]
                         THEN None ELSE defaultHandler
    /\ NowValid
    /\ UNCHANGED <<untaggedHandlers, caches, readers, cvars>>

\* RemoveHandler.  The handler is not closed.
RemoveHandler(t) ==
    /\ readers = {}
    /\ NewCache
    /\ taggedHandler' = [taggedHandler EXCEPT ![t] = None]
    /\ defaultHandler' = IF defaultHandler # None /\ Tag[defaultHandler] = t
                         THEN None ELSE defaultHandler
    /\ NowValid
    /\ UNCHANGED <<untaggedHandlers, caches, readers, cvars>>

-----------------------------------------------------------------------------
(* A connection that a rule sends to a balancer *)

\* Balancer.PickOutbound calls Select, which loads m.tagsCache ...
Select(p) ==
    /\ pc[p] = "new"
    /\ pc' = [pc EXCEPT ![p] = "load"]
    /\ cache' = [cache EXCEPT ![p] = tagsCache]
    /\ valid' = [valid EXCEPT ![p] = {Selected(selector[p], taggedHandler)}]
    /\ UNCHANGED <<mvars, tagsCache, caches, readers, selector, tags, target,
                   out>>

\* ... and looks the key up in that map.
Load(p) ==
    LET hit == caches[cache[p]][selector[p]] IN
    /\ pc[p] = "load"
    /\ IF hit # None
       THEN /\ pc' = [pc EXCEPT ![p] = "pick"]
            /\ tags' = [tags EXCEPT ![p] = hit]
       ELSE /\ pc' = [pc EXCEPT ![p] = "miss"]
            /\ UNCHANGED tags
    /\ cache' = [cache EXCEPT ![p] = None]
    /\ UNCHANGED <<mvars, tagsCache, caches, readers, selector, target, out,
                   valid>>

\* Mutant: the read lock is not held until the answer is stored.
ComputeUnlocked(p) ==
    /\ pc[p] = "miss"
    /\ tags' = [tags EXCEPT ![p] = Selected(selector[p], taggedHandler)]
    /\ pc' = [pc EXCEPT ![p] = "store"]
    /\ UNCHANGED <<mvars, tagsCache, caches, readers, selector, cache, target,
                   out, valid>>

\* Nothing there: the tags are computed under the read lock, ...
Compute(p) ==
    /\ pc[p] = "miss"
    /\ readers' = readers \cup {p}
    /\ tags' = [tags EXCEPT ![p] = Selected(selector[p], taggedHandler)]
    /\ pc' = [pc EXCEPT ![p] = "store"]
    /\ UNCHANGED <<mvars, tagsCache, caches, selector, cache, target, out,
                   valid>>

\* ... and stored in the cache that is in place now.
Store(p) ==
    /\ pc[p] = "store"
    /\ caches' = [caches EXCEPT ![tagsCache][selector[p]] = tags[p]]
    /\ readers' = readers \ {p}
    /\ pc' = [pc EXCEPT ![p] = "pick"]
    /\ UNCHANGED <<mvars, tagsCache, selector, cache, tags, target, out, valid>>

\* The strategy picks one of the tags.  Without any, PickRoute fails and the
\* connection takes the default route.
PickOutbound(p) ==
    /\ pc[p] = "pick"
    /\ IF tags[p] = {}
       THEN /\ pc' = [pc EXCEPT ![p] = "default"]
            /\ UNCHANGED target
       ELSE /\ pc' = [pc EXCEPT ![p] = "picked"]
            /\ \E t \in tags[p] : target' = [target EXCEPT ![p] = t]
    /\ UNCHANGED <<mvars, tagsCache, caches, readers, selector, cache, tags, out,
                   valid>>

\* Mutant: a tag that is gone by now falls back to the default handler.
RoutedDispatchFallsBack(p) ==
    /\ pc[p] \in {"picked", "default"}
    /\ out' = [out EXCEPT ![p] =
                 IF pc[p] = "default" \/ taggedHandler[target[p]] = None
                 THEN defaultHandler ELSE taggedHandler[target[p]]]
    /\ pc' = [pc EXCEPT ![p] = "done"]
    /\ UNCHANGED <<mvars, tagsCache, caches, readers, selector, cache, tags,
                   target, valid>>

\* routedDispatch hands the link to the handler of the tag, or to the default
\* handler on the default route; where there is none the link is closed.
RoutedDispatch(p) ==
    /\ pc[p] \in {"picked", "default"}
    /\ out' = [out EXCEPT ![p] = IF pc[p] = "default" THEN defaultHandler
                                 ELSE taggedHandler[target[p]]]
    /\ pc' = [pc EXCEPT ![p] = "done"]
    /\ UNCHANGED <<mvars, tagsCache, caches, readers, selector, cache, tags,
                   target, valid>>

Next ==
    \/ \E h \in Handlers : AddHandler(h)
    \/ \E t \in Tags : RemoveHandler(t)
    \/ \E p \in Conns :
         \/ Select(p)
         \/ Load(p)
         \/ Compute(p)
         \/ Store(p)
         \/ PickOutbound(p)
         \/ RoutedDispatch(p)

Spec == Init /\ [][Next]_vars

-----------------------------------------------------------------------------
(* Properties *)

\* Select is linearizable though it reads the cache outside the lock: what a
\* balancer chooses from was the selection at some moment of the call, never
\* a list from before a handler was added or removed.  A stored answer is
\* never stale either: the cache in place agrees with the handlers.
SelectIsCurrent ==
    /\ \A p \in Conns :
         pc[p] \in {"pick", "picked", "default"} => tags[p] \in valid[p]
    /\ \A s \in Selectors :
         caches[tagsCache][s] \in {None, Selected(s, taggedHandler)}

\* "the traffic shouldn't be processed by default outbound if the specified
\* outbound tag doesn't exist (yet)" (app/dispatcher/default.go:470): a
\* connection that a balancer routed gets a handler of a tag that the
\* balancer's selectors match; another one only if, at some moment of the
\* call, they matched no handler at all.
RoutedAsSelected ==
    \A p \in Conns :
       pc[p] = "done" /\ out[p] # None =>
          \/ Tag[out[p]] \in Matches[selector[p]]
          \/ {} \in valid[p]

\* The default handler never outlives its tag: a handler that was turned away
\* as a duplicate may have become the default (AddHandler sets it first), and
\* removing the tag still drops it.
DefaultHasItsTag ==
    defaultHandler # None /\ Tag[defaultHandler] # NoTag =>
       taggedHandler[Tag[defaultHandler]] # None

=============================================================================
