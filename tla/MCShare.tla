------------------------------- MODULE MCShare -------------------------------
(***************************************************************************)
(* What connections share, on small instances: the sessions of one mux      *)
(* connection, the clients of one XHTTP dialer, or the table of outbound    *)
(* handlers.  A behaviour is one of the three; the other two stay as they   *)
(* began.  The connections are the same in each, and interchangeable, since *)
(* only invariants are checked.                                             *)
(***************************************************************************)
EXTENDS Mux, TLC

CONSTANTS
    Users, Clients, MaxRequests, Limits,                    \* of Xmux
    Handlers, Tags, Tag, Selectors, Matches, Conns,         \* of
    MaxChanges,                                             \* OutboundManager
    None

VARIABLES
    part,                                                   \* which of them
    limit, pool, made, left, req, running, notUsed, broken, xclosed, handed,
    lock, todo, xcheck, pc, client, loop, dyn, posting,
    defaultHandler, taggedHandler, untaggedHandlers, tagsCache, caches,
    readers, opc, selector, cache, tags, target, out, valid

xv == <<limit, pool, made, left, req, running, notUsed, broken, xclosed,
        handed, lock, todo, xcheck, pc, client, loop, dyn, posting>>
ov == <<defaultHandler, taggedHandler, untaggedHandlers, tagsCache, caches,
        readers, opc, selector, cache, tags, target, out, valid>>

\* Two connections at most, or one dial at a time on each, or a client for
\* each dial.
MCLimits == {<<2, 0, 2>>, <<0, 1, 2>>, <<0, 0, 1>>}

\* Two handlers of one tag, one of another and one of none; a selector that
\* matches both tags.
MCTag == [a1 |-> "a", a2 |-> "a", b1 |-> "b", u |-> ""]
MCMatches == [ab |-> {"a", "b"}]

Dialer == INSTANCE Xmux WITH closed <- xclosed, check <- xcheck

Manager == INSTANCE OutboundManager WITH pc <- opc

MCInit ==
    /\ part \in {"mux", "xmux", "outbound"}
    /\ Init /\ Dialer!Init /\ Manager!Init
    /\ part # "xmux" => limit = CHOOSE l \in Limits : TRUE

MCNext ==
    \/ part = "mux" /\ Next /\ UNCHANGED <<part, xv, ov>>
    \/ part = "xmux" /\ Dialer!Next /\ UNCHANGED <<part, vars, ov>>
    \/ part = "outbound" /\ Manager!Next /\ UNCHANGED <<part, vars, xv>>

MCSpec == MCInit /\ [][MCNext]_<<part, vars, xv, ov>>

Symmetry == Permutations(Flows)

-----------------------------------------------------------------------------
(* The properties of Xmux and OutboundManager; those of Mux are extended *)

\* Xmux: a client is handed out no more often than its limits allow, and is
\* closed once it is out of the pool and no one uses it.
ClientsRetire == Dialer!ClientsRetire

\* OutboundManager: Select answers from the handlers of its own time.
SelectIsCurrent == Manager!SelectIsCurrent

\* OutboundManager: a connection goes out where its balancer sent it.
RoutedAsSelected == Manager!RoutedAsSelected

\* OutboundManager: the tag of the default handler leads to a handler.
DefaultHasItsTag == Manager!DefaultHasItsTag

=============================================================================
