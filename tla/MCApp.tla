-------------------------------- MODULE MCApp --------------------------------
(***************************************************************************)
(* The application's features on small instances.  A behaviour is one of    *)
(* the fake DNS pool, the cache of a DNS server, the queries to it, a       *)
(* parallel query of several servers, or the creation of an instance; the   *)
(* others stay as they began.                                               *)
(***************************************************************************)
EXTENDS FakeDNS, Sequences

CONSTANTS
    Names, MaxAnswers,              \* of DNSCache
    Askers, Options, MaxExpiries,   \* of DNSQuery
    N, Policies,                    \* of DNSParallel
    Apps, Essentials, Resolutions, Deps, Optional, Fallible,
    Requires                        \* of Instance

VARIABLES
    part,                                                   \* which of them
    ips, dirtyips, migrating, todo, expire, newest, ckeys, cpc,
    udp, option, qpc, leader, flight, sub, inbox, req, noResponseErrCh,
    ctxDone, rec, found, cached, expiries,
    policyID, results, pending, nextGroup, ret,
    config, created, features, pendingResolutions,
    pendingOptionalResolutions, stack, called, result, running

cv == <<ips, dirtyips, migrating, todo, expire, newest, ckeys, cpc>>
qv == <<udp, option, qpc, leader, flight, sub, inbox, req, noResponseErrCh,
        ctxDone, rec, found, cached, expiries>>
pv == <<policyID, results, pending, nextGroup, ret>>
iv == <<config, created, features, pendingResolutions,
        pendingOptionalResolutions, stack, called, result, running>>

-----------------------------------------------------------------------------
(* The instances *)

Cache == INSTANCE DNSCache WITH Domains <- Names, keys <- ckeys, pc <- cpc

Query == INSTANCE DNSQuery WITH Callers <- Askers, pc <- qpc

Parallel == INSTANCE DNSParallel

Creation == INSTANCE Instance

\* Options: callers ask for IPv4 or for both families.
MCOptions == {{4}, {4, 6}}

\* The features that need each other most: Deps, what each callback waits for;
\* Requires, what each constructor and callback registers.
MCDeps == [dispatcherInit |-> {"outbound", "router", "dns"},
           fakeDNSOfDispatcher |-> {"fakedns"},
           routerInit |-> {"dns", "outbound", "dispatcher"},
           leastPing |-> {"observatory"},
           observatoryInit |-> {"outbound", "dispatcher"},
           dnsClient |-> {"dispatcher"}]

MCRequires == [dispatcher |-> <<"dispatcherInit">>,
               outbound |-> <<>>,
               router |-> <<"routerInit">>,
               observatory |-> <<"observatoryInit">>,
               fakedns |-> <<>>,
               dns |-> <<"dnsClient">>,
               dispatcherInit |-> <<"fakeDNSOfDispatcher">>,
               fakeDNSOfDispatcher |-> <<>>,
               routerInit |-> <<"leastPing">>,
               leastPing |-> <<>>,
               observatoryInit |-> <<>>,
               dnsClient |-> <<>>]

MCResolutions == DOMAIN MCDeps
MCEssentials == <<"dns", "router">>

-----------------------------------------------------------------------------
MCInit ==
    /\ part \in {"fakedns", "cache", "query", "parallel", "create"}
    /\ Init /\ Cache!Init /\ Query!Init /\ Parallel!Init
    /\ Creation!Init
    /\ part # "query" => udp /\ option = [p \in Askers |-> {4}]
    /\ part # "parallel" => policyID = [i \in 1 .. N |-> CHOOSE x \in Policies : TRUE]
    /\ part # "create" => config = {}

MCNext ==
    \/ part = "fakedns" /\ Next /\ UNCHANGED <<part, cv, qv, pv, iv>>
    \/ part = "cache" /\ Cache!Next /\ UNCHANGED <<part, vars, qv, pv, iv>>
    \/ part = "query" /\ Query!Next /\ UNCHANGED <<part, vars, cv, pv, iv>>
    \/ /\ part = "parallel" /\ Parallel!Next
       /\ UNCHANGED <<part, vars, cv, qv, iv>>
    \/ /\ part = "create" /\ Creation!Next
       /\ UNCHANGED <<part, vars, cv, qv, pv>>

\* The fairness of DNSQuery, in its own behaviours.
Fairness ==
    /\ \A p \in Askers :
         /\ WF_qv(part = "query" /\ Query!Fetch(p))
         /\ WF_qv(part = "query" /\ Query!Timeout(p))
    /\ \A p \in Askers, f \in {4, 6} :
         /\ WF_qv(/\ part = "query"
                  /\ Query!Lost(p, f) \/ Query!ReportError(p, f))
         /\ WF_qv(/\ part = "query"
                  /\ Query!updateRecord(p, f) \/ Query!publishOther(p, f))

MCSpec == MCInit /\ [][MCNext]_<<part, vars, cv, qv, pv, iv>> /\ Fairness

-----------------------------------------------------------------------------
(* The properties of the modules; those of FakeDNS are extended *)

\* DNSCache: no answer is lost before it expires.
NoFreshAnswerLost == Cache!NoFreshAnswerLost

\* DNSQuery: no answer that came in time is missed.
NoAnswerMissed == Query!NoAnswerMissed

\* DNSQuery: every query ends.
QueriesEnd == part = "query" => Query!QueriesEnd

\* DNSParallel: the answer is the one of the first group that has one.
FirstGroupWins == Parallel!FirstGroupWins

\* Instance: a callback runs once, when and only when its features are there.
ResolvedOnce == Creation!ResolvedOnce

=============================================================================
