----------------------------- MODULE AppProofs ------------------------------
(***************************************************************************)
(* Proofs about app/dns, for any number of names, callers and cleanups,    *)
(* any pool of addresses and any capacity of the fake DNS cache.           *)
(*                                                                         *)
(* DNSCache: where the newest answer of a name is while the cleanup or the *)
(* migration of a map is under way (CacheIInv).                            *)
(* DNSQuery: what every outcome of a shared fetch is explained by, request *)
(* by request (QueryExplained).                                            *)
(* FakeDNS: the two maps of the LRU cache are inverse, and what is in      *)
(* front of a domain has been used since it was (Recent).                  *)
(***************************************************************************)
EXTENDS MCApp, TLAPS

-----------------------------------------------------------------------------
(* DNSCache *)

CacheMaps == [Names -> [Cache!Families -> Nat]]

\* The types, with the maps one by one.
CacheTyped ==
    /\ ips \in CacheMaps /\ dirtyips \in CacheMaps /\ expire \in CacheMaps /\ newest \in CacheMaps
    /\ migrating \in BOOLEAN
    /\ todo \subseteq Names /\ ckeys \subseteq Names
    /\ cpc \in {"idle", "write"}
    /\ ~migrating => dirtyips = Cache!NoMap /\ todo = {}

\* The map holds the newest answer or none; dirtyips may hold an older one
\* only where the map has the newest.
CacheCurrent(d, f) ==
    /\ ips[d][f] \in {0, newest[d][f]}
    /\ dirtyips[d][f] <= newest[d][f]
    /\ dirtyips[d][f] \in {0, newest[d][f]} \/ ips[d][f] = newest[d][f]

\* The conjunct of NoFreshAnswerLost for one domain and family.
CacheKept(d, f) ==
    newest[d][f] > expire[d][f] =>
        \/ ips[d][f] = newest[d][f]
        \/ d \in todo /\ dirtyips[d][f] = newest[d][f]

CacheIInv ==
    /\ CacheTyped
    /\ \A d \in Names, f \in Cache!Families : CacheCurrent(d, f) /\ CacheKept(d, f)

\* The empty map is a map.
LEMMA CacheEmptyMap == Cache!NoMap \in CacheMaps
  BY Zenon DEF Cache!NoMap, Cache!NoRecord, CacheMaps, Cache!Families

\* The initial state satisfies the invariant.
LEMMA CacheInitIInv == Cache!Init => CacheIInv
  <1> SUFFICES ASSUME Cache!Init PROVE CacheIInv
    OBVIOUS
  <1>1. CacheTyped
    BY Zenon, CacheEmptyMap DEF Cache!Init, CacheTyped
  <1>2. ASSUME NEW d \in Names, NEW f \in Cache!Families
        PROVE  CacheCurrent(d, f) /\ CacheKept(d, f)
    BY DEF Cache!Init, CacheCurrent, CacheKept, Cache!NoMap, Cache!NoRecord
  <1> QED BY Zenon, <1>1, <1>2 DEF CacheIInv

\* A cleaned map is a map.
LEMMA CacheCleanedType == ASSUME CacheTyped PROVE Cache!Cleaned \in CacheMaps
  BY DEF CacheTyped, Cache!Cleaned, CacheMaps, Cache!Families, Cache!Expired

\* Every step keeps the invariant.
LEMMA CacheNextIInv == CacheIInv /\ [Cache!Next]_Cache!vars => CacheIInv'
  <1> SUFFICES ASSUME CacheIInv, [Cache!Next]_Cache!vars PROVE CacheIInv'
    OBVIOUS
  <1>1. ASSUME NEW d \in Names, NEW f \in Cache!Families, Cache!Expire(d, f)
        PROVE  CacheIInv'
    <2>1. CacheTyped'
      BY Zenon, <1>1 DEF Cache!Expire, CacheIInv, CacheTyped, CacheMaps
    <2>2. ASSUME NEW x \in Names, NEW y \in Cache!Families
          PROVE  (CacheCurrent(x, y) /\ CacheKept(x, y))'
      BY Zenon, <1>1 DEF Cache!Expire, CacheIInv, CacheTyped, CacheMaps, CacheCurrent, CacheKept
    <2> QED BY Zenon, <2>1, <2>2 DEF CacheIInv
  <1>2. ASSUME NEW d \in Names, NEW f \in Cache!Families, Cache!updateRecord(d, f)
        PROVE  CacheIInv'
    <2>1. CacheTyped'
      BY <1>2 DEF Cache!updateRecord, Cache!NewRecord, CacheIInv, CacheTyped, CacheMaps
    <2>2. ASSUME NEW x \in Names, NEW y \in Cache!Families
          PROVE  (CacheCurrent(x, y) /\ CacheKept(x, y))'
      BY <1>2 DEF Cache!updateRecord, Cache!NewRecord, CacheIInv, CacheTyped, CacheMaps, CacheCurrent, CacheKept
    <2> QED BY Zenon, <2>1, <2>2 DEF CacheIInv
  <1>3. CASE Cache!collectExpiredKeys
    <2>1. CacheTyped'
      BY Zenon, <1>3 DEF Cache!collectExpiredKeys, CacheIInv, CacheTyped, CacheMaps
    <2>2. ASSUME NEW x \in Names, NEW y \in Cache!Families
          PROVE  (CacheCurrent(x, y) /\ CacheKept(x, y))'
      BY Zenon, <1>3 DEF Cache!collectExpiredKeys, CacheIInv, CacheCurrent, CacheKept
    <2> QED BY Zenon, <2>1, <2>2 DEF CacheIInv
  <1>4. CASE Cache!writeAndShrink
    <2>1. CASE migrating /\ UNCHANGED <<ips, dirtyips, migrating, todo>>
      <3>1. CacheTyped'
        BY Zenon, <1>4, <2>1 DEF Cache!writeAndShrink, CacheIInv, CacheTyped
      <3>2. ASSUME NEW x \in Names, NEW y \in Cache!Families
            PROVE  (CacheCurrent(x, y) /\ CacheKept(x, y))'
        BY Zenon, <1>4, <2>1 DEF Cache!writeAndShrink, CacheIInv, CacheCurrent, CacheKept
      <3> QED BY Zenon, <3>1, <3>2 DEF CacheIInv
    <2>2. CASE /\ ~migrating /\ ips' = Cache!Cleaned
               /\ UNCHANGED <<dirtyips, migrating, todo>>
      <3>1. CacheTyped'
        BY Zenon, <1>4, <2>2, CacheCleanedType DEF Cache!writeAndShrink, CacheIInv, CacheTyped
      <3>2. ASSUME NEW x \in Names, NEW y \in Cache!Families
            PROVE  (CacheCurrent(x, y) /\ CacheKept(x, y))'
        <4>1. /\ Cache!Cleaned[x][y] \in {0, ips[x][y]}
              /\ Cache!Cleaned[x][y] # ips[x][y] => ips[x][y] <= expire[x][y]
          BY Zenon DEF Cache!Cleaned, Cache!Expired, CacheIInv, CacheTyped, CacheMaps
        <4>2. dirtyips[x][y] = 0
          BY Zenon, <2>2 DEF CacheIInv, CacheTyped, Cache!NoMap, Cache!NoRecord
        <4> QED
          BY <1>4, <2>2, <4>1, <4>2
          DEF Cache!writeAndShrink, CacheIInv, CacheTyped, CacheMaps, CacheCurrent, CacheKept
      <3> QED BY Zenon, <3>1, <3>2 DEF CacheIInv
    <2>3. CASE /\ ~migrating /\ Cache!Cleaned # Cache!NoMap
               /\ dirtyips' = Cache!Cleaned /\ ips' = Cache!NoMap /\ migrating' = TRUE
               /\ todo' = {d \in Names : Cache!Cleaned[d] # Cache!NoRecord}
      <3>1. CacheTyped'
        BY Zenon, <1>4, <2>3, CacheCleanedType, CacheEmptyMap DEF Cache!writeAndShrink, CacheIInv, CacheTyped
      <3>2. ASSUME NEW x \in Names, NEW y \in Cache!Families
            PROVE  (CacheCurrent(x, y) /\ CacheKept(x, y))'
        <4>1. /\ Cache!Cleaned[x][y] \in {0, ips[x][y]}
              /\ Cache!Cleaned[x][y] # ips[x][y] => ips[x][y] <= expire[x][y]
          BY Zenon DEF Cache!Cleaned, Cache!Expired, CacheIInv, CacheTyped, CacheMaps
        <4>2. ips'[x][y] = 0
          BY Zenon, <2>3 DEF Cache!NoMap, Cache!NoRecord
        <4>3. Cache!Cleaned[x][y] # 0 => x \in todo'
          BY Zenon, <2>3 DEF Cache!NoRecord
        <4> QED
          BY <1>4, <2>3, <4>1, <4>2, <4>3
          DEF Cache!writeAndShrink, CacheIInv, CacheTyped, CacheMaps, CacheCurrent, CacheKept
      <3> QED BY Zenon, <3>1, <3>2 DEF CacheIInv
    <2> QED BY Zenon, <1>4, <2>1, <2>2, <2>3 DEF Cache!writeAndShrink
  <1>5. ASSUME NEW d \in Names, Cache!flush(d)
        PROVE  CacheIInv'
    <2>1. CacheTyped'
      BY Zenon, <1>5 DEF Cache!flush, Cache!Merged, CacheIInv, CacheTyped, CacheMaps
    <2>2. ASSUME NEW x \in Names, NEW y \in Cache!Families
          PROVE  (CacheCurrent(x, y) /\ CacheKept(x, y))'
      BY <1>5 DEF Cache!flush, Cache!Merged, CacheIInv, CacheTyped, CacheMaps, CacheCurrent, CacheKept
    <2> QED BY Zenon, <2>1, <2>2 DEF CacheIInv
  <1>6. CASE Cache!migrateEnd
    <2>1. CacheTyped'
      BY Zenon, <1>6, CacheEmptyMap DEF Cache!migrateEnd, CacheIInv, CacheTyped
    <2>2. ASSUME NEW x \in Names, NEW y \in Cache!Families
          PROVE  (CacheCurrent(x, y) /\ CacheKept(x, y))'
      BY <1>6
      DEF Cache!migrateEnd, CacheIInv, CacheTyped, CacheMaps, CacheCurrent, CacheKept, Cache!NoMap, Cache!NoRecord
    <2> QED BY Zenon, <2>1, <2>2 DEF CacheIInv
  <1>7. CASE UNCHANGED Cache!vars
    BY Zenon, <1>7 DEF Cache!vars, CacheIInv, CacheTyped, CacheCurrent, CacheKept
  <1> QED BY Zenon, <1>1, <1>2, <1>3, <1>4, <1>5, <1>6, <1>7 DEF Cache!Next

\* The invariant holds in every reachable state.
LEMMA CacheSpecIInv == Cache!Spec => []CacheIInv
  BY CacheInitIInv, CacheNextIInv, PTL DEF Cache!Spec

\* The maps and the cleanup keep their types, and outside a migration there
\* is no dirty map (CacheController).
THEOREM CacheTypeOK == Cache!Spec => []Cache!TypeOK
  <1>1. CacheIInv => Cache!TypeOK
    BY Zenon DEF CacheIInv, CacheTyped, CacheMaps, Cache!TypeOK
  <1> QED BY CacheSpecIInv, <1>1, PTL

\* findRecords never returns an answer that updateRecord has replaced.
THEOREM CacheNeverStale == Cache!Spec => []Cache!NeverStale
  <1>1. CacheIInv => Cache!NeverStale
    <2> SUFFICES ASSUME CacheIInv, NEW d \in Names, NEW f \in Cache!Families
                 PROVE  Cache!findRecords(d)[f] \in {0, newest[d][f]}
      BY Zenon DEF Cache!NeverStale
    <2>1. CASE ips[d] = Cache!NoRecord /\ migrating
      <3>1. ips[d][f] = 0
        BY Zenon, <2>1 DEF Cache!NoRecord
      <3> QED
        BY <2>1, <3>1 DEF Cache!findRecords, CacheIInv, CacheTyped, CacheMaps, CacheCurrent
    <2>2. CASE ~(ips[d] = Cache!NoRecord /\ migrating)
      BY Zenon, <2>2 DEF Cache!findRecords, CacheIInv, CacheCurrent
    <2> QED BY Zenon, <2>1, <2>2
  <1> QED BY CacheSpecIInv, <1>1, PTL

\* Neither the cleanup nor the migration loses an answer that has not
\* expired.
THEOREM CacheNoFreshAnswerLost == Cache!Spec => []NoFreshAnswerLost
  <1>1. CacheIInv => NoFreshAnswerLost
    BY Zenon DEF CacheIInv, CacheKept, NoFreshAnswerLost, Cache!NoFreshAnswerLost
  <1> QED BY CacheSpecIInv, <1>1, PTL

-----------------------------------------------------------------------------
(* DNSQuery *)

\* Callers ask for one family or both, and "none" is not a caller.
QueryParameters ==
    Options \subseteq (SUBSET Query!Families) \ {{}} /\ Query!NoCaller \notin Askers

\* Where a caller stands that leads a fetch, and before its requests.
QueryLeads == {"register", "send", "wait4", "wait6", "fetched"}
QueryBefore == {"new", "register", "send", "join"}
QueryLabels == QueryLeads \cup QueryBefore \cup {"done"}
QueryStages == {"none", "sent", "edns", "update", "other", "ended", "lost", "failed"}
QueryFlags == [Askers -> [Query!Families -> BOOLEAN]]

\* What excuses a fetch that has not every record.
QueryExcuse(p) == p \in ctxDone \/ \E f \in Query!Families : req[p][f] = "failed"

QueryTyped ==
    /\ option \in [Askers -> (SUBSET Query!Families) \ {{}}]
    /\ qpc \in [Askers -> QueryLabels]
    /\ leader \in [Askers -> Askers]
    /\ flight \in [SUBSET Query!Families -> Askers \cup {Query!NoCaller}]
    /\ sub \in QueryFlags /\ inbox \in QueryFlags
    /\ req \in [Askers -> [Query!Families -> QueryStages]]
    /\ noResponseErrCh \in [Askers -> Nat]
    /\ rec \in [Askers -> SUBSET Query!Families]
    /\ found \in [Askers -> SUBSET Query!Families]

\* Callers that share a fetch ask for the same families.
QueryFlights == \A k \in SUBSET Query!Families : flight[k] # Query!NoCaller => option[flight[k]] = k

QuerySeat(p) ==
    /\ qpc[p] \in QueryLeads \cup {"new"} => leader[p] = p
    /\ qpc[p] = "join" => option[leader[p]] = option[p]

\* A fetch receives what it asked for, and an error only after a failure.
QueryReceives(p) ==
    /\ \A f \in Query!Families : sub[p][f] \/ inbox[p][f] => f \in option[p]
    /\ rec[p] \subseteq option[p]
    /\ qpc[p] \in QueryBefore =>
           noResponseErrCh[p] = 0 /\ \A f \in Query!Families : req[p][f] = "none"
    /\ noResponseErrCh[p] > 0 => \E f \in Query!Families : req[p][f] = "failed"

\* A family that the fetch has been through has its record, or an excuse.
QueryExplained(p) ==
    /\ qpc[p] = "wait4" => 4 \in option[p]
    /\ qpc[p] = "wait6" => 6 \in option[p] /\ (4 \in option[p] \ rec[p] => QueryExcuse(p))
    /\ qpc[p] = "fetched" => option[p] \subseteq rec[p] \/ QueryExcuse(p)
    /\ qpc[p] = "done" =>
           \/ found[p] = option[p]
           \/ found[p] = {} /\ QueryExcuse(leader[p])

QueryCaller(p) == QuerySeat(p) /\ QueryReceives(p) /\ QueryExplained(p)

QueryIInv == QueryTyped /\ QueryFlights /\ \A p \in Askers : QueryCaller(p)

\* The initial state satisfies the invariant.
LEMMA QueryInitIInv == ASSUME QueryParameters, Query!Init PROVE QueryIInv
  <1>1. /\ option \in [Askers -> (SUBSET Query!Families) \ {{}}]
        /\ qpc = [p \in Askers |-> "new"]
        /\ leader = [p \in Askers |-> p]
        /\ flight = [k \in SUBSET Query!Families |-> Query!NoCaller]
        /\ sub = [p \in Askers |-> [f \in Query!Families |-> FALSE]]
        /\ inbox = [p \in Askers |-> [f \in Query!Families |-> FALSE]]
        /\ req = [p \in Askers |-> [f \in Query!Families |-> "none"]]
        /\ noResponseErrCh = [p \in Askers |-> 0]
        /\ rec = [p \in Askers |-> {}]
        /\ found = [p \in Askers |-> {}]
    BY Zenon DEF Query!Init, QueryParameters
  <1>2. QueryTyped
    <2>1. qpc \in [Askers -> QueryLabels]
      BY Zenon, <1>1 DEF QueryLabels, QueryBefore
    <2>2. sub \in QueryFlags /\ inbox \in QueryFlags
      BY Zenon, <1>1 DEF QueryFlags
    <2>3. req \in [Askers -> [Query!Families -> QueryStages]]
      BY Zenon, <1>1 DEF QueryStages
    <2>4. noResponseErrCh \in [Askers -> Nat]
      BY Zenon, <1>1
    <2> QED BY Zenon, <1>1, <2>1, <2>2, <2>3, <2>4 DEF QueryTyped
  <1>3. QueryFlights
    BY Zenon, <1>1 DEF QueryFlights
  <1>4. ASSUME NEW p \in Askers PROVE QueryCaller(p)
    <2>1. /\ qpc[p] = "new" /\ leader[p] = p /\ rec[p] = {}
          /\ noResponseErrCh[p] = 0
          /\ \A f \in Query!Families : ~sub[p][f] /\ ~inbox[p][f] /\ req[p][f] = "none"
      BY Zenon, <1>1
    <2>2. QuerySeat(p)
      BY Zenon, <2>1 DEF QuerySeat
    <2>3. QueryReceives(p)
      BY <2>1 DEF QueryReceives
    <2>4. QueryExplained(p)
      BY Zenon, <2>1 DEF QueryExplained
    <2> QED BY Zenon, <2>2, <2>3, <2>4 DEF QueryCaller
  <1> QED BY Zenon, <1>2, <1>3, <1>4 DEF QueryIInv

\* Excuses stay excuses.
QueryLenient ==
    \A p \in Askers : QueryExcuse(p) => QueryExcuse(p)'

\* What a step of others preserves.
LEMMA QueryOthersCaller ==
  ASSUME QueryIInv, NEW q \in Askers, QueryLenient, option' = option,
         qpc'[q] = qpc[q], leader'[q] = leader[q],
         rec'[q] = rec[q], found'[q] = found[q],
         sub'[q] = sub[q], inbox'[q] = inbox[q],
         req'[q] = req[q], noResponseErrCh'[q] = noResponseErrCh[q]
  PROVE  QueryCaller(q)'
  <1>1. QueryCaller(q) /\ leader[q] \in Askers
    BY Zenon DEF QueryIInv, QueryTyped
  <1>2. QuerySeat(q)'
    BY Zenon, <1>1 DEF QueryCaller, QuerySeat
  <1>3. QueryReceives(q)'
    BY Zenon, <1>1 DEF QueryCaller, QueryReceives
  <1>4. /\ QueryExcuse(q) => QueryExcuse(q)'
        /\ QueryExcuse(leader[q]) => (QueryExcuse(leader[q]))'
    <2>1. PICK l \in Askers : l = leader[q]
      BY Zenon, <1>1
    <2>2. (QueryExcuse(leader[q]))' <=> QueryExcuse(l)'
      BY Zenon, <2>1 DEF QueryExcuse
    <2> QED BY Zenon, <2>1, <2>2 DEF QueryLenient
  <1>5. QueryExplained(q)'
    BY Zenon, <1>1, <1>4 DEF QueryCaller, QueryExplained
  <1> QED BY Zenon, <1>2, <1>3, <1>5 DEF QueryCaller

\* queryIP: a cache hit, the lead of a flight, or a seat in one.
LEMMA QueryqueryIPIInv ==
  ASSUME QueryParameters, QueryIInv, NEW p \in Askers, Query!queryIP(p) PROVE QueryIInv'
  <1>1. /\ qpc[p] = "new"
        /\ UNCHANGED <<option, sub, inbox, req, noResponseErrCh, ctxDone, rec>>
    BY Zenon DEF Query!queryIP
  <1>2. \A q \in Askers : QueryExcuse(q)' = QueryExcuse(q)
    BY Zenon, <1>1 DEF QueryExcuse
  <1>3. option[p] \in SUBSET Query!Families /\ QueryCaller(p)
    BY Zenon DEF QueryIInv, QueryTyped
  <1>4. PICK l, v, g : /\ qpc' = [qpc EXCEPT ![p] = l]
                       /\ leader' = [leader EXCEPT ![p] = v]
                       /\ found' = [found EXCEPT ![p] = g]
                       /\ \/ l = "done" /\ g = option[p] /\ flight' = flight /\ v = leader[p]
                          \/ /\ l = "register" /\ v = leader[p] /\ g = found[p]
                             /\ flight' = [flight EXCEPT ![option[p]] = p]
                          \/ /\ l = "join" /\ v = flight[option[p]] /\ flight' = flight
                             /\ g = found[p] /\ v # Query!NoCaller
    <2>1. leader = [leader EXCEPT ![p] = leader[p]] /\ found = [found EXCEPT ![p] = found[p]]
      BY Zenon DEF QueryIInv, QueryTyped
    <2>2. CASE option[p] \subseteq cached
      BY Zenon, <2>1, <2>2 DEF Query!queryIP, Query!Goto
    <2>3. CASE ~(option[p] \subseteq cached) /\ flight[option[p]] = Query!NoCaller
      BY Zenon, <2>1, <2>3 DEF Query!queryIP, Query!Goto, Query!Key
    <2>4. CASE ~(option[p] \subseteq cached) /\ flight[option[p]] # Query!NoCaller
      BY Zenon, <2>1, <2>4 DEF Query!queryIP, Query!Goto, Query!Key
    <2> QED BY Zenon, <2>2, <2>3, <2>4
  <1>5. v \in Askers /\ g \in SUBSET Query!Families
    <2>1. /\ leader[p] \in Askers /\ found[p] \in SUBSET Query!Families
          /\ flight[option[p]] \in Askers \cup {Query!NoCaller}
      BY Zenon, <1>3 DEF QueryIInv, QueryTyped
    <2> QED BY Zenon, <1>3, <1>4, <2>1
  <1>6. QueryTyped'
    <2>1. l \in QueryLabels
      BY Zenon, <1>4 DEF QueryLabels, QueryLeads, QueryBefore
    <2>2. /\ qpc' \in [Askers -> QueryLabels] /\ leader' \in [Askers -> Askers]
          /\ found' \in [Askers -> SUBSET Query!Families]
      BY Zenon, <1>4, <1>5, <2>1 DEF QueryIInv, QueryTyped
    <2>3. flight' \in [SUBSET Query!Families -> Askers \cup {Query!NoCaller}]
      BY Zenon, <1>4 DEF QueryIInv, QueryTyped
    <2> QED BY Zenon, <1>1, <2>2, <2>3 DEF QueryIInv, QueryTyped
  <1>7. \A q \in Askers : /\ qpc'[q] = IF q = p THEN l ELSE qpc[q]
                          /\ leader'[q] = IF q = p THEN v ELSE leader[q]
                          /\ found'[q] = IF q = p THEN g ELSE found[q]
    BY Zenon, <1>4 DEF QueryIInv, QueryTyped
  <1>8. QueryFlights'
    <2>1. flight' = flight \/ flight' = [flight EXCEPT ![option[p]] = p]
      BY Zenon, <1>4
    <2>2. \A k \in SUBSET Query!Families :
             flight'[k] = flight[k] \/ (k = option[p] /\ flight'[k] = p)
      BY Zenon, <1>3, <2>1 DEF QueryIInv, QueryTyped
    <2> QED BY Zenon, <1>1, <2>2 DEF QueryIInv, QueryFlights
  <1>9. QueryCaller(p)'
    <2>1. qpc'[p] = l /\ leader'[p] = v /\ found'[p] = g
      BY Zenon, <1>7
    <2>2. QuerySeat(p)'
      <3>1. leader[p] = p
        BY Zenon, <1>1, <1>3 DEF QueryCaller, QuerySeat
      <3>2. l = "join" => option[v] = option[p] /\ l \notin QueryLeads \cup {"new"}
        BY Zenon, <1>3, <1>4 DEF QueryIInv, QueryFlights, QueryLeads
      <3>3. l # "join" => v = p
        BY Zenon, <1>4, <3>1
      <3> QED BY Zenon, <1>1, <2>1, <3>2, <3>3 DEF QuerySeat
    <2>3. QueryReceives(p)'
      BY Zenon, <1>1, <1>3 DEF QueryCaller, QueryReceives, QueryBefore
    <2>4. QueryExplained(p)'
      BY Zenon, <1>1, <1>4, <2>1 DEF QueryExplained
    <2> QED BY Zenon, <2>2, <2>3, <2>4 DEF QueryCaller
  <1>10. ASSUME NEW q \in Askers, q # p PROVE QueryCaller(q)'
    BY Zenon, <1>1, <1>2, <1>7, <1>10, QueryOthersCaller DEF QueryLenient
  <1> QED BY Zenon, <1>6, <1>8, <1>9, <1>10 DEF QueryIInv

\* A step of the fetch of p, which has the lead.
LEMMA QueryStepCallers ==
  ASSUME QueryIInv, NEW p \in Askers, UNCHANGED <<option, leader, flight, found>>,
         QueryLenient, QueryTyped', QueryCaller(p)',
         \A q \in Askers \ {p} :
            /\ qpc'[q] = qpc[q] /\ rec'[q] = rec[q] /\ sub'[q] = sub[q]
            /\ inbox'[q] = inbox[q] /\ req'[q] = req[q]
            /\ noResponseErrCh'[q] = noResponseErrCh[q]
  PROVE  QueryIInv'
  <1>1. QueryFlights'
    BY Zenon DEF QueryIInv, QueryFlights
  <1>2. \A q \in Askers \ {p} : QueryCaller(q)'
    BY Zenon, QueryOthersCaller
  <1> QED BY Zenon, <1>1, <1>2 DEF QueryIInv

\* registerSubscribers subscribes to what p asked for.
LEMMA QueryRegisterIInv ==
  ASSUME QueryIInv, NEW p \in Askers, Query!registerSubscribers(p) PROVE QueryIInv'
  <1>1. /\ qpc[p] = "register" /\ qpc' = [qpc EXCEPT ![p] = "send"]
        /\ sub' = [sub EXCEPT ![p] = [f \in Query!Families |-> f \in option[p]]]
        /\ UNCHANGED <<option, leader, flight, inbox, req, noResponseErrCh,
                        ctxDone, rec, found>>
    BY Zenon DEF Query!registerSubscribers, Query!Goto
  <1>2. QueryLenient
    BY Zenon, <1>1 DEF QueryLenient, QueryExcuse
  <1>3. QueryTyped'
    <2>1. qpc' \in [Askers -> QueryLabels]
      BY Zenon, <1>1 DEF QueryIInv, QueryTyped, QueryLabels, QueryLeads
    <2>2. [f \in Query!Families |-> f \in option[p]] \in [Query!Families -> BOOLEAN]
      OBVIOUS
    <2>3. sub' \in QueryFlags
      BY Zenon, <1>1, <2>2 DEF QueryIInv, QueryTyped, QueryFlags
    <2> QED BY Zenon, <1>1, <2>1, <2>3 DEF QueryIInv, QueryTyped
  <1>4. \A q \in Askers :
          /\ qpc'[q] = IF q = p THEN "send" ELSE qpc[q]
          /\ sub'[q] = IF q = p THEN [f \in Query!Families |-> f \in option[p]] ELSE sub[q]
    BY Zenon, <1>1 DEF QueryIInv, QueryTyped, QueryFlags
  <1>5. QueryCaller(p)'
    <2>1. QueryCaller(p) /\ qpc'[p] = "send" /\ \A f \in Query!Families : sub'[p][f] <=> f \in option[p]
      BY Zenon, <1>4 DEF QueryIInv
    <2>2. QuerySeat(p)'
      BY Zenon, <1>1, <2>1 DEF QueryCaller, QuerySeat, QueryLeads
    <2>3. QueryReceives(p)'
      BY Zenon, <1>1, <2>1 DEF QueryCaller, QueryReceives, QueryBefore
    <2>4. QueryExplained(p)'
      BY Zenon, <2>1 DEF QueryExplained
    <2> QED BY Zenon, <2>2, <2>3, <2>4 DEF QueryCaller
  <1> QED BY Zenon, <1>1, <1>2, <1>3, <1>4, <1>5, QueryStepCallers

\* sendQuery: one request for every family asked for.
LEMMA QuerySendIInv ==
  ASSUME QueryIInv, NEW p \in Askers, Query!sendQuery(p) PROVE QueryIInv'
  <1> DEFINE r == [f \in Query!Families |-> IF f \in option[p] THEN "sent" ELSE "none"]
             l == Query!Waiting(Query!First(option[p]))
  <1>1. /\ qpc[p] = "send" /\ qpc' = [qpc EXCEPT ![p] = l]
        /\ req' = [req EXCEPT ![p] = r]
        /\ UNCHANGED <<option, leader, flight, sub, inbox, noResponseErrCh,
                        ctxDone, rec, found>>
    BY Zenon DEF Query!sendQuery, Query!Goto
  <1>2. r \in [Query!Families -> QueryStages] /\ \A f \in Query!Families : r[f] # "failed"
    BY Zenon DEF QueryStages
  <1>3. /\ QueryCaller(p) /\ option[p] \in (SUBSET Query!Families) \ {{}}
        /\ \A f \in Query!Families : req[p][f] # "failed"
    BY Zenon, <1>1 DEF QueryIInv, QueryTyped, QueryCaller, QueryReceives, QueryBefore
  <1>4. \/ l = "wait4" /\ 4 \in option[p]
        \/ l = "wait6" /\ 6 \in option[p] /\ 4 \notin option[p]
    <2>1. CASE 4 \in option[p]
      BY Zenon, <2>1 DEF Query!Waiting, Query!First
    <2>2. CASE 4 \notin option[p]
      <3>1. 6 \in option[p]
        <4>1. PICK f \in option[p] : f \in {4, 6}
          BY Zenon, <1>3 DEF Query!Families
        <4> QED BY Zenon, <2>2, <4>1
      <3>2. 6 # 4
        OBVIOUS
      <3> QED BY Zenon, <2>2, <3>1, <3>2 DEF Query!Waiting, Query!First
    <2> QED BY Zenon, <2>1, <2>2
  <1> HIDE DEF r, l
  <1>5. \A q \in Askers : /\ qpc'[q] = IF q = p THEN l ELSE qpc[q]
                          /\ req'[q] = IF q = p THEN r ELSE req[q]
    BY Zenon, <1>1 DEF QueryIInv, QueryTyped
  <1>6. QueryLenient
    <2>1. ASSUME NEW q \in Askers, QueryExcuse(q) PROVE QueryExcuse(q)'
      <3>1. CASE q = p
        BY Zenon, <1>1, <1>3, <2>1, <3>1 DEF QueryExcuse
      <3>2. CASE q # p
        BY Zenon, <1>1, <1>5, <2>1, <3>2 DEF QueryExcuse
      <3> QED BY Zenon, <3>1, <3>2
    <2> QED BY Zenon, <2>1 DEF QueryLenient
  <1>7. QueryTyped'
    <2>1. l \in QueryLabels
      BY Zenon, <1>4 DEF QueryLabels, QueryLeads
    <2>2. qpc' \in [Askers -> QueryLabels]
      BY Zenon, <1>1, <2>1 DEF QueryIInv, QueryTyped
    <2>3. req' \in [Askers -> [Query!Families -> QueryStages]]
      BY Zenon, <1>1, <1>2 DEF QueryIInv, QueryTyped
    <2> QED BY Zenon, <1>1, <2>2, <2>3 DEF QueryIInv, QueryTyped
  <1>8. QueryCaller(p)'
    <2>1. qpc'[p] = l /\ l \notin QueryBefore \cup {"join", "fetched", "done"}
      BY Zenon, <1>4, <1>5 DEF QueryBefore
    <2>2. QuerySeat(p)'
      BY Zenon, <1>1, <1>3, <2>1 DEF QueryCaller, QuerySeat, QueryLeads
    <2>3. noResponseErrCh'[p] = 0
      BY Zenon, <1>1, <1>3 DEF QueryCaller, QueryReceives, QueryBefore
    <2>4. ~(noResponseErrCh'[p] > 0)
      BY <2>3
    <2>5. QueryReceives(p)'
      BY Zenon, <1>1, <1>3, <2>1, <2>4 DEF QueryCaller, QueryReceives
    <2>6. QueryExplained(p)'
      BY Zenon, <1>1, <1>4, <2>1 DEF QueryExplained
    <2> QED BY Zenon, <2>2, <2>5, <2>6 DEF QueryCaller
  <1> QED BY Zenon, <1>1, <1>5, <1>6, <1>7, <1>8, QueryStepCallers

\* The event for a family: its record, an error, or the end of the context.
LEMMA QueryEventIInv ==
  ASSUME QueryIInv, NEW p \in Askers, NEW f \in Query!Families,
         qpc[p] = Query!Waiting(f), Query!AfterEvent(p, f), QueryTyped',
         UNCHANGED <<option, leader, flight, req, ctxDone, found>>,
         \A q \in Askers \ {p} :
            /\ rec'[q] = rec[q] /\ sub'[q] = sub[q] /\ inbox'[q] = inbox[q]
            /\ noResponseErrCh'[q] = noResponseErrCh[q],
         rec[p] \subseteq rec'[p], f \in rec'[p] \/ QueryExcuse(p), QueryReceives(p)'
  PROVE  QueryIInv'
  <1>1. f = 4 \/ f = 6
    BY Zenon DEF Query!Families
  <1>2. 6 # 4
    OBVIOUS
  <1>3. QueryCaller(p) /\ option[p] \in SUBSET Query!Families
    BY Zenon DEF QueryIInv, QueryTyped
  <1>4. PICK l : /\ l = IF f = 4 /\ 6 \in option[p] THEN "wait6" ELSE "fetched"
                 /\ qpc' = [qpc EXCEPT ![p] = l]
    BY Zenon DEF Query!AfterEvent, Query!Goto
  <1>5. \A q \in Askers : qpc'[q] = IF q = p THEN l ELSE qpc[q]
    BY Zenon, <1>4 DEF QueryIInv, QueryTyped
  <1>6. \A q \in Askers : QueryExcuse(q)' = QueryExcuse(q)
    BY Zenon DEF QueryExcuse
  <1>7. QuerySeat(p)'
    <2>1. leader[p] = p
      BY Zenon, <1>1, <1>3 DEF QueryCaller, QuerySeat, QueryLeads, Query!Waiting
    <2>2. l # "join"
      BY Zenon, <1>4
    <2> QED BY Zenon, <1>5, <2>1, <2>2 DEF QuerySeat
  <1>8. QueryExplained(p)'
    <2>1. qpc'[p] = l /\ option'[p] = option[p]
      BY Zenon, <1>5
    <2>2. CASE l = "wait6"
      <3>1. f = 4 /\ 6 \in option[p]
        BY Zenon, <1>4, <2>2
      <3> QED BY Zenon, <1>6, <2>1, <2>2, <3>1 DEF QueryExplained
    <2>3. CASE l = "fetched"
      <3>1. \/ f = 4 /\ 6 \notin option[p]
            \/ f = 6 /\ (4 \in option[p] \ rec[p] => QueryExcuse(p))
        BY Zenon, <1>1, <1>2, <1>3, <1>4, <2>3 DEF QueryCaller, QueryExplained, Query!Waiting
      <3>2. option[p] \subseteq rec'[p] \/ QueryExcuse(p)
        BY Zenon, <1>3, <3>1 DEF Query!Families
      <3> QED BY Zenon, <1>6, <2>1, <2>3, <3>2 DEF QueryExplained
    <2> QED BY Zenon, <1>4, <2>2, <2>3
  <1>9. QueryCaller(p)'
    BY Zenon, <1>7, <1>8 DEF QueryCaller
  <1>10. QueryLenient
    BY Zenon, <1>6 DEF QueryLenient
  <1> QED BY Zenon, <1>5, <1>9, <1>10, QueryStepCallers

\* After an event the fetch of p is past its requests.
LEMMA QueryAfterEventMoves ==
  ASSUME QueryIInv, NEW p \in Askers, NEW f \in Query!Families, Query!AfterEvent(p, f)
  PROVE  qpc'[p] \notin QueryBefore /\ qpc' \in [Askers -> QueryLabels]
  <1>1. PICK l \in {"wait6", "fetched"} : qpc' = [qpc EXCEPT ![p] = l]
    BY Zenon DEF Query!AfterEvent, Query!Goto
  <1>2. qpc \in [Askers -> QueryLabels]
    BY Zenon DEF QueryIInv, QueryTyped
  <1>3. l \in QueryLabels /\ l \notin QueryBefore
    BY Zenon DEF QueryLabels, QueryLeads, QueryBefore
  <1> QED BY Zenon, <1>1, <1>2, <1>3

\* The subscriber's channel delivers a message.
LEMMA QueryonMessageIInv ==
  ASSUME QueryIInv, NEW p \in Askers, NEW f \in Query!Families, Query!onMessage(p, f) PROVE QueryIInv'
  <1>1. /\ qpc[p] = Query!Waiting(f) /\ inbox[p][f] /\ Query!AfterEvent(p, f)
        /\ rec' = [rec EXCEPT ![p] = @ \cup {f}]
        /\ inbox' = [inbox EXCEPT ![p][f] = FALSE]
        /\ sub' = [sub EXCEPT ![p][f] = FALSE]
        /\ UNCHANGED <<option, leader, flight, req, noResponseErrCh, ctxDone, found>>
    BY Zenon DEF Query!onMessage
  <1>2. /\ QueryCaller(p) /\ rec \in [Askers -> SUBSET Query!Families]
        /\ sub \in [Askers -> [Query!Families -> BOOLEAN]]
        /\ inbox \in [Askers -> [Query!Families -> BOOLEAN]]
    BY Zenon DEF QueryIInv, QueryTyped, QueryFlags
  <1>3. /\ rec'[p] = rec[p] \cup {f}
        /\ \A g \in Query!Families : /\ sub'[p][g] => sub[p][g]
                                     /\ inbox'[p][g] => inbox[p][g]
        /\ \A q \in Askers \ {p} :
             rec'[q] = rec[q] /\ sub'[q] = sub[q] /\ inbox'[q] = inbox[q]
    BY Zenon, <1>1, <1>2
  <1>4. /\ rec' \in [Askers -> SUBSET Query!Families]
        /\ sub' \in [Askers -> [Query!Families -> BOOLEAN]]
        /\ inbox' \in [Askers -> [Query!Families -> BOOLEAN]]
    BY Zenon, <1>1, <1>2
  <1>5. qpc'[p] \notin QueryBefore /\ qpc' \in [Askers -> QueryLabels]
    BY Zenon, <1>1, QueryAfterEventMoves
  <1>6. QueryTyped'
    BY Zenon, <1>1, <1>4, <1>5 DEF QueryIInv, QueryTyped, QueryFlags
  <1>7. QueryReceives(p)'
    <2>1. f \in option[p]
      BY Zenon, <1>1, <1>2 DEF QueryCaller, QueryReceives
    <2> QED BY Zenon, <1>1, <1>2, <1>3, <1>5, <2>1 DEF QueryCaller, QueryReceives
  <1> QED BY Zenon, <1>1, <1>3, <1>6, <1>7, QueryEventIInv

\* noResponseErrCh delivers an error.
LEMMA QueryonErrorIInv ==
  ASSUME QueryIInv, NEW p \in Askers, NEW f \in Query!Families, Query!onError(p, f) PROVE QueryIInv'
  <1>1. /\ qpc[p] = Query!Waiting(f) /\ noResponseErrCh[p] > 0 /\ Query!AfterEvent(p, f)
        /\ noResponseErrCh' = [noResponseErrCh EXCEPT ![p] = @ - 1]
        /\ UNCHANGED <<option, leader, flight, sub, inbox, req, ctxDone, rec, found>>
    BY Zenon DEF Query!onError
  <1>2. QueryCaller(p) /\ noResponseErrCh \in [Askers -> Nat]
    BY Zenon DEF QueryIInv, QueryTyped
  <1>3. /\ noResponseErrCh' \in [Askers -> Nat]
        /\ \A q \in Askers \ {p} : noResponseErrCh'[q] = noResponseErrCh[q]
    BY <1>1, <1>2
  <1>4. \E g \in Query!Families : req[p][g] = "failed"
    BY Zenon, <1>1, <1>2 DEF QueryCaller, QueryReceives
  <1>5. qpc'[p] \notin QueryBefore /\ qpc' \in [Askers -> QueryLabels]
    BY Zenon, <1>1, QueryAfterEventMoves
  <1>6. QueryTyped'
    BY Zenon, <1>1, <1>3, <1>5 DEF QueryIInv, QueryTyped
  <1>7. QueryReceives(p)'
    BY Zenon, <1>1, <1>2, <1>4, <1>5 DEF QueryCaller, QueryReceives
  <1>8. QueryExcuse(p)
    BY Zenon, <1>4 DEF QueryExcuse
  <1> QED BY Zenon, <1>1, <1>3, <1>6, <1>7, <1>8, QueryEventIInv

\* The context of the query is done.
LEMMA QueryonDoneIInv ==
  ASSUME QueryIInv, NEW p \in Askers, NEW f \in Query!Families, Query!onDone(p, f) PROVE QueryIInv'
  <1>1. /\ qpc[p] = Query!Waiting(f) /\ p \in ctxDone /\ Query!AfterEvent(p, f)
        /\ UNCHANGED <<option, leader, flight, sub, inbox, req, noResponseErrCh,
                        ctxDone, rec, found>>
    BY Zenon DEF Query!onDone
  <1>2. QueryCaller(p)
    BY Zenon DEF QueryIInv
  <1>3. qpc'[p] \notin QueryBefore /\ qpc' \in [Askers -> QueryLabels]
    BY Zenon, <1>1, QueryAfterEventMoves
  <1>4. QueryTyped'
    BY Zenon, <1>1, <1>3 DEF QueryIInv, QueryTyped
  <1>5. QueryReceives(p)'
    BY Zenon, <1>1, <1>2, <1>3 DEF QueryCaller, QueryReceives
  <1>6. QueryExcuse(p)
    BY Zenon, <1>1 DEF QueryExcuse
  <1> QED BY Zenon, <1>1, <1>4, <1>5, <1>6, QueryEventIInv

\* The fetch is over: its leader and whoever shares it get the records of the
\* families that they all asked for, or nothing and an excuse.
LEMMA QueryfetchedIInv ==
  ASSUME QueryIInv, NEW p \in Askers, Query!fetched(p) PROVE QueryIInv'
  <1> DEFINE no == [f \in Query!Families |-> FALSE]
  <1>1. /\ qpc[p] = "fetched"
        /\ sub' = [sub EXCEPT ![p] = no] /\ inbox' = [inbox EXCEPT ![p] = no]
        /\ flight' = [flight EXCEPT ![option[p]] = Query!NoCaller]
        /\ qpc' = [q \in Askers |-> IF q \in Query!Sharing(p) THEN "done" ELSE qpc[q]]
        /\ found' = [q \in Askers |->
                         IF q \in Query!Sharing(p) THEN Query!Merged(p) ELSE found[q]]
        /\ UNCHANGED <<option, leader, req, noResponseErrCh, ctxDone, rec>>
    BY Zenon DEF Query!fetched, Query!Key
  <1>2. no \in [Query!Families -> BOOLEAN] /\ \A f \in Query!Families : ~no[f]
    BY Zenon
  <1> HIDE DEF no
  <1>3. /\ QueryCaller(p) /\ option[p] \in SUBSET Query!Families
        /\ rec[p] \in SUBSET Query!Families
    BY Zenon DEF QueryIInv, QueryTyped
  <1>4. Query!Merged(p) \in SUBSET Query!Families
    BY Zenon, <1>3 DEF Query!Merged
  <1>5. /\ \A q \in Askers : qpc'[q] = IF q \in Query!Sharing(p) THEN "done" ELSE qpc[q]
        /\ \A q \in Askers : found'[q] = IF q \in Query!Sharing(p) THEN Query!Merged(p) ELSE found[q]
        /\ \A q \in Askers : sub'[q] = (IF q = p THEN no ELSE sub[q])
        /\ \A q \in Askers : inbox'[q] = (IF q = p THEN no ELSE inbox[q])
    BY Zenon, <1>1 DEF QueryIInv, QueryTyped, QueryFlags
  <1>6. QueryTyped'
    <2>1. sub' \in QueryFlags /\ inbox' \in QueryFlags
      BY Zenon, <1>1, <1>2 DEF QueryIInv, QueryTyped, QueryFlags
    <2>2. found' \in [Askers -> SUBSET Query!Families]
      BY Zenon, <1>1, <1>4 DEF QueryIInv, QueryTyped
    <2>3. qpc' \in [Askers -> QueryLabels]
      BY Zenon, <1>1 DEF QueryIInv, QueryTyped, QueryLabels
    <2>4. flight' \in [SUBSET Query!Families -> Askers \cup {Query!NoCaller}]
      BY Zenon, <1>1 DEF QueryIInv, QueryTyped
    <2> QED BY Zenon, <1>1, <2>1, <2>2, <2>3, <2>4 DEF QueryIInv, QueryTyped
  <1>7. QueryFlights'
    <2>1. \A k \in SUBSET Query!Families : flight'[k] = Query!NoCaller \/ flight'[k] = flight[k]
      BY Zenon, <1>1, <1>3 DEF QueryIInv, QueryTyped
    <2> QED BY Zenon, <1>1, <2>1 DEF QueryIInv, QueryFlights
  <1>8. \A q \in Askers : QueryExcuse(q)' = QueryExcuse(q)
    BY Zenon, <1>1 DEF QueryExcuse
  <1>9. ASSUME NEW q \in Askers, q \in Query!Sharing(p) PROVE QueryCaller(q)'
    <2>1. leader[q] = p /\ option[q] = option[p]
      <3>1. CASE q = p
        BY Zenon, <1>1, <1>3, <3>1 DEF QueryCaller, QuerySeat, QueryLeads
      <3>2. CASE qpc[q] = "join" /\ leader[q] = p
        BY Zenon, <3>2 DEF QueryIInv, QueryCaller, QuerySeat
      <3> QED BY Zenon, <1>9, <3>1, <3>2 DEF Query!Sharing
    <2>2. qpc'[q] = "done" /\ found'[q] = Query!Merged(p) /\ leader'[q] = p
          /\ option'[q] = option[p]
      BY Zenon, <1>1, <1>5, <1>9, <2>1
    <2>3. Query!Merged(p) = option[p] \/ (Query!Merged(p) = {} /\ QueryExcuse(p))
      <3>1. rec[p] \subseteq option[p] /\ (option[p] \subseteq rec[p] \/ QueryExcuse(p))
        BY Zenon, <1>1, <1>3 DEF QueryCaller, QueryReceives, QueryExplained
      <3> QED BY Zenon, <3>1 DEF Query!Merged
    <2>4. QuerySeat(q)'
      BY Zenon, <2>2 DEF QuerySeat, QueryLeads
    <2>5. QueryReceives(q)'
      <3>1. \A f \in Query!Families : /\ sub'[q][f] => sub[q][f]
                                      /\ inbox'[q][f] => inbox[q][f]
        BY Zenon, <1>2, <1>5
      <3> QED BY Zenon, <1>1, <2>2, <3>1 DEF QueryIInv, QueryCaller, QueryReceives, QueryBefore
    <2>6. (QueryExcuse(leader[q]))' <=> QueryExcuse(p)'
      BY Zenon, <2>2 DEF QueryExcuse
    <2>7. QueryExplained(q)'
      BY Zenon, <1>8, <2>2, <2>3, <2>6 DEF QueryExplained
    <2> QED BY Zenon, <2>4, <2>5, <2>7 DEF QueryCaller
  <1>10. ASSUME NEW q \in Askers, q \notin Query!Sharing(p) PROVE QueryCaller(q)'
    <2>1. q # p
      BY Zenon, <1>10 DEF Query!Sharing
    <2> QED BY Zenon, <1>1, <1>5, <1>8, <1>10, <2>1, QueryOthersCaller DEF QueryLenient
  <1> QED BY Zenon, <1>6, <1>7, <1>9, <1>10 DEF QueryIInv

\* A step of the request of p for f, at stage m.
LEMMA QueryRequestIInv ==
  ASSUME QueryIInv, NEW p \in Askers, NEW f \in Query!Families, NEW m \in QueryStages,
         req[p][f] \notin {"none", "failed"}, req' = [req EXCEPT ![p][f] = m],
         UNCHANGED <<Query!cvars, sub>>, inbox' \in QueryFlags,
         \A q \in Askers, g \in Query!Families : inbox'[q][g] => inbox[q][g] \/ sub[q][g],
         \/ UNCHANGED noResponseErrCh
         \/ m = "failed" /\ noResponseErrCh' = [noResponseErrCh EXCEPT ![p] = @ + 1]
  PROVE  QueryIInv'
  <1>1. UNCHANGED <<option, qpc, leader, flight, ctxDone, rec, found>>
    BY Zenon DEF Query!cvars
  <1>2. /\ req \in [Askers -> [Query!Families -> QueryStages]]
        /\ noResponseErrCh \in [Askers -> Nat]
        /\ \A q \in Askers : QueryCaller(q) /\ leader[q] \in Askers
    BY Zenon DEF QueryIInv, QueryTyped
  <1>3. /\ req' \in [Askers -> [Query!Families -> QueryStages]]
        /\ req'[p][f] = m
        /\ \A q \in Askers, g \in Query!Families : q # p \/ g # f => req'[q][g] = req[q][g]
    BY <1>2
  <1>4. /\ noResponseErrCh' \in [Askers -> Nat]
        /\ \A q \in Askers : \/ noResponseErrCh'[q] = noResponseErrCh[q]
                             \/ q = p /\ m = "failed"
    BY <1>2
  <1>5. QueryTyped'
    BY Zenon, <1>1, <1>3, <1>4 DEF QueryIInv, QueryTyped
  <1>6. QueryFlights'
    BY Zenon, <1>1 DEF QueryIInv, QueryFlights
  <1>7. \A q \in Askers, g \in Query!Families : req[q][g] = "failed" => req'[q][g] = "failed"
    BY Zenon, <1>3
  <1>8. QueryLenient
    BY Zenon, <1>1, <1>7 DEF QueryLenient, QueryExcuse
  <1>9. ASSUME NEW q \in Askers PROVE QueryCaller(q)'
    <2>1. QueryCaller(q)
      BY Zenon, <1>2
    <2>2. QuerySeat(q)'
      BY Zenon, <1>1, <2>1 DEF QueryCaller, QuerySeat
    <2>3. ASSUME qpc[q] \in QueryBefore
          PROVE  noResponseErrCh'[q] = 0 /\ \A g \in Query!Families : req'[q][g] = "none"
      <3>1. noResponseErrCh[q] = 0 /\ \A g \in Query!Families : req[q][g] = "none"
        BY Zenon, <2>1, <2>3 DEF QueryCaller, QueryReceives
      <3>2. q # p
        BY Zenon, <3>1
      <3> QED BY Zenon, <1>3, <1>4, <3>1, <3>2
    <2>4. ASSUME noResponseErrCh'[q] > 0
          PROVE  \E g \in Query!Families : req'[q][g] = "failed"
      <3>1. CASE noResponseErrCh'[q] = noResponseErrCh[q]
        <4>1. noResponseErrCh[q] > 0
          BY Zenon, <2>4, <3>1
        <4> QED BY Zenon, <1>7, <2>1, <4>1 DEF QueryCaller, QueryReceives
      <3>2. CASE q = p /\ m = "failed"
        BY Zenon, <1>3, <3>2
      <3> QED BY Zenon, <1>4, <3>1, <3>2
    <2>5. QueryReceives(q)'
      BY Zenon, <1>1, <2>1, <2>3, <2>4 DEF QueryCaller, QueryReceives
    <2>6. /\ QueryExcuse(q) => QueryExcuse(q)'
          /\ QueryExcuse(leader[q]) => (QueryExcuse(leader[q]))'
      <3>1. PICK l \in Askers : l = leader[q]
        BY Zenon, <1>2
      <3>2. (QueryExcuse(leader[q]))' <=> QueryExcuse(l)'
        BY Zenon, <1>1, <3>1 DEF QueryExcuse
      <3> QED BY Zenon, <1>8, <3>1, <3>2 DEF QueryLenient
    <2>7. QueryExplained(q)'
      BY Zenon, <1>1, <2>1, <2>6 DEF QueryCaller, QueryExplained
    <2> QED BY Zenon, <2>2, <2>5, <2>7 DEF QueryCaller
  <1> QED BY Zenon, <1>5, <1>6, <1>9 DEF QueryIInv

\* What Publish does to the inboxes.
LEMMA QueryPublishInbox ==
  ASSUME QueryIInv, NEW f \in Query!Families, Query!Publish(f)
  PROVE  /\ inbox' \in QueryFlags
         /\ \A q \in Askers, g \in Query!Families : inbox'[q][g] => inbox[q][g] \/ sub[q][g]
  <1>1. /\ inbox \in [Askers -> [Query!Families -> BOOLEAN]]
        /\ sub \in [Askers -> [Query!Families -> BOOLEAN]]
    BY Zenon DEF QueryIInv, QueryTyped, QueryFlags
  <1>2. inbox' = [q \in Askers |-> [inbox[q] EXCEPT ![f] = @ \/ sub[q][f]]]
    BY Zenon DEF Query!Publish
  <1>3. \A q \in Askers : inbox'[q] = [inbox[q] EXCEPT ![f] = @ \/ sub[q][f]]
    BY Zenon, <1>2
  <1>4. \A q \in Askers : inbox[q] \in [Query!Families -> BOOLEAN]
    BY Zenon, <1>1
  <1>5. \A q \in Askers : inbox'[q] \in [Query!Families -> BOOLEAN]
    BY Zenon, <1>3, <1>4
  <1>6. \A q \in Askers, g \in Query!Families :
           inbox'[q][g] = IF g = f THEN inbox[q][f] \/ sub[q][f] ELSE inbox[q][g]
    BY Zenon, <1>3, <1>4
  <1>7. inbox' \in QueryFlags
    BY Zenon, <1>2, <1>3, <1>5 DEF QueryFlags
  <1> QED BY Zenon, <1>6, <1>7

\* The request of one family: its answer, its loss or its error.
LEMMA QueryRequestsIInv ==
  ASSUME QueryIInv, NEW p \in Askers, NEW f \in Query!Families, Query!Request(p, f) PROVE QueryIInv'
  <1>1. Query!Other(f) \in Query!Families
    BY DEF Query!Other, Query!Families
  <1>2. inbox \in QueryFlags /\ "failed" \in QueryStages
    BY Zenon DEF QueryIInv, QueryTyped, QueryStages
  <1>3. PICK m \in QueryStages : /\ req[p][f] \notin {"none", "failed"}
                                 /\ req' = [req EXCEPT ![p][f] = m]
                                 /\ UNCHANGED <<Query!cvars, sub>>
                                 /\ inbox' = inbox \/ \E g \in Query!Families : Query!Publish(g)
                                 /\ \/ UNCHANGED noResponseErrCh
                                    \/ /\ m = "failed"
                                       /\ noResponseErrCh' = [noResponseErrCh EXCEPT ![p] = @ + 1]
    <2>1. CASE Query!Answer(p, f)
      BY Zenon, <2>1 DEF Query!Answer, QueryStages
    <2>2. CASE Query!updateRecord(p, f)
      BY Zenon, <2>2 DEF Query!updateRecord, QueryStages
    <2>3. CASE Query!publishOther(p, f)
      BY Zenon, <1>1, <2>3 DEF Query!publishOther, QueryStages
    <2>4. CASE Query!Truncated(p, f)
      BY Zenon, <2>4 DEF Query!Truncated, QueryStages
    <2>5. CASE Query!Lost(p, f)
      BY Zenon, <2>5 DEF Query!Lost, QueryStages
    <2>6. CASE Query!ReportError(p, f)
      BY Zenon, <2>6 DEF Query!ReportError, QueryStages
    <2> QED BY Zenon, <2>1, <2>2, <2>3, <2>4, <2>5, <2>6 DEF Query!Request
  <1>4. /\ inbox' \in QueryFlags
        /\ \A q \in Askers, g \in Query!Families : inbox'[q][g] => inbox[q][g] \/ sub[q][g]
    BY Zenon, <1>2, <1>3, QueryPublishInbox
  <1> QED BY Zenon, <1>3, <1>4, QueryRequestIInv

\* Every step keeps the invariant.
LEMMA QueryNextIInv == ASSUME QueryParameters, QueryIInv, [Query!Next]_Query!vars PROVE QueryIInv'
  <1>1. CASE /\ UNCHANGED <<option, qpc, leader, flight, rec, found, sub, inbox, req,
                             noResponseErrCh>>
             /\ ctxDone \subseteq ctxDone'
    <2>1. QueryTyped' /\ QueryFlights'
      BY Zenon, <1>1 DEF QueryIInv, QueryTyped, QueryFlights
    <2>2. QueryLenient
      BY Zenon, <1>1 DEF QueryLenient, QueryExcuse
    <2> QED BY Zenon, <1>1, <2>1, <2>2, QueryOthersCaller DEF QueryIInv
  <1>2. CASE \E p \in Askers : Query!Timeout(p)
    BY Zenon, <1>1, <1>2 DEF Query!Timeout
  <1>3. CASE Query!Expire
    BY Zenon, <1>1, <1>3 DEF Query!Expire, Query!cvars
  <1>4. CASE UNCHANGED Query!vars
    BY Zenon, <1>1, <1>4 DEF Query!vars, Query!cvars
  <1>5. CASE \E p \in Askers : Query!Fetch(p)
    BY Zenon, <1>5, QueryRegisterIInv, QuerySendIInv, QueryonMessageIInv, QueryonErrorIInv, QueryonDoneIInv,
       QueryfetchedIInv DEF Query!Fetch
  <1> QED BY Zenon, <1>2, <1>3, <1>4, <1>5, QueryqueryIPIInv, QueryRequestsIInv DEF Query!Next

\* nameserver_cached.go: for any number of callers that share their fetches, a
\* caller gets the records of the families it asked for, or nothing, and
\* nothing only if the fetch was out of time or had a request fail.
THEOREM NoAnswerIsMissed == ASSUME QueryParameters PROVE Query!Spec => []NoAnswerMissed
  <1>1. Query!Init => QueryIInv
    BY Zenon, QueryInitIInv
  <1>2. QueryIInv /\ [Query!Next]_Query!vars => QueryIInv'
    BY Zenon, QueryNextIInv
  <1>3. QueryIInv => Query!NoAnswerMissed
    BY Zenon DEF QueryIInv, QueryCaller, QueryExplained, Query!NoAnswerMissed, QueryExcuse
  <1> QED BY <1>1, <1>2, <1>3, PTL DEF Query!Spec, NoAnswerMissed

-----------------------------------------------------------------------------
(* FakeDNS *)

\* What is at least as large as something large enough is large enough.
LEMMA LargeEnough == \A a, b \in Nat, c \in Nat \ {0} : a >= b /\ b >= c => a >= c
  OBVIOUS

INSTANCE FiniteSetTheorems

\* Somebody holds Holder.mu only to allocate for a domain that is not there.
Waiting == IF mu = None THEN want = None ELSE want \in Domains \ keys

\* The list is no longer than the cache is large.
Room == IsFiniteSet(keys) /\ Cardinality(keys) <= Capacity

\* What is in front of a domain was used since it was.  A domain of the list
\* has the address it was given; one that left the list had to make room for
\* Capacity others.
Recent(d) ==
    /\ IsFiniteSet(since[d])
    /\ d \in keys => front[d] \subseteq since[d] /\ given[d] = value[d]
    /\ d \notin keys /\ given[d] # None => Cardinality(since[d]) >= Capacity

IInv ==
    /\ TypeOK /\ TwoWay /\ Waiting /\ Room
    /\ \A d \in Domains : Recent(d)

\* The initial state satisfies the invariant.
LEMMA InitIInv == Init => IInv
  <1> SUFFICES ASSUME Init PROVE IInv
    OBVIOUS
  <1> USE PoolAssumption
  <1>1. TypeOK /\ TwoWay /\ Waiting
    BY Zenon DEF Init, TypeOK, TwoWay, Waiting
  <1>2. Room
    BY FS_EmptySet DEF Init, Room
  <1>3. ASSUME NEW d \in Domains PROVE Recent(d)
    BY Zenon, FS_EmptySet DEF Init, Recent
  <1> QED BY Zenon, <1>1, <1>2, <1>3 DEF IInv

\* A use of a domain adds one domain to the others' sets.
LEMMA UseGrows ==
  ASSUME TypeOK, NEW d \in Domains, Use(d), NEW k \in Domains,
         IsFiniteSet(since[k])
  PROVE  /\ IsFiniteSet(since'[k])
         /\ k # d => /\ since'[k] = since[k] \cup {d}
                     /\ Cardinality(since'[k]) >= Cardinality(since[k])
  <1>1. CASE k = d
    BY Zenon, <1>1, FS_EmptySet DEF Use
  <1>2. CASE k # d
    <2>1. since'[k] = since[k] \cup {d}
      BY Zenon, <1>2 DEF Use
    <2>2. IsFiniteSet(since'[k])
      BY Zenon, <2>1, FS_AddElement
    <2>3. Cardinality(since[k]) <= Cardinality(since'[k])
      BY Zenon, <2>1, <2>2, FS_Subset
    <2> QED
      BY Zenon, <1>2, <2>1, <2>2, <2>3, FS_CardinalityType
  <1> QED BY Zenon, <1>1, <1>2

\* Moving a domain to the front keeps the invariant.
LEMMA MoveIInv ==
  ASSUME IInv, NEW d \in keys, MoveToFront(d), UNCHANGED <<mu, want, given>>
  PROVE  IInv'
  <1> USE PoolAssumption
  <1>0. d \in Domains
    BY Zenon DEF IInv, TypeOK
  <1>1. TypeOK'
    BY Zenon, <1>0 DEF IInv, TypeOK, MoveToFront, ToFront, Use
  <1>2. TwoWay' /\ Waiting' /\ Room'
    BY Zenon DEF IInv, TwoWay, Waiting, Room, MoveToFront
  <1>3. ASSUME NEW k \in Domains PROVE Recent(k)'
    <2>1. IsFiniteSet(since[k]) /\ Use(d)
      BY Zenon DEF IInv, Recent, MoveToFront
    <2>2. /\ IsFiniteSet(since'[k])
          /\ k # d => /\ since'[k] = since[k] \cup {d}
                      /\ Cardinality(since'[k]) >= Cardinality(since[k])
      BY Zenon, <1>0, <2>1, UseGrows DEF IInv
    <2>3. k \in keys' => front'[k] \subseteq since'[k] /\ given'[k] = value'[k]
      BY Zenon, <2>2 DEF IInv, TypeOK, Recent, MoveToFront, ToFront
    <2>4. k \notin keys' /\ given'[k] # None => Cardinality(since'[k]) >= Capacity
      <3> SUFFICES ASSUME k \notin keys', given'[k] # None
                   PROVE  Cardinality(since'[k]) >= Capacity
        OBVIOUS
      <3>1. k # d /\ Cardinality(since[k]) >= Capacity
        BY Zenon DEF IInv, Recent, MoveToFront
      <3>2. Cardinality(since[k]) \in Nat /\ Cardinality(since'[k]) \in Nat
        BY Zenon, <2>1, <2>2, FS_CardinalityType
      <3> QED BY Zenon, <2>2, <3>1, <3>2, LargeEnough, PoolAssumption
    <2> QED BY Zenon, <2>2, <2>3, <2>4 DEF Recent
  <1> QED BY Zenon, <1>1, <1>2, <1>3 DEF IInv

\* What is in front of k after d was moved there and b left.
LEMMA Fronted ==
  ASSUME NEW d \in Domains, NEW k \in Domains, NEW b, k # b,
         front' = [ToFront(d) EXCEPT ![b] = {}]
  PROVE  /\ k = d => front'[k] = {}
         /\ front'[k] \subseteq front[k] \cup {d}
  <1>1. front'[k] = IF k \in keys \ {d} THEN front[k] \cup {d} ELSE {}
    BY Zenon DEF ToFront
  <1>2. CASE k \in keys \ {d}
    BY Zenon, <1>1, <1>2
  <1>3. CASE k \notin keys \ {d}
    <2>1. front'[k] = {}
      BY Zenon, <1>1, <1>3
    <2> QED BY Zenon, <2>1
  <1> QED BY Zenon, <1>2, <1>3

\* What a function has at k when it was changed at d and at another place.
LEMMA Overwritten ==
  ASSUME NEW S, NEW R, NEW f \in [S -> R], NEW d \in S, NEW k \in S, NEW v
  PROVE  /\ [f EXCEPT ![d] = v][k] = IF k = d THEN v ELSE f[k]
         /\ \A b, w : k # b => [f EXCEPT ![d] = v, ![b] = w][k] = IF k = d THEN v ELSE f[k]
  BY Zenon

\* Putting a domain that is not there, with an address that is free, keeps the
\* invariant; what leaves the list has Capacity others in front of it.
LEMMA PutIInv ==
  ASSUME IInv, NEW d \in Domains \ keys, NEW ip \in Pool, keyOf[ip] = None,
         Put(d, ip), Use(d), given' = [given EXCEPT ![d] = ip],
         mu' = None, want' = None
  PROVE  IInv'
  <1> USE PoolAssumption
  <1>1. CASE Cardinality(keys) < Capacity
    <2> keys' = keys \cup {d} /\ front' = ToFront(d)
        /\ value' = [value EXCEPT ![d] = ip] /\ keyOf' = [keyOf EXCEPT ![ip] = d]
      BY Zenon, <1>1 DEF Put
    <2>1. TypeOK'
      BY Zenon DEF IInv, TypeOK, ToFront, Use
    <2>2. TwoWay'
      BY DEF IInv, TypeOK, TwoWay, Pool
    <2>3. Waiting'
      BY Zenon DEF Waiting
    <2>4. Room'
      <3>1. /\ IsFiniteSet(keys \cup {d})
            /\ Cardinality(keys \cup {d}) = Cardinality(keys) + 1
        BY Zenon, FS_AddElement DEF IInv, Room
      <3>2. Cardinality(keys) \in Nat
        BY Zenon, FS_CardinalityType DEF IInv, Room
      <3> QED BY <1>1, <3>1, <3>2 DEF Room
    <2>5. ASSUME NEW k \in Domains PROVE Recent(k)'
      <3>1. IsFiniteSet(since[k])
        BY Zenon DEF IInv, Recent
      <3>2. /\ IsFiniteSet(since'[k])
            /\ k # d => /\ since'[k] = since[k] \cup {d}
                        /\ Cardinality(since'[k]) >= Cardinality(since[k])
        BY Zenon, <3>1, UseGrows DEF IInv
      <3>3. k \in keys' => front'[k] \subseteq since'[k] /\ given'[k] = value'[k]
        BY Zenon, <3>2 DEF IInv, TypeOK, Recent, ToFront
      <3>4. ASSUME k \notin keys', given'[k] # None
            PROVE  Cardinality(since'[k]) >= Capacity
        <4>1. k # d /\ Cardinality(since[k]) >= Capacity
          BY Zenon, <3>4 DEF IInv, TypeOK, Recent
        <4>2. Cardinality(since[k]) \in Nat /\ Cardinality(since'[k]) \in Nat
          BY Zenon, <3>1, <3>2, FS_CardinalityType
        <4> QED BY Zenon, <3>2, <4>1, <4>2, LargeEnough
      <3> QED BY Zenon, <3>2, <3>3, <3>4 DEF Recent
    <2> QED BY Zenon, <2>1, <2>2, <2>3, <2>4, <2>5 DEF IInv
  <1>2. CASE ~ (Cardinality(keys) < Capacity)
    <2>1. PICK b \in keys :
             /\ IsBack(b, keys \cup {d}, ToFront(d))
             /\ keys' = (keys \cup {d}) \ {b}
             /\ front' = [ToFront(d) EXCEPT ![b] = {}]
             /\ value' = [value EXCEPT ![d] = ip, ![b] = None]
             /\ keyOf' = [keyOf EXCEPT ![ip] = d, ![value[b]] = None]
      BY Zenon, <1>2 DEF Put
    <2>2. /\ b \in Domains /\ b # d
          /\ value[b] \in Pool /\ value[b] # ip /\ keyOf[value[b]] = b
      BY DEF IInv, TypeOK, TwoWay
    <2>3. TypeOK'
      BY Zenon, <2>1, <2>2 DEF IInv, TypeOK, ToFront, Use
    <2>4. TwoWay'
      BY <2>1, <2>2 DEF IInv, TypeOK, TwoWay, Pool
    <2>5. Waiting'
      BY Zenon DEF Waiting
    <2>6. /\ IsFiniteSet(keys') /\ Cardinality(keys') = Cardinality(keys)
          /\ Cardinality(keys) = Capacity
      <3>1. /\ IsFiniteSet(keys \cup {d})
            /\ Cardinality(keys \cup {d}) = Cardinality(keys) + 1
        BY Zenon, FS_AddElement DEF IInv, Room
      <3>2. /\ IsFiniteSet((keys \cup {d}) \ {b})
            /\ Cardinality((keys \cup {d}) \ {b}) = Cardinality(keys \cup {d}) - 1
        BY Zenon, <3>1, FS_RemoveElement
      <3>3. Cardinality(keys) \in Nat
        BY Zenon, FS_CardinalityType DEF IInv, Room
      <3> QED BY <1>2, <2>1, <3>1, <3>2, <3>3 DEF IInv, Room
    <2>7. Room'
      BY <2>6 DEF Room
    <2>8. ASSUME NEW k \in Domains PROVE Recent(k)'
      <3>1. IsFiniteSet(since[k])
        BY Zenon DEF IInv, Recent
      <3>2. /\ IsFiniteSet(since'[k])
            /\ k # d => /\ since'[k] = since[k] \cup {d}
                        /\ Cardinality(since'[k]) >= Cardinality(since[k])
        BY Zenon, <3>1, UseGrows DEF IInv
      <3>3. k \in keys' => front'[k] \subseteq since'[k] /\ given'[k] = value'[k]
        <4> SUFFICES ASSUME k \in keys'
                     PROVE  front'[k] \subseteq since'[k] /\ given'[k] = value'[k]
          BY Zenon
        <4>1. k # b /\ k \in keys \cup {d} /\ b # d
          BY Zenon, <2>1, <2>2
        <4>2. /\ value \in [Domains -> Pool \cup {None}]
              /\ given \in [Domains -> Pool \cup {None}]
          BY Zenon DEF IInv, TypeOK
        <4>3. /\ k = d => front'[k] = {} /\ given'[k] = ip /\ value'[k] = ip
              /\ k # d => /\ front'[k] \subseteq front[k] \cup {d}
                          /\ given'[k] = given[k] /\ value'[k] = value[k]
          <5>1. (k = d => front'[k] = {}) /\ front'[k] \subseteq front[k] \cup {d}
            BY Zenon, <2>1, <4>1, Fronted
          <5>2. given'[k] = IF k = d THEN ip ELSE given[k]
            BY Zenon, <4>2, Overwritten
          <5>3. value'[k] = IF k = d THEN ip ELSE value[k]
            BY Zenon, <2>1, <4>1, <4>2, Overwritten
          <5> QED BY Zenon, <5>1, <5>2, <5>3
        <4>4. k # d => front[k] \subseteq since[k] /\ given[k] = value[k]
          BY Zenon, <4>1 DEF IInv, Recent
        <4> QED BY Zenon, <3>2, <4>3, <4>4
      <3>4. ASSUME k \notin keys', given'[k] # None, k # b
            PROVE  Cardinality(since'[k]) >= Capacity
        <4>1. k # d /\ Cardinality(since[k]) >= Capacity
          BY Zenon, <2>1, <2>2, <3>4 DEF IInv, TypeOK, Recent
        <4>2. Cardinality(since[k]) \in Nat /\ Cardinality(since'[k]) \in Nat
          BY Zenon, <3>1, <3>2, FS_CardinalityType
        <4> QED BY Zenon, <3>2, <4>1, <4>2, LargeEnough
      <3>5. ASSUME k = b
            PROVE  Cardinality(since'[k]) >= Capacity
        <4>1. keys' \subseteq front[b] \cup {d}
          BY Zenon, <2>1, <2>2 DEF IsBack, ToFront, IInv, TypeOK
        <4>2. front[b] \subseteq since[b]
          BY Zenon, <2>2 DEF IInv, Recent
        <4>3. keys' \subseteq since'[k]
          BY Zenon, <2>2, <3>2, <3>5, <4>1, <4>2
        <4>4. Cardinality(keys') <= Cardinality(since'[k])
          BY Zenon, <3>2, <4>3, FS_Subset
        <4>5. Cardinality(since'[k]) \in Nat
          BY Zenon, <3>2, FS_CardinalityType
        <4> QED BY Zenon, <2>6, <4>4, <4>5
      <3> QED BY Zenon, <3>2, <3>3, <3>4, <3>5 DEF Recent
    <2> QED BY Zenon, <2>3, <2>4, <2>5, <2>7, <2>8 DEF IInv
  <1> QED BY Zenon, <1>1, <1>2

\* Every step keeps the invariant.
LEMMA NextIInv == IInv /\ [Next]_vars => IInv'
  <1> SUFFICES ASSUME IInv, [Next]_vars PROVE IInv'
    OBVIOUS
  <1> USE PoolAssumption
  <1>1. ASSUME NEW p \in Callers, NEW d \in Domains, Lookup(p, d)
        PROVE  IInv'
    <2>1. CASE d \in keys
      BY Zenon, <1>1, <2>1, MoveIInv DEF Lookup
    <2>2. CASE d \notin keys
      <3>1. mu' = p /\ want' = d /\ UNCHANGED <<lru, given, since>>
        BY Zenon, <1>1, <2>2 DEF Lookup
      <3>2. TypeOK' /\ TwoWay' /\ Waiting' /\ Room'
        BY Zenon, <2>2, <3>1 DEF IInv, TypeOK, TwoWay, Waiting, Room, lru
      <3>3. ASSUME NEW k \in Domains PROVE Recent(k)'
        BY Zenon, <3>1 DEF IInv, Recent, lru
      <3> QED BY Zenon, <3>2, <3>3 DEF IInv
    <2> QED BY Zenon, <2>1, <2>2
  <1>2. ASSUME NEW p \in Callers, Allocate(p)
        PROVE  IInv'
    <2>1. PICK start \in Pool, ip \in Pool :
             /\ Search(start, ip) /\ Put(want, ip)
             /\ given' = [given EXCEPT ![want] = ip]
      BY Zenon, <1>2 DEF Allocate
    <2>2. want \in Domains \ keys
      BY Zenon, <1>2 DEF Allocate, IInv, Waiting
    <2>3. keyOf[ip] = None
      BY Zenon, <2>1 DEF Search
    <2>4. Use(want) /\ mu' = None /\ want' = None
      BY Zenon, <1>2 DEF Allocate
    <2> QED BY Zenon, <2>1, <2>2, <2>3, <2>4, PutIInv
  <1>3. ASSUME NEW ip \in Pool, GetDomainFromFakeDNS(ip)
        PROVE  IInv'
    <2>1. keyOf[ip] \in keys
      BY <1>3 DEF GetDomainFromFakeDNS, IInv, TypeOK, TwoWay, Pool
    <2> QED BY Zenon, <1>3, <2>1, MoveIInv DEF GetDomainFromFakeDNS
  <1>4. CASE UNCHANGED vars
    BY Zenon, <1>4 DEF vars, lru, IInv, TypeOK, TwoWay, Waiting, Room, Recent
  <1> QED BY Zenon, <1>1, <1>2, <1>3, <1>4 DEF Next

\* The invariant holds in every reachable state.
LEMMA SpecIInv == Spec => []IInv
  BY InitIInv, NextIInv, PTL DEF Spec

\* No two domains share an address, and an address leads back to the domain
\* it was handed out for (lru.Put, GetFakeIPForDomain).
THEOREM FakeDNSTwoWay == Spec => []TwoWay
  <1>1. IInv => TwoWay
    BY Zenon DEF IInv
  <1> QED BY <1>1, SpecIInv, PTL

\* An address leads back to its domain until LruSize others have been used
\* since (GetFakeIPForDomain, GetDomainFromFakeDNS).
THEOREM FakeDNSKeepsRecent == Spec => []KeepsRecent
  <1>1. IInv => KeepsRecent
    <2> SUFFICES ASSUME IInv, NEW d \in Domains, given[d] # None,
                        Cardinality(since[d]) < Capacity
                 PROVE  keyOf[given[d]] = d
      BY Zenon DEF KeepsRecent
    <2>1. IsFiniteSet(since[d]) /\ Cardinality(since[d]) \in Nat
      BY Zenon, FS_CardinalityType DEF IInv, Recent
    <2>2. d \in keys
      BY <2>1, PoolAssumption DEF IInv, Recent
    <2> QED BY Zenon, <2>2 DEF IInv, Recent, TwoWay
  <1> QED BY <1>1, SpecIInv, PTL

\* A cache smaller than the pool leaves a free address, so the loop of
\* GetFakeIPForDomain ends.
THEOREM FakeDNSSearchEnds == Spec => []SearchEnds
  <1>1. IInv => SearchEnds
    <2> SUFFICES ASSUME IInv, \A ip \in Pool : keyOf[ip] # None
                 PROVE  FALSE
      BY Zenon DEF SearchEnds
    <2> DEFINE f == [d \in keys |-> value[d]]
    <2>1. f \in [keys -> Pool]
      BY PoolAssumption DEF IInv, TypeOK, TwoWay
    <2>2. f \in Surjection(keys, Pool)
      <3>1. ASSUME NEW ip \in Pool PROVE \E d \in keys : f[d] = ip
        <4>1. keyOf[ip] \in keys /\ value[keyOf[ip]] = ip
          BY PoolAssumption DEF IInv, TypeOK, TwoWay, Pool
        <4> QED BY Zenon, <4>1
      <3> QED BY Zenon, <2>1, <3>1 DEF Surjection
    <2>3. IsFiniteSet(Pool) /\ Cardinality(Pool) = PoolSize
      BY FS_Interval, PoolAssumption DEF Pool
    <2>4. Cardinality(Pool) <= Cardinality(keys)
      BY Zenon, <2>2, FS_Surjection DEF IInv, Room
    <2>5. Cardinality(keys) \in Nat
      BY Zenon, FS_CardinalityType DEF IInv, Room
    <2> QED BY <2>3, <2>4, <2>5, PoolAssumption DEF IInv, Room
  <1> QED BY <1>1, SpecIInv, PTL

=============================================================================
