------------------------------ MODULE DNSCache ------------------------------
(***************************************************************************)
(* app/dns/cache_controller.go: the answers a DNS server cached, per       *)
(* domain and family.  A cleanup removes what has expired, and may start a *)
(* migration: the map becomes dirtyips, and its records are moved to a new *)
(* and smaller map batch by batch while queries and answers go on.         *)
(* An answer is its generation: the first answer is 1, 0 is none.          *)
(***************************************************************************)
EXTENDS Naturals, FiniteSets

CONSTANTS
    Domains,
    MaxAnswers   \* bound: answers per domain and family

Families == {"A", "AAAA"}

NoRecord == [f \in Families |-> 0]
NoMap == [d \in Domains |-> NoRecord]

VARIABLES
    ips,        \* c.ips
    dirtyips,   \* c.dirtyips, while a migration runs
    migrating,  \* c.dirtyips # nil
    todo,       \* the domains the migration has yet to move
    expire,     \* per domain and family: the last expired generation
    newest,     \* per domain and family: the last answer
    keys,       \* expiredKeys of the cleanup
    pc          \* the cleanup: "idle", or between its two locks

vars == <<ips, dirtyips, migrating, todo, expire, newest, keys, pc>>

Init ==
    /\ ips = NoMap /\ dirtyips = NoMap
    /\ migrating = FALSE /\ todo = {}
    /\ expire = NoMap /\ newest = NoMap
    /\ keys = {} /\ pc = "idle"

Expired(d, f, g) == g # 0 /\ g <= expire[d][f]

\* Time passes: an answer expires.
Expire(d, f) ==
    /\ expire[d][f] < newest[d][f]
    /\ expire' = [expire EXCEPT ![d][f] = newest[d][f]]
    /\ UNCHANGED <<ips, dirtyips, migrating, todo, newest, keys, pc>>

-----------------------------------------------------------------------------
(* updateRecord *)

\* A new record: the answer, and the other family of the old record.
NewRecord(d, f) == [ips[d] EXCEPT ![f] = newest[d][f] + 1]

updateRecord(d, f) ==
    /\ newest[d][f] < MaxAnswers
    /\ newest' = [newest EXCEPT ![d][f] = @ + 1]
    /\ ips' = [ips EXCEPT ![d] = NewRecord(d, f)]
    /\ UNCHANGED <<dirtyips, migrating, todo, expire, keys, pc>>

\* What findRecords returns.
findRecords(d) ==
    IF ips[d] = NoRecord /\ migrating THEN dirtyips[d] ELSE ips[d]

-----------------------------------------------------------------------------
(* CacheCleanup *)

\* Under the read lock.
collectExpiredKeys ==
    /\ pc = "idle"
    /\ ~migrating /\ ips # NoMap
    /\ keys' = {d \in Domains : \E f \in Families : Expired(d, f, ips[d][f])}
    /\ keys' # {}
    /\ pc' = "write"
    /\ UNCHANGED <<ips, dirtyips, migrating, todo, expire, newest>>

\* Mutant: the domains that had expired are removed without a second look.
CleanedBlind ==
    [d \in Domains |-> IF d \in keys THEN NoRecord ELSE ips[d]]

\* Under the write lock every family is looked at again.
Cleaned ==
    [d \in Domains |-> [f \in Families |->
        IF d \in keys /\ Expired(d, f, ips[d][f]) THEN 0 ELSE ips[d][f]]]

\* Whether the map has shrunk enough is a matter of numbers beyond the
\* model's; a map that is empty is not migrated.
writeAndShrink ==
    /\ pc = "write"
    /\ pc' = "idle" /\ keys' = {}
    /\ \/ migrating /\ UNCHANGED <<ips, dirtyips, migrating, todo>>
       \/ /\ ~migrating /\ ips' = Cleaned
          /\ UNCHANGED <<dirtyips, migrating, todo>>
       \/ /\ ~migrating /\ Cleaned # NoMap
          /\ dirtyips' = Cleaned /\ ips' = NoMap /\ migrating' = TRUE
          /\ todo' = {d \in Domains : Cleaned[d] # NoRecord}
    /\ UNCHANGED <<expire, newest>>

-----------------------------------------------------------------------------
(* migrate *)

\* The new record, completed from the old one.
Merged(d) ==
    [f \in Families |-> IF ips[d][f] = 0 THEN dirtyips[d][f] ELSE ips[d][f]]

\* flush, with batches of one record.
flush(d) ==
    /\ d \in todo
    /\ ips' = [ips EXCEPT ![d] = Merged(d)]
    /\ todo' = todo \ {d}
    /\ UNCHANGED <<dirtyips, migrating, expire, newest, keys, pc>>

migrateEnd ==
    /\ migrating /\ todo = {}
    /\ migrating' = FALSE /\ dirtyips' = NoMap
    /\ UNCHANGED <<ips, todo, expire, newest, keys, pc>>

-----------------------------------------------------------------------------

Next ==
    \/ \E d \in Domains, f \in Families : Expire(d, f) \/ updateRecord(d, f)
    \/ collectExpiredKeys \/ writeAndShrink
    \/ \E d \in Domains : flush(d)
    \/ migrateEnd

Spec == Init /\ [][Next]_vars

-----------------------------------------------------------------------------
(* Properties *)

\* The variables have their types, and a migration moves what is in dirtyips.
TypeOK ==
    /\ \A m \in {ips, dirtyips, expire, newest} :
         m \in [Domains -> [Families -> Nat]]
    /\ migrating \in BOOLEAN /\ (~migrating => dirtyips = NoMap /\ todo = {})
    /\ todo \subseteq Domains /\ keys \subseteq Domains
    /\ pc \in {"idle", "write"}

\* A query never finds an answer that a later one replaced, whichever map the
\* record is in and whatever the migration has moved.
NeverStale ==
    \A d \in Domains, f \in Families :
        findRecords(d)[f] \in {0, newest[d][f]}

\* No answer is lost before it expires: outside a migration it is in the map,
\* and during one it is in the map or on its way there.
NoFreshAnswerLost ==
    \A d \in Domains, f \in Families :
        newest[d][f] > expire[d][f] =>
            \/ ips[d][f] = newest[d][f]
            \/ d \in todo /\ dirtyips[d][f] = newest[d][f]

=============================================================================
