------------------------------- MODULE FakeDNS -------------------------------
(***************************************************************************)
(* app/dns/fakedns/fake.go: a pool of fake addresses that stand for        *)
(* domains, on the two-way LRU cache of common/cache/lru.go.  A DNS answer *)
(* hands out an address; connections to that address come later, on other  *)
(* goroutines, and are turned back into the domain.                        *)
(***************************************************************************)
EXTENDS Naturals, FiniteSets

CONSTANTS
    Domains,
    PoolSize,   \* addresses of ipRange, counted from ipRange.IP
    Capacity,   \* LruSize
    Callers,    \* goroutines in GetFakeIPForDomain
    None

\* Start refuses an LruSize of 0, and initialize one that is not smaller than
\* the subnet.
ASSUME PoolAssumption ==
    /\ PoolSize \in Nat /\ Capacity \in Nat \ {0} /\ Capacity < PoolSize
    /\ None \notin Domains /\ None \notin Nat /\ None \notin Callers

Pool == 0 .. PoolSize - 1

VARIABLES
    keys,    \* the domains of the list; keyToElement has the same
    front,   \* per domain of the list: the domains in front of it
    value,   \* per domain of the list: its address
    keyOf,   \* valueToElement: per address the domain of its element, or None
    mu,      \* who holds Holder.mu, or None
    want,    \* the domain that one asks for
    given,   \* history: the address last handed out for a domain, or None
    since    \* history: per domain, the others that were used since it was

lru == <<keys, front, value, keyOf>>
vars == <<lru, mu, want, given, since>>

Init ==
    /\ keys = {} /\ front = [d \in Domains |-> {}]
    /\ value = [d \in Domains |-> None]
    /\ keyOf = [ip \in Pool |-> None]
    /\ mu = None /\ want = None
    /\ given = [d \in Domains |-> None]
    /\ since = [d \in Domains |-> {}]

-----------------------------------------------------------------------------
(* lru *)

\* The list with d moved, or pushed, to the front.
ToFront(d) ==
    [k \in Domains |-> IF k \in keys \ {d} THEN front[k] \cup {d} ELSE {}]

\* The element at the back of a list: all others are in front of it.
IsBack(b, ks, fr) == b \in ks /\ ks \ {b} \subseteq fr[b]

\* history: d is used
Use(d) == since' = [k \in Domains |-> IF k = d THEN {} ELSE since[k] \cup {d}]

MoveToFront(d) ==
    /\ front' = ToFront(d)
    /\ Use(d)
    /\ UNCHANGED <<keys, value, keyOf>>

\* Mutant: the address of the evicted element stays in valueToElement.
PutKeepsValue(d, ip) ==
    IF Cardinality(keys) < Capacity
      THEN /\ keys' = keys \cup {d} /\ front' = ToFront(d)
           /\ value' = [value EXCEPT ![d] = ip]
           /\ keyOf' = [keyOf EXCEPT ![ip] = d]
      ELSE \E b \in keys :
             /\ IsBack(b, keys \cup {d}, ToFront(d))
             /\ keys' = (keys \cup {d}) \ {b}
             /\ front' = [ToFront(d) EXCEPT ![b] = {}]
             /\ value' = [value EXCEPT ![d] = ip, ![b] = None]
             /\ keyOf' = [keyOf EXCEPT ![ip] = d]

\* Put of a key that is not there: the element at the back makes room.
Put(d, ip) ==
    IF Cardinality(keys) < Capacity
      THEN /\ keys' = keys \cup {d} /\ front' = ToFront(d)
           /\ value' = [value EXCEPT ![d] = ip]
           /\ keyOf' = [keyOf EXCEPT ![ip] = d]
      ELSE \E b \in keys :
             /\ IsBack(b, keys \cup {d}, ToFront(d))
             /\ keys' = (keys \cup {d}) \ {b}
             /\ front' = [ToFront(d) EXCEPT ![b] = {}]
             /\ value' = [value EXCEPT ![d] = ip, ![b] = None]
             /\ keyOf' = [keyOf EXCEPT ![ip] = d, ![value[b]] = None]

-----------------------------------------------------------------------------
(* Holder *)

\* GetFakeIPForDomain, up to the answer of Get.
Lookup(p, d) ==
    /\ mu = None
    /\ IF d \in keys
         THEN MoveToFront(d) /\ UNCHANGED <<mu, want, given>>
         ELSE mu' = p /\ want' = d /\ UNCHANGED <<lru, given, since>>

\* The loop of GetFakeIPForDomain ends with ip when it begins at start: ip is
\* free, and what it met before was not.
Search(start, ip) ==
    /\ keyOf[ip] = None
    /\ \A j \in Pool :
         (IF start <= ip THEN start <= j /\ j < ip ELSE start <= j \/ j < ip)
            => keyOf[j] # None

\* The rest of GetFakeIPForDomain: the search begins where the clock points.
Allocate(p) ==
    /\ mu = p
    /\ \E start \in Pool, ip \in Pool :
         /\ Search(start, ip)
         /\ Put(want, ip)
         /\ given' = [given EXCEPT ![want] = ip]
    /\ Use(want)
    /\ mu' = None /\ want' = None

\* Mutant: the domain is looked up, and not brought to the front.
GetDomainPeeks(ip) ==
    /\ keyOf[ip] # None
    /\ Use(keyOf[ip])
    /\ UNCHANGED <<lru, mu, want, given>>

\* GetDomainFromFakeDNS of an address of the pool that is in use; it does not
\* take Holder.mu.
GetDomainFromFakeDNS(ip) ==
    /\ keyOf[ip] # None
    /\ MoveToFront(keyOf[ip])
    /\ UNCHANGED <<mu, want, given>>

Next ==
    \/ \E p \in Callers : (\E d \in Domains : Lookup(p, d)) \/ Allocate(p)
    \/ \E ip \in Pool : GetDomainFromFakeDNS(ip)

Spec == Init /\ [][Next]_vars

-----------------------------------------------------------------------------
(* Properties *)

TypeOK ==
    /\ keys \subseteq Domains
    /\ front \in [Domains -> SUBSET Domains]
    /\ value \in [Domains -> Pool \cup {None}]
    /\ keyOf \in [Pool -> Domains \cup {None}]
    /\ mu \in Callers \cup {None} /\ want \in Domains \cup {None}
    /\ given \in [Domains -> Pool \cup {None}]
    /\ since \in [Domains -> SUBSET Domains]

\* The two maps of the LRU cache are inverse to each other, whatever was
\* evicted: no two domains share an address, and an address leads back to the
\* domain it was handed out for and to no other.
TwoWay ==
    /\ \A d \in Domains : d \in keys <=> value[d] # None
    /\ \A d \in keys : keyOf[value[d]] = d
    /\ \A ip \in Pool : keyOf[ip] # None => value[keyOf[ip]] = ip

\* The search of GetFakeIPForDomain, which loops under Holder.mu until it
\* meets a free address, has one to meet.
SearchEnds == mu # None => \E ip \in Pool : keyOf[ip] = None

\* An address handed out leads back to its domain until at least LruSize other
\* domains have been used since it was handed out, asked for again or
\* connected to, whatever goroutines come between.
KeepsRecent ==
    \A d \in Domains :
        given[d] # None /\ Cardinality(since[d]) < Capacity
            => keyOf[given[d]] = d

=============================================================================
