----------------------------- MODULE DNSParallel ----------------------------
(***************************************************************************)
(* DNS.parallelQuery (app/dns/dns.go): all servers are asked at once and    *)
(* answer in any order.  Adjacent servers with the same policy form a       *)
(* group; within a group the first answer wins, and a group is heard only   *)
(* when every server of the groups before it has failed.                    *)
(***************************************************************************)
EXTENDS Naturals, Sequences

CONSTANTS
    N,           \* the number of clients
    Policies     \* policyIDs

Clients == 1..N

VARIABLES
    policyID,    \* [Clients -> Policies]
    results,     \* [Clients -> "none", "ok" or "failed"]
    pending,     \* per group, the answers that are missing
    nextGroup,   \* the group that is being heard
    ret          \* 0 at first; the client whose answer is returned; N + 1 for an
                 \* error

vars == <<policyID, results, pending, nextGroup, ret>>

\* The loop of makeGroups, up to client i: s and e are the first and the last
\* client of the group that is being formed.
makeGroups ==
    LET loop[i \in Clients] ==
          IF i = 1 THEN [s |-> 1, e |-> 1, groups |-> <<>>]
          ELSE LET a == loop[i - 1] IN
               IF policyID[i - 1] = policyID[i]
               THEN [a EXCEPT !.e = i]
               ELSE [s |-> i, e |-> i,
                     groups |-> Append(a.groups, [start |-> a.s, end |-> a.e])]
    IN  Append(loop[N].groups, [start |-> loop[N].s, end |-> loop[N].e])

groupOf(i) == CHOOSE g \in DOMAIN makeGroups :
                 i \in makeGroups[g].start .. makeGroups[g].end

Members(g) == makeGroups[g].start .. makeGroups[g].end

Init ==
    /\ policyID \in [Clients -> Policies]
    /\ results = [i \in Clients |-> "none"]
    /\ pending = [g \in DOMAIN makeGroups |->
                    makeGroups[g].end - makeGroups[g].start + 1]
    /\ nextGroup = 1
    /\ ret = 0

\* The groups that may be heard now, up to the first one with a success or
\* with an answer missing.
Heard(rs, pend) ==
    LET Stops(g) == pend[g] > 0 \/ \E j \in Members(g) : rs[j] = "ok"
        gs == {g \in nextGroup .. Len(makeGroups) : Stops(g)}
    IN  IF gs = {} THEN Len(makeGroups) + 1
        ELSE CHOOSE g \in gs : \A h \in gs : g <= h

\* Mutant: a success is taken from whichever group it comes.
ReceiveAny(i, r) ==
    LET rs == [results EXCEPT ![i] = r]
        pend == [pending EXCEPT ![groupOf(i)] = @ - 1]
        g == Heard(rs, pend)
    IN
    /\ ret = 0 /\ results[i] = "none"
    /\ results' = rs /\ pending' = pend /\ nextGroup' = g
    /\ ret' = IF r = "ok" THEN i
              ELSE IF g > Len(makeGroups) THEN N + 1 ELSE 0
    /\ UNCHANGED policyID

\* One round of the loop: client i answers, with r.
Receive(i, r) ==
    LET rs == [results EXCEPT ![i] = r]
        pend == [pending EXCEPT ![groupOf(i)] = @ - 1]
        g == Heard(rs, pend)
        oks == IF g > Len(makeGroups) THEN {}
               ELSE {j \in Members(g) : rs[j] = "ok"}
    IN
    /\ ret = 0 /\ results[i] = "none"
    /\ results' = rs
    /\ pending' = pend
    /\ nextGroup' = g
    /\ ret' = IF oks # {} THEN CHOOSE j \in oks : \A k \in oks : j <= k
              ELSE IF g > Len(makeGroups) THEN N + 1
              ELSE 0
    /\ UNCHANGED policyID

Next == \E i \in Clients, r \in {"ok", "failed"} : Receive(i, r)

Spec == Init /\ [][Next]_vars

-----------------------------------------------------------------------------
(* Properties *)

\* i and j are in one group: every client from one to the other has the same
\* policy as its neighbour.
SameGroup(i, j) ==
    \A k \in Clients : (i <= k /\ k < j) \/ (j <= k /\ k < i) =>
       policyID[k] = policyID[k + 1]

\* The servers that come before i and are not of its group have all failed.
Turn(i) == \A j \in Clients : j < i /\ ~SameGroup(j, i) => results[j] = "failed"

\* Whatever the order of the answers, the one returned is from a server whose
\* turn it is, the query fails only when all have failed, and it does not
\* wait for another server once an answer that may be returned is there.
FirstGroupWins ==
    /\ ret \in Clients => results[ret] = "ok" /\ Turn(ret)
    /\ ret = N + 1 <=> \A i \in Clients : results[i] = "failed"
    /\ ret = 0 => \A i \in Clients : results[i] = "ok" => ~Turn(i)

=============================================================================
