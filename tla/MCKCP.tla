-------------------------------- MODULE MCKCP --------------------------------
(***************************************************************************)
(* An mKCP connection, on small instances: the windows of one direction     *)
(* (WindowSpec), or the closing handshake (CloseSpec), while the other      *)
(* stays as it began.                                                       *)
(***************************************************************************)
EXTENDS KCPWindow

CONSTANTS Updaters, Closers, Writes, MaxUnderWay, MaxReleases  \* of KCPClose

VARIABLES
    state, pend, under, input, wpc, holds, rcvd, released, early, forced

cv == <<state, pend, under, input, wpc, holds, rcvd, released, early, forced>>

Conn == INSTANCE KCPClose WITH MaxNet <- MaxUnderWay, net <- under

MCInit == Init /\ Conn!Init

WindowSpec ==
    /\ MCInit /\ [][Next /\ UNCHANGED cv]_<<vars, cv>>
    /\ Fairness

CloseSpec ==
    /\ MCInit /\ [][Conn!Next /\ UNCHANGED vars]_<<vars, cv>>
    /\ Conn!Fairness

-----------------------------------------------------------------------------
(* The properties of KCPClose; those of KCPWindow are extended *)

\* KCPClose: the peer learns of the termination after the data.
DataBeforeTermination == Conn!DataBeforeTermination

\* KCPClose: Close releases the connection.
CloseReleases == Conn!CloseReleases

=============================================================================
