------------------------------ MODULE MCMuxLive ------------------------------
(***************************************************************************)
(* The multiplexer over time, on small instances: a mux connection with one *)
(* session and a ticker on the client's side, or an XUDP flow that two mux  *)
(* connections compete for.  A behaviour is one of the two; the other stays *)
(* as it began.                                                             *)
(***************************************************************************)
EXTENDS Mux

CONSTANTS Workers, MaxObjects, MaxLinks, MaxSessions        \* of XUDP

VARIABLES
    part,                                                   \* which of them
    entry, status, mux, xlink, sess, close, nx, nl, ns, ended, errChan, wpc,
    wx, dead, added, handle

xv == <<entry, status, mux, xlink, sess, close, nx, nl, ns, ended, errChan,
        wpc, wx, dead, added, handle>>

Flow == INSTANCE XUDP

MCInit == part \in {"mux", "xudp"} /\ Init /\ Flow!Init

MCNext ==
    \/ part = "mux" /\ Next /\ UNCHANGED <<part, xv>>
    \/ part = "xudp" /\ Flow!Next /\ UNCHANGED <<part, vars>>

\* The fairness of the two modules, each in its own behaviours.
MuxFairness ==
    /\ \A f \in Flows :
         /\ WF_vars(part = "mux" /\ Allocate(f))
         /\ WF_vars(part = "mux" /\ DispatchAttach(f))
    /\ \A s \in Sides :
         /\ WF_vars(part = "mux" /\ Reader(s))
         /\ WF_vars(part = "mux" /\ ReadFails(s))
         /\ WF_vars(part = "mux" /\ (MonitorCheck(s) \/ MonitorInterrupt(s)))
         /\ WF_vars(part = "mux" /\ MonitorTick(s))
         /\ SF_vars(part = "mux" /\ MonitorDone(s))
         /\ \A f \in Flows : WF_vars(part = "mux" /\ Pump(s, f))

XUDPFairness ==
    /\ \A w \in Workers :
         /\ WF_xv(/\ part = "xudp"
                  /\ \/ Flow!Detach(w) \/ Flow!Replay(w)
                     \/ Flow!DispatchLink(w) \/ Flow!Bind(w)
                     \/ Flow!Add(w) \/ Flow!Spawn(w) \/ Flow!AddFails(w))
         /\ \A s \in Flow!Sessions :
              /\ WF_xv(part = "xudp" /\ Flow!HandleRead(w, s))
              /\ WF_xv(part = "xudp" /\ (\/ Flow!HandleSeesEnd(w, s)
                                         \/ Flow!HandleEnds(w, s)))
              /\ WF_xv(/\ part = "xudp"
                       /\ dead[w] /\ <<w, s>> \in added /\ Flow!PeerCloses(s))
    /\ \A s \in Flow!Sessions : WF_xv(part = "xudp" /\ Flow!CloseEnd(s))
    /\ WF_xv(part = "xudp" /\ Flow!Expire)

MCSpec ==
    MCInit /\ [][MCNext]_<<part, vars, xv>> /\ MuxFairness /\ XUDPFairness

-----------------------------------------------------------------------------
(* The properties of XUDP; those of Mux are extended *)

\* XUDP: the link of a flow is one connection's at a time, or the expiry's, and
\* Close never blocks on an error that is still pending in it.
FlowHasOneOwner == Flow!FlowHasOneOwner

\* XUDP: a link is used or released.
LinksAreReleased == Flow!LinksAreReleased

=============================================================================
