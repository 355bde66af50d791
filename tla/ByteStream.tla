----------------------------- MODULE ByteStream -----------------------------
(***************************************************************************)
(* What transport/pipe promises to the goroutines at its two ends: a FIFO  *)
(* stream of bytes that can end in two ways.  Closing it lets the reader   *)
(* drain what was accepted; aborting it drops what was not yet delivered.  *)
(***************************************************************************)
EXTENDS Naturals, Sequences

VARIABLES
    accepted,   \* every byte a write has put into the stream, in order
    delivered,  \* every byte a read has taken out of it, in order
    status      \* "open", "closed" or "errord"

streamVars == <<accepted, delivered, status>>

StreamInit ==
    /\ accepted = <<>>
    /\ delivered = <<>>
    /\ status = "open"

Accept ==
    /\ status = "open"
    /\ accepted' \in Seq(Nat)
    /\ Len(accepted') > Len(accepted)
    /\ SubSeq(accepted', 1, Len(accepted)) = accepted
    /\ UNCHANGED <<delivered, status>>

Deliver ==
    /\ status # "errord"
    /\ delivered # accepted
    /\ delivered' = accepted
    /\ UNCHANGED <<accepted, status>>

Finish ==
    /\ status = "open"
    /\ status' = "closed"
    /\ UNCHANGED <<accepted, delivered>>

\* A closed stream whose bytes have all been delivered can no longer fail.
Abort ==
    /\ \/ status = "open"
       \/ status = "closed" /\ delivered # accepted
    /\ status' = "errord"
    /\ UNCHANGED <<accepted, delivered>>

StreamNext == Accept \/ Deliver \/ Finish \/ Abort

StreamSpec == StreamInit /\ [][StreamNext]_streamVars
=============================================================================
