------------------------------ MODULE Listener ------------------------------
(***************************************************************************)
(* One listener of /stream, byte by byte: httpx/stream.go joins the burst  *)
(* ring, the channel of the hub and ICYStream.  The listener keeps up (Hub *)
(* is about those who do not), so its channel is never full.               *)
(***************************************************************************)
EXTENDS Burst, ICY

VARIABLES
    joined,   \* handleStream has subscribed
    channel   \* the chunks in its channel

vars == <<ringVars, icyVars, joined, channel>>

Init == RingInit /\ ICYInit /\ joined = FALSE /\ channel = <<>>

(* Subscribe: the burst, if there is any, is the first chunk. *)
Join ==
    /\ ~joined
    /\ joined' = TRUE
    /\ LET burst == alignToFrame(snapshot)
       IN  channel' = IF burst = <<>> THEN <<>> ELSE <<burst>>
    /\ UNCHANGED <<ringVars, icyVars>>

(* Hub.Write: the ring, and a copy for the listener. *)
Produce(n) ==
    /\ write(n)
    /\ channel' = IF joined THEN Append(channel, [i \in 1 .. n |-> total + i - 1]) ELSE channel
    /\ UNCHANGED <<icyVars, joined>>

Receive ==
    /\ channel # <<>>
    /\ NextChunk(Head(channel))
    /\ channel' = Tail(channel)
    /\ UNCHANGED <<ringVars, joined>>

Stream ==
    \/ Receive
    \/ (WriteBlock \/ WriteAudio) /\ UNCHANGED <<ringVars, joined, channel>>

SetTitle == \E t \in Titles : SetMetadata(t) /\ UNCHANGED <<ringVars, joined, channel>>

Next == Join \/ (\E n \in 1 .. MaxChunk : Produce(n)) \/ Stream \/ SetTitle

Spec == Init /\ [][Next]_vars

-----------------------------------------------------------------------------
(* The player hears the encoder's output from the burst on without a byte  *)
(* missing, repeated or taken for metadata, for any lengths of the writes, *)
(* the burst and the titles, whether or not it asked for metadata.         *)
HearsStream ==
    /\ ~rxLost
    /\ \A i \in 1 .. Len(heard) - 1 : heard[i + 1] = heard[i] + 1
    /\ (joined /\ channel = <<>> /\ chunk = <<>> /\ heard # <<>>)
            => heard[Len(heard)] = total - 1
=============================================================================
