-------------------------------- MODULE HLS --------------------------------
(***************************************************************************)
(* internal/broadcast/hls.go on top of the hub: HLSManager.Run supervises  *)
(* an ffmpeg that remuxes the broadcast into HLS segments.  Each runOnce   *)
(* starts one ffmpeg and subscribes to the hub with SubscribeInternal; its *)
(* feeder goroutine copies the channel to ffmpeg's stdin and closes it     *)
(* when the channel ends.  ffmpeg is external: it exits with status 0 at   *)
(* the end of its input, or fails at any moment, also then.                *)
(*                                                                         *)
(* The hub's Feeders are the subscribers of the successive runOnce calls;  *)
(* their number bounds the restarts.                                       *)
(***************************************************************************)
EXTENDS Hub

CONSTANT None  \* no feeder yet

ASSUME HLSAssumption == None \notin Subs

VARIABLES
    sup,     \* Run: "start", "launching", "running", "backoff", "returned"
    feeder,  \* the subscriber of this runOnce, None before the first
    ffmpeg,  \* "none", "running", "exited" (status 0), "crashed"
    stdin,   \* ffmpeg's input is open
    ctx,     \* the context is not cancelled
    fed      \* the pieces ffmpeg has been fed, over all its lives

hlsVars == <<sup, feeder, ffmpeg, stdin, ctx, fed>>
allVars == <<vars, hlsVars>>

HLSInit ==
    /\ Init
    /\ sup = "start" /\ feeder = None /\ ffmpeg = "none" /\ stdin = FALSE
    /\ ctx = TRUE /\ fed = <<>>

(* Mutant: runOnce starts while the last subscriber is still to be closed. *)
Unsubscribed_NoWait == TRUE

(* sub.Close, deferred by runOnce, is over when Run goes on. *)
Unsubscribed == feeder # None => todo[feeder] = {} /\ shut[feeder] = {}

(* Run has looked at the context; until runOnce looks again it may end.    *)
Launch ==
    /\ sup = "start" /\ ctx
    /\ sup' = "launching"
    /\ UNCHANGED <<vars, feeder, ffmpeg, stdin, ctx, fed>>

StartOk(f) ==
    /\ sup = "launching" /\ Unsubscribed
    /\ Subscribe(f)
    /\ sup' = "running" /\ feeder' = f /\ ffmpeg' = "running" /\ stdin' = TRUE
    /\ UNCHANGED <<ctx, fed>>

(* ffmpeg does not start; or the hub is closed and ffmpeg is killed again. *)
StartFails ==
    /\ sup = "launching" /\ Unsubscribed
    /\ sup' = "backoff"
    /\ UNCHANGED <<vars, feeder, ffmpeg, stdin, ctx, fed>>

(* Mutant: the error of SubscribeInternal is not looked at. *)
StartRefused_Ignored(f) ==
    /\ sup = "launching" /\ Unsubscribed
    /\ Refuse(f)
    /\ sup' = "running"
    /\ UNCHANGED <<feeder, ffmpeg, stdin, ctx, fed>>

StartRefused(f) ==
    /\ sup = "launching" /\ Unsubscribed
    /\ Refuse(f)
    /\ sup' = "backoff"
    /\ UNCHANGED <<feeder, ffmpeg, stdin, ctx, fed>>

(* The feeder goroutine. *)
Feed ==
    /\ sup = "running" /\ stdin /\ ffmpeg = "running"
    /\ Receive(feeder)
    /\ fed' = Append(fed, sent[feeder][rcvd[feeder] + 1])
    /\ UNCHANGED <<sup, feeder, ffmpeg, stdin, ctx>>

ChannelEnds ==
    /\ sup = "running" /\ stdin
    /\ chan[feeder] = "closed" /\ rcvd[feeder] = Len(sent[feeder])
    /\ stdin' = FALSE
    /\ UNCHANGED <<vars, sup, feeder, ffmpeg, ctx, fed>>

Exits ==
    /\ ffmpeg = "running"
    /\ \/ ffmpeg' = "crashed"
       \/ ~stdin /\ ffmpeg' = "exited"
    /\ UNCHANGED <<vars, sup, feeder, stdin, ctx, fed>>

(* runOnce returns, with its deferred sub.Close; Run retries an error, but *)
(* takes a nil error for the end.                                          *)
Retries == ffmpeg = "crashed"

RunOnceReturns ==
    /\ sup = "running" /\ ffmpeg \in {"exited", "crashed"}
    /\ FeederStops(feeder)
    /\ sup' = IF Retries THEN "backoff" ELSE "returned"
    /\ ffmpeg' = "none" /\ stdin' = FALSE
    /\ UNCHANGED <<feeder, ctx, fed>>

BackoffEnds ==
    /\ sup = "backoff" /\ ctx
    /\ sup' = "start"
    /\ UNCHANGED <<vars, feeder, ffmpeg, stdin, ctx, fed>>

Cancel ==
    /\ ctx
    /\ ctx' = FALSE
    /\ UNCHANGED <<vars, sup, feeder, ffmpeg, stdin, fed>>

(* ctx.Done: kill and reap ffmpeg, or leave the backoff. *)
Stops ==
    /\ ~ctx /\ sup \notin {"launching", "returned"}
    /\ sup' = "returned"
    /\ ffmpeg' = "none" /\ stdin' = FALSE
    /\ IF sup = "running" THEN FeederStops(feeder) ELSE UNCHANGED vars
    /\ UNCHANGED <<feeder, ctx, fed>>

HLSStep ==
    \/ \E f \in Feeders : StartOk(f) \/ StartRefused(f)
    \/ Launch \/ StartFails \/ Feed \/ ChannelEnds \/ Exits \/ RunOnceReturns
    \/ BackoffEnds \/ Stops

HubStep ==
    /\ \/ Write
       \/ \E s \in Clients : OwnerStep(s)
       \/ \E a \in Closers : Close(a)
       \/ \E a \in Actors : Cleanup(a)
    /\ UNCHANGED hlsVars

HLSNext == ~panicked /\ (HubStep \/ HLSStep \/ Cancel)

HLSSpec == HLSInit /\ [][HLSNext]_allVars

-----------------------------------------------------------------------------
HLSTypeOK ==
    /\ sup \in {"start", "launching", "running", "backoff", "returned"}
    /\ feeder \in Feeders \union {None}
    /\ ffmpeg \in {"none", "running", "exited", "crashed"}
    /\ stdin \in BOOLEAN /\ ctx \in BOOLEAN
    /\ fed \in Seq(Piece)
    /\ sup = "running" => feeder \in Feeders /\ ffmpeg # "none"

(* The comment in subscribe: handing the burst to the feeder would repeat  *)
(* audio that has been segmented every time ffmpeg restarts.  Over all the *)
(* lives of ffmpeg no chunk is fed twice or out of order.                  *)
NeverFedTwice ==
    \A i \in 1 .. Len(fed) - 1 : fed[i].hi < fed[i + 1].lo

(* A restart never overlaps its predecessor: at most one feeder is in the  *)
(* hub, and while runOnce runs on an open hub that has not dropped it, it  *)
(* is the one.                                                             *)
OneFeeder ==
    /\ Cardinality(subs \intersect Feeders) <= 1
    /\ subs \intersect Feeders \subseteq {feeder}

(* The comment in subscribe: "the HLS feeder is always subscribed".  As    *)
(* long as neither the hub is closed nor the context cancelled, Run has    *)
(* not given up feeding HLS.                                               *)
FeederKept == sup = "returned" => closed \/ ~ctx
=============================================================================
