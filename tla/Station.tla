------------------------------ MODULE Station ------------------------------
(***************************************************************************)
(* The life of the process, cmd/stationcast/main.go: the hub with its      *)
(* listeners, the HLS supervisor and the other background workers, until   *)
(* a signal has ended them all.  Of the workers, the engine matters here   *)
(* as the one that writes to the hub (Engine has its inside); any of them  *)
(* may fail to return.  Both waits of the shutdown are bounded, so that a  *)
(* timeout may come before what is waited for has happened.                *)
(***************************************************************************)
EXTENDS HLS

CONSTANTS
    Main,    \* the main goroutine, which closes the hub
    Workers  \* what spawn starts beside the HLS supervisor; the Pump is one

ASSUME StationAssumption == Closers = {Main} /\ Pump \in Workers

VARIABLES
    phase,   \* "serving", "draining", "waiting", "closing", "exited"
    busy,    \* workers that have not returned
    gaveUp   \* waitFor has returned false

stationVars == <<phase, busy, gaveUp>>
everything == <<allVars, stationVars>>

StationInit ==
    /\ HLSInit
    /\ phase = "serving" /\ busy = Workers /\ gaveUp = FALSE

Running == phase # "exited"

(* Mutant: the engine's goroutine that writes is not one that is awaited. *)
Finished_NotPump == busy \subseteq {Pump} /\ sup = "returned"

(* wg.Wait: Run returns after its deferred sub.Close.                      *)
Finished == busy = {} /\ sup = "returned" /\ Unsubscribed

Signal ==
    /\ phase = "serving" /\ phase' = "draining"
    /\ UNCHANGED <<allVars, busy, gaveUp>>

(* Shutdown returns when no request is left, or after five seconds: only   *)
(* a stop of the broadcast ends a stream.                                  *)
DrainEnds ==
    /\ phase = "draining" /\ phase' = "waiting"
    /\ Cancel
    /\ UNCHANGED <<busy, gaveUp>>

(* A worker that sees the context done returns, and has no write half done.*)
WorkerReturns(w) ==
    /\ ~ctx /\ w \in busy
    /\ w = Pump => todo[Pump] = {} /\ shut[Pump] = {}
    /\ busy' = busy \ {w}
    /\ UNCHANGED <<allVars, phase, gaveUp>>

(* Mutant: waitFor waits as long as it takes. *)
WaitEnds_Unbounded ==
    /\ phase = "waiting" /\ Finished
    /\ phase' = "closing"
    /\ UNCHANGED <<allVars, busy, gaveUp>>

WaitEnds ==
    /\ phase = "waiting" /\ phase' = "closing"
    /\ gaveUp' = ~Finished
    /\ UNCHANGED <<allVars, busy>>

CloseHub ==
    /\ phase = "closing"
    /\ Close(Main)
    /\ UNCHANGED <<hlsVars, stationVars>>

(* Main returns from Close, and the process ends with all that runs.       *)
Exit ==
    /\ phase = "closing" /\ closed /\ shut[Main] = {}
    /\ phase' = "exited"
    /\ UNCHANGED <<allVars, busy, gaveUp>>

Shutdown == DrainEnds \/ WaitEnds \/ CloseHub \/ Exit

(* The broadcast goes on through the shutdown.                             *)
Broadcasting ==
    /\ \/ Write /\ Pump \in busy
       \/ \E s \in Clients : Subscribe(s) \/ Refuse(s) \/ Receive(s) \/ WriteFails(s) \/ Drained(s)
       \/ \E a \in Actors : Cleanup(a)
    /\ UNCHANGED hlsVars

StationNext ==
    /\ ~panicked /\ Running
    /\ \/ (Broadcasting \/ HLSStep) /\ UNCHANGED stationVars
       \/ Signal \/ Shutdown
       \/ \E w \in busy : WorkerReturns(w)

StationSpec == StationInit /\ [][StationNext]_everything

Alive(A) == ~panicked /\ Running /\ A

(* As for HLS; main goes on, and time passes.  No other worker is assumed  *)
(* to return, and no listener to leave.                                    *)
StationFairSpec ==
    /\ StationSpec
    /\ WF_everything(Alive(Shutdown))
    /\ WF_everything(Alive(HLSStep /\ UNCHANGED stationVars))
    /\ WF_everything(Alive(Exits /\ ~stdin /\ UNCHANGED stationVars))
    /\ \A a \in Actors : WF_everything(Alive(Cleanup(a) /\ UNCHANGED <<hlsVars, stationVars>>))
    /\ \A s \in Clients : WF_everything(Alive(Drained(s) /\ UNCHANGED <<hlsVars, stationVars>>))

-----------------------------------------------------------------------------
StationTypeOK ==
    /\ TypeOK /\ HLSTypeOK
    /\ phase \in {"serving", "draining", "waiting", "closing", "exited"}
    /\ busy \subseteq Workers /\ gaveUp \in BOOLEAN

(* The comment in main on the wait for the workers: unless it was given up *)
(* the hub is closed when nobody is left who writes to it or feeds from it *)
(* or has a removal half done, and no ffmpeg is orphaned by the exit.      *)
ClosedInOrder ==
    phase \in {"closing", "exited"} /\ ~gaveUp =>
        /\ ffmpeg = "none" /\ subs \intersect Feeders = {}
        /\ todo[Pump] = {} /\ shut[Pump] = {}

(* Every shutdown ends, whatever worker is stuck and whoever still listens,*)
(* and with it the supervisor, unless it was given up.                     *)
SignalExits == phase = "draining" ~> (phase = "exited" /\ (gaveUp \/ sup = "returned"))

(* A subscriber removed from the map (dropped as slow, hung up, or the hub *)
(* closed) eventually has its channel closed and its handler leaves, even  *)
(* though the close is made outside the lock by one of several goroutines; *)
(* until the process ends.  The handler may be stuck in a write to a dead  *)
(* client, so only a drained channel is required to release it.            *)
ReleasedOrOver ==
    \A s \in Subs :
        /\ (chan[s] = "open" /\ s \notin subs) ~> (chan[s] = "closed" \/ ~Running)
        /\ (chan[s] = "closed" /\ rcvd[s] = Len(sent[s])) ~> (owner[s] = "left" \/ ~Running)
=============================================================================
