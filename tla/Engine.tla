------------------------------- MODULE Engine -------------------------------
(***************************************************************************)
(* internal/audio: Engine.Run starts one encoder after another; each has a *)
(* goroutine that copies its output to the hub (out), one that feeds it    *)
(* PCM (pump) from a decoder per track, and a watchdog per decoder.  The   *)
(* pump of a dead encoder is not waited for, so two pumps can overlap.     *)
(*                                                                         *)
(* The encoder and the decoders are ffmpeg processes and external: one     *)
(* runs, is wedged (alive and silent), or is dead; a decoder may also have *)
(* closed its output and live on.  A track is named by the decoder that    *)
(* plays it.  Time passes in ticks of the watchdog, and only when          *)
(* everybody waits for a wedged process or for the pacer.                  *)
(***************************************************************************)
EXTENDS Integers, FiniteSets

CONSTANTS
    MaxGens,      \* bound: encoders started
    MaxDecoders,  \* bound: decoders started
    Skippers,     \* concurrent requests for /admin/skip
    Timeout       \* decoderStallTimeout, in ticks

ASSUME EngineAssumption ==
    /\ MaxGens \in Nat \ {0} /\ MaxDecoders \in Nat \ {0}
    /\ Timeout \in Nat

Gens == 1 .. MaxGens
Decs == 1 .. MaxDecoders
None == 0

VARIABLES
    ctx,      \* the process context is not cancelled
    run,      \* Run and runOnce: where they are
    gen,      \* encoders started so far; the last one is the current one
    enc,      \* [Gens -> "none", "running", "wedged", "dead"]
    stdin,    \* [Gens -> encStdin is open]
    pcm,      \* [Gens -> pcmCancel has not been called]
    out,      \* [Gens -> "none", "copying", "done"]: the goroutine of pumpDone
    pump,     \* [Gens -> where the goroutine of copyDone is]
    trk,      \* [Gens -> its curTrk, curOut, curCmd: a decoder, or None]
    started,  \* decoders started so far
    bound,    \* [Decs -> the encoder whose pcmCtx its command is bound to]
    dec,      \* [Decs -> "none", "running", "wedged", "closed", "dead"]
    wd,       \* [Gens -> the watchStall of its decoder runs]
    age,      \* [Gens -> ticks since lastRead, 0 when its watchStall has returned]
    curCmd,   \* Engine.curCmd
    skip,     \* [Skippers -> the command it is about to kill, or None]
    asked     \* history: [Skippers -> started when Skip was called]

supVars  == <<ctx, run, gen, enc, stdin, pcm, out>>
pumpVars == <<pump, trk, started, bound>>
decVars  == <<dec, wd, age>>
skipVars == <<skip, asked>>
vars == <<supVars, pumpVars, decVars, curCmd, skipVars>>

Init ==
    /\ ctx = TRUE /\ run = "start" /\ gen = 0
    /\ enc = [g \in Gens |-> "none"] /\ stdin = [g \in Gens |-> FALSE]
    /\ pcm = [g \in Gens |-> FALSE] /\ out = [g \in Gens |-> "none"]
    /\ pump = [g \in Gens |-> "none"] /\ trk = [g \in Gens |-> None]
    /\ started = 0
    /\ bound = [d \in Decs |-> None]
    /\ dec = [d \in Decs |-> "none"] /\ wd = [g \in Gens |-> FALSE]
    /\ age = [g \in Gens |-> 0]
    /\ curCmd = None
    /\ skip = [a \in Skippers |-> None] /\ asked = [a \in Skippers |-> 0]

Alive(process) == process \in {"running", "wedged", "closed"}
Live(g) == ctx /\ pcm[g]  \* pcmCtx, a child of ctx

-----------------------------------------------------------------------------
(* Run and runOnce. *)

Go(to) == run' = to

StartEncoder ==
    /\ run = "start" /\ ctx /\ gen < MaxGens
    /\ gen' = gen + 1
    /\ enc' = [enc EXCEPT ![gen'] = "running"]
    /\ stdin' = [stdin EXCEPT ![gen'] = TRUE]
    /\ pcm' = [pcm EXCEPT ![gen'] = TRUE]
    /\ out' = [out EXCEPT ![gen'] = "copying"]
    /\ pump' = [pump EXCEPT ![gen'] = "top"]
    /\ Go("select")
    /\ UNCHANGED <<ctx, trk, started, bound, decVars, curCmd, skipVars>>

EncoderFails ==
    /\ run = "start" /\ ctx
    /\ Go("backoff")
    /\ UNCHANGED <<ctx, gen, enc, stdin, pcm, out, pumpVars, decVars, curCmd, skipVars>>

Hangup ==
    /\ pcm' = [pcm EXCEPT ![gen] = FALSE]
    /\ stdin' = [stdin EXCEPT ![gen] = FALSE]

OnCancel ==
    /\ run = "select" /\ ~ctx
    /\ Hangup
    /\ enc' = [enc EXCEPT ![gen] = "dead"]
    /\ Go("waitEncoder")
    /\ UNCHANGED <<ctx, gen, out, pumpVars, decVars, curCmd, skipVars>>

(* Mutant: the goroutine that writes to the hub is not waited for. *)
OnEncoderDone_NoWait ==
    /\ run = "select" /\ enc[gen] = "dead"
    /\ Hangup
    /\ Go("backoff")
    /\ UNCHANGED <<ctx, gen, enc, out, pumpVars, decVars, curCmd, skipVars>>

OnEncoderDone ==
    /\ run = "select" /\ enc[gen] = "dead"
    /\ Hangup
    /\ Go("waitOut")
    /\ UNCHANGED <<ctx, gen, enc, out, pumpVars, decVars, curCmd, skipVars>>

OnCopyDone ==
    /\ run = "select" /\ pump[gen] = "done"
    /\ Hangup
    /\ Go("waitEncoder")
    /\ UNCHANGED <<ctx, gen, enc, out, pumpVars, decVars, curCmd, skipVars>>

Waited ==
    /\ \/ run = "waitEncoder" /\ enc[gen] = "dead" /\ Go("waitOut")
       \/ run = "waitOut" /\ out[gen] = "done" /\ Go("backoff")
    /\ UNCHANGED <<ctx, gen, enc, stdin, pcm, out, pumpVars, decVars, curCmd, skipVars>>

Retry ==
    /\ run = "backoff" /\ ctx
    /\ Go("start")
    /\ UNCHANGED <<ctx, gen, enc, stdin, pcm, out, pumpVars, decVars, curCmd, skipVars>>

Return ==
    /\ run \in {"start", "backoff"} /\ ~ctx
    /\ Go("returned")
    /\ UNCHANGED <<ctx, gen, enc, stdin, pcm, out, pumpVars, decVars, curCmd, skipVars>>

Supervise == StartEncoder \/ EncoderFails \/ OnCancel \/ OnEncoderDone \/ OnCopyDone
             \/ Waited \/ Retry \/ Return

(* The encoder's output ends: it has been read, or encCmd.Wait has closed  *)
(* the pipe before the rest of it was.                                     *)
OutEnds(g) ==
    /\ out[g] = "copying" /\ enc[g] = "dead"
    /\ out' = [out EXCEPT ![g] = "done"]
    /\ UNCHANGED <<ctx, run, gen, enc, stdin, pcm, pumpVars, decVars, curCmd, skipVars>>

-----------------------------------------------------------------------------
(* The pump: copyChunks of pcmSource.read into the encoder. *)

At(g, pc)   == pump[g] = pc
Then(g, pc) == pump' = [pump EXCEPT ![g] = pc]

(* read has no decoder: the context, then Pick. *)
Pick(g) ==
    /\ At(g, "top")
    /\ IF Live(g) THEN \/ Then(g, "nothing")
                       \/ started < MaxDecoders /\ Then(g, "picked")
                  ELSE Then(g, "done")
    /\ UNCHANGED <<supVars, trk, started, bound, decVars, curCmd, skipVars>>

(* MarkPlaying(nil), the station name for a title, a chunk of silence. *)
Silence(g) ==
    /\ At(g, "nothing") /\ Then(g, "writing")
    /\ UNCHANGED <<supVars, trk, started, bound, decVars, curCmd, skipVars>>

DecoderFails(g) ==
    /\ At(g, "picked") /\ Then(g, "top")
    /\ UNCHANGED <<supVars, trk, started, bound, decVars, curCmd, skipVars>>

(* Mutant: no watchdog. *)
StartDecoder_Unwatched(g) ==
    /\ At(g, "picked") /\ Live(g) /\ started < MaxDecoders
    /\ Then(g, "spawned")
    /\ started' = started + 1
    /\ trk' = [trk EXCEPT ![g] = started']
    /\ bound' = [bound EXCEPT ![started'] = g]
    /\ dec' = [dec EXCEPT ![started'] = "running"]
    /\ UNCHANGED <<supVars, wd, age, curCmd, skipVars>>

StartDecoder(g) ==
    /\ At(g, "picked") /\ Live(g) /\ started < MaxDecoders
    /\ Then(g, "spawned")
    /\ started' = started + 1
    /\ trk' = [trk EXCEPT ![g] = started']
    /\ bound' = [bound EXCEPT ![started'] = g]
    /\ dec' = [dec EXCEPT ![started'] = "running"]
    /\ wd' = [wd EXCEPT ![g] = TRUE]
    /\ age' = [age EXCEPT ![g] = 0]
    /\ UNCHANGED <<supVars, curCmd, skipVars>>

Register(g) ==
    /\ At(g, "spawned") /\ Then(g, "registered")
    /\ curCmd' = trk[g]
    /\ UNCHANGED <<supVars, trk, started, bound, decVars, skipVars>>

(* MarkPlaying and SetMetadata, which are in Scheduler and ICY, take time. *)
Announce(g) ==
    /\ At(g, "registered") /\ Then(g, "reading")
    /\ UNCHANGED <<supVars, trk, started, bound, decVars, curCmd, skipVars>>

(* A read that returns data: the buffer is full, or read is called again,  *)
(* which looks at the context first.                                       *)
Read(g) ==
    /\ At(g, "reading") /\ dec[trk[g]] = "running"
    /\ \/ Then(g, "writing")
       \/ Then(g, IF Live(g) THEN "reading" ELSE "done")
    /\ age' = [age EXCEPT ![g] = 0]
    /\ UNCHANGED <<supVars, trk, started, bound, dec, wd, curCmd, skipVars>>

(* Mutant: the watchdog is not told. *)
ReadEnds_KeepsWatching(g) ==
    /\ At(g, "reading") /\ dec[trk[g]] \in {"closed", "dead"}
    /\ Then(g, "ended")
    /\ UNCHANGED <<supVars, trk, started, bound, decVars, curCmd, skipVars>>

(* A read that ends: the watchdog is retired; the process, which may live  *)
(* on, is left to a goroutine that waits for its end.                      *)
ReadEnds(g) ==
    /\ At(g, "reading") /\ dec[trk[g]] \in {"closed", "dead"}
    /\ Then(g, "ended")
    /\ wd' = [wd EXCEPT ![g] = FALSE] /\ age' = [age EXCEPT ![g] = 0]
    /\ UNCHANGED <<supVars, trk, started, bound, dec, curCmd, skipVars>>

Forget(g) ==
    /\ At(g, "ended") /\ Then(g, "top")
    /\ curCmd' = None
    /\ trk' = [trk EXCEPT ![g] = None]
    /\ UNCHANGED <<supVars, started, bound, decVars, skipVars>>

(* realtimeWriter.Write: into the encoder, then a pause. *)
Write(g) ==
    /\ At(g, "writing")
    /\ \/ stdin[g] /\ enc[g] = "running" /\ Then(g, "pausing")
       \/ (~stdin[g] \/ enc[g] = "dead") /\ Then(g, "done")
    /\ UNCHANGED <<supVars, trk, started, bound, decVars, curCmd, skipVars>>

(* The next read: its context, then the decoder at hand. *)
NextRead(g) ==
    /\ At(g, "pausing")
    /\ Then(g, CASE trk[g] = None -> "top"
                 [] trk[g] # None /\ Live(g) -> "reading"
                 [] trk[g] # None /\ ~Live(g) -> "done")
    /\ UNCHANGED <<supVars, trk, started, bound, decVars, curCmd, skipVars>>

PumpStep(g) == Pick(g) \/ Silence(g) \/ DecoderFails(g) \/ StartDecoder(g)
               \/ Register(g) \/ Announce(g) \/ Read(g) \/ ReadEnds(g)
               \/ Forget(g) \/ Write(g) \/ NextRead(g)

-----------------------------------------------------------------------------
(* Who kills a decoder: its watchdog, its context, a request to skip.      *)

Kills(d) == dec' = [dec EXCEPT ![d] = "dead"]

WatchdogFires(g) ==
    /\ wd[g] /\ age[g] > Timeout
    /\ wd' = [wd EXCEPT ![g] = FALSE] /\ age' = [age EXCEPT ![g] = 0]
    /\ Kills(trk[g])
    /\ UNCHANGED <<supVars, pumpVars, curCmd, skipVars>>

WatchdogLeaves(g) ==
    /\ wd[g] /\ ~Live(g)
    /\ wd' = [wd EXCEPT ![g] = FALSE] /\ age' = [age EXCEPT ![g] = 0]
    /\ UNCHANGED <<supVars, pumpVars, dec, curCmd, skipVars>>

(* Mutant: the encoder is not bound to the context. *)
ContextKillsEncoder_Never(g) == FALSE

(* exec.CommandContext of the encoder. *)
ContextKillsEncoder(g) ==
    /\ Alive(enc[g]) /\ ~ctx
    /\ enc' = [enc EXCEPT ![g] = "dead"]
    /\ UNCHANGED <<ctx, run, gen, stdin, pcm, out, pumpVars, decVars, curCmd, skipVars>>

(* exec.CommandContext: also of a decoder no pump holds any longer. *)
ContextKills(d) ==
    /\ Alive(dec[d]) /\ ~Live(bound[d])
    /\ Kills(d)
    /\ UNCHANGED <<supVars, pumpVars, wd, age, curCmd, skipVars>>

Skip(a) ==
    /\ skip[a] = None /\ curCmd # None
    /\ skip' = [skip EXCEPT ![a] = curCmd]
    /\ asked' = [asked EXCEPT ![a] = started]
    /\ UNCHANGED <<supVars, pumpVars, decVars, curCmd>>

(* Mutant: the command is read again at the time of the kill. *)
SkipKills_Late(a) ==
    /\ skip[a] # None
    /\ skip' = [skip EXCEPT ![a] = None]
    /\ asked' = [asked EXCEPT ![a] = 0]
    /\ IF curCmd # None THEN Kills(curCmd) ELSE UNCHANGED dec
    /\ UNCHANGED <<supVars, pumpVars, wd, age, curCmd>>

(* After the unlock; a kill of a process that has ended does nothing. *)
SkipKills(a) ==
    /\ skip[a] # None
    /\ skip' = [skip EXCEPT ![a] = None]
    /\ asked' = [asked EXCEPT ![a] = 0]
    /\ Kills(skip[a])
    /\ UNCHANGED <<supVars, pumpVars, wd, age, curCmd>>

-----------------------------------------------------------------------------
(* The environment: ffmpeg, the shutdown, time. *)

DecoderChanges(d) ==
    /\ \/ dec[d] = "running" /\ \E s \in {"wedged", "closed"} : dec' = [dec EXCEPT ![d] = s]
       \/ dec[d] = "wedged" /\ dec' = [dec EXCEPT ![d] = "running"]
       \/ Alive(dec[d]) /\ Kills(d)
    /\ UNCHANGED <<supVars, pumpVars, wd, age, curCmd, skipVars>>

EncoderChanges(g) ==
    /\ \/ enc[g] = "running" /\ enc' = [enc EXCEPT ![g] = "wedged"]
       \/ enc[g] = "wedged" /\ enc' = [enc EXCEPT ![g] = "running"]
       \/ Alive(enc[g]) /\ enc' = [enc EXCEPT ![g] = "dead"]
    /\ UNCHANGED <<ctx, run, gen, stdin, pcm, out, pumpVars, decVars, curCmd, skipVars>>

Cancel ==
    /\ ctx
    /\ ctx' = FALSE
    /\ UNCHANGED <<run, gen, enc, stdin, pcm, out, pumpVars, decVars, curCmd, skipVars>>

Waiting(g) ==
    \/ pump[g] \in {"none", "pausing", "done"}
    \/ At(g, "reading") /\ dec[trk[g]] = "wedged"
    \/ At(g, "writing") /\ enc[g] = "wedged" /\ stdin[g]

Tick ==
    /\ \A g \in Gens : Waiting(g)
    /\ \E g \in Gens : wd[g] /\ age[g] <= Timeout
    /\ age' = [g \in Gens |-> IF wd[g] /\ age[g] <= Timeout THEN age[g] + 1 ELSE age[g]]
    /\ UNCHANGED <<supVars, pumpVars, dec, wd, curCmd, skipVars>>

Environment == Cancel \/ Tick \/ (\E d \in Decs : DecoderChanges(d)) \/ (\E g \in Gens : EncoderChanges(g))

Next ==
    \/ Supervise
    \/ \E g \in Gens : OutEnds(g) \/ PumpStep(g) \/ WatchdogFires(g) \/ WatchdogLeaves(g)
                     \/ ContextKillsEncoder(g)
    \/ \E d \in Decs : ContextKills(d)
    \/ \E a \in Skippers : Skip(a) \/ SkipKills(a)
    \/ Environment

Spec == Init /\ [][Next]_vars

(* Until Run has returned every goroutine that can take a step eventually  *)
(* does, a kill arrives, and time passes; after it main exits, and nothing *)
(* more is owed.  The steps of Ends happen a bounded number of times each, *)
(* so fairness of all is fairness of each.  Nothing is assumed of ffmpeg:  *)
(* it may be wedged for ever, and the end of a track may never come.       *)
Up == run # "returned"

Ends ==
    \/ \E g \in Gens : OutEnds(g) \/ WatchdogFires(g) \/ WatchdogLeaves(g) \/ ContextKillsEncoder(g)
    \/ \E d \in Decs : ContextKills(d)

FairSpec ==
    /\ Spec
    /\ WF_vars(Supervise) /\ WF_vars(Up /\ Ends) /\ SF_vars(Up /\ Tick)
    /\ \A g \in Gens : WF_vars(Up /\ PumpStep(g))

-----------------------------------------------------------------------------
TypeOK ==
    /\ ctx \in BOOLEAN
    /\ run \in {"start", "select", "waitEncoder", "waitOut", "backoff", "returned"}
    /\ gen \in 0 .. MaxGens
    /\ enc \in [Gens -> {"none", "running", "wedged", "dead"}]
    /\ stdin \in [Gens -> BOOLEAN] /\ pcm \in [Gens -> BOOLEAN]
    /\ out \in [Gens -> {"none", "copying", "done"}]
    /\ pump \in [Gens -> {"none", "top", "nothing", "picked", "spawned",
                          "registered", "reading", "ended", "writing", "pausing", "done"}]
    /\ trk \in [Gens -> 0 .. MaxDecoders] /\ \A g \in Gens : wd[g] => trk[g] # None
    /\ started \in 0 .. MaxDecoders
    /\ bound \in [Decs -> 0 .. MaxGens]
    /\ dec \in [Decs -> {"none", "running", "wedged", "closed", "dead"}]
    /\ wd \in [Gens -> BOOLEAN]
    /\ age \in [Gens -> 0 .. Timeout + 1]
    /\ curCmd \in 0 .. MaxDecoders
    /\ skip \in [Skippers -> 0 .. MaxDecoders]
    /\ asked \in [Skippers -> 0 .. MaxDecoders]

(* Every branch of runOnce waits for the goroutine that writes to the hub: *)
(* over all restarts of the encoder the hub has one writer at a time,      *)
(* which is what keeps the broadcast in order (Hub has one Pump).          *)
OneWriter == Cardinality({g \in Gens : out[g] = "copying"}) <= 1

(* A request to skip, which kills after it has given up the lock, never    *)
(* cuts off a track that began after the request was made, so two clicks   *)
(* on one track skip one track.                                            *)
SkipHitsAsked ==
    [][\A a \in Skippers : (skip[a] # None /\ skip'[a] = None)
          => \A d \in Decs : d > asked[a] => dec'[d] = dec[d]]_vars

(* Comment on watchStall: a decoder that stays alive and silent does not   *)
(* freeze the pump for ever, whether or not the encoder is being replaced: *)
(* it recovers, or it is killed and the read ends (or Run has returned).   *)
Stalled(g) == At(g, "reading") /\ dec[trk[g]] = "wedged"
StallEnds == \A g \in Gens : Stalled(g) ~> ~Stalled(g) \/ ~Up

(* Comment in main: on shutdown Run returns, wherever it was and however   *)
(* the encoder and the decoders are stuck, and then every encoder is dead  *)
(* and no goroutine is left that writes to the hub, which main closes      *)
(* next.  Nothing is said of the last pump and its decoder: Run waits for  *)
(* neither, and main may exit before the context has killed the decoder.   *)
ShutdownEnds ==
    ~ctx ~> ~Up /\ \A g \in Gens : ~Alive(enc[g]) /\ out[g] # "copying"

(* Comment on stderrPipe: Close must be called once the process has been   *)
(* reaped, otherwise the reader goroutine blocks for ever.  read does both *)
(* at the end of a track, so a pump that ends while the process goes on    *)
(* must not have a track left to do it for.                                *)
PumpReaps == \A g \in Gens : ctx /\ At(g, "done") => trk[g] = None
=============================================================================
