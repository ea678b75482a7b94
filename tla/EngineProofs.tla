---------------------------- MODULE EngineProofs ----------------------------
(***************************************************************************)
(* Proofs about the engine for every number of encoders, decoders and      *)
(* requests to skip: its types, that the hub has one writer at a time, and *)
(* that a late kill hits no track but those the request saw.               *)
(***************************************************************************)
EXTENDS Engine, FiniteSetTheorems, TLAPS

(* The steps, one by one. *)
LEMMA NextCases ==
    ASSUME Next
    PROVE  \/ StartEncoder \/ EncoderFails \/ OnCancel \/ OnEncoderDone \/ OnCopyDone
           \/ Waited \/ Retry \/ Return
           \/ \E g \in Gens : OutEnds(g) \/ WatchdogFires(g) \/ WatchdogLeaves(g)
                              \/ ContextKillsEncoder(g) \/ EncoderChanges(g)
           \/ \E g \in Gens : Pick(g) \/ Silence(g) \/ DecoderFails(g) \/ StartDecoder(g)
                              \/ Register(g) \/ Announce(g) \/ Read(g) \/ ReadEnds(g)
                              \/ Forget(g) \/ Write(g) \/ NextRead(g)
           \/ \E a \in Skippers : Skip(a) \/ SkipKills(a)
           \/ Cancel \/ Tick \/ \E d \in Decs : ContextKills(d) \/ DecoderChanges(d)
  BY DEF Next, Supervise, PumpStep, Environment

-----------------------------------------------------------------------------
(* A watched decoder is still at hand and its end has not been read: only  *)
(* then may Forget drop it.                                                *)
Watched == \A g \in Gens : wd[g] => ~At(g, "ended")

Types == TypeOK /\ Watched

LEMMA TypesInit == Init => Types
  <1>. SUFFICES ASSUME Init PROVE Types
    OBVIOUS
  <1>. USE EngineAssumption DEF EngineAssumption, Init
  <1>1. TypeOK
    BY DEF TypeOK, Gens, Decs, None
  <1>2. Watched
    BY DEF Watched, Gens
  <1>. QED
    BY <1>1, <1>2 DEF Types

(* The supervisor and the output goroutine leave pumps and decoders alone. *)
LEMMA SupervisorTypes ==
    ASSUME Types, \/ StartEncoder \/ EncoderFails \/ OnCancel \/ OnEncoderDone
                  \/ OnCopyDone \/ Waited \/ Retry \/ Return \/ Cancel
    PROVE  Types'
  <1>. USE DEF Types
  <1>1. CASE StartEncoder
    <2>1. gen' \in Gens /\ gen' \in 0 .. MaxGens
      BY <1>1, EngineAssumption DEF StartEncoder, TypeOK, Gens, EngineAssumption
    <2>2. TypeOK'
      BY <1>1, <2>1 DEF StartEncoder, Go, TypeOK, decVars, skipVars
    <2>3. Watched'
      BY <1>1 DEF StartEncoder, Go, TypeOK, Watched, At, decVars
    <2>. QED
      BY <2>2, <2>3
  <1>2. CASE EncoderFails \/ Waited \/ Retry \/ Return \/ Cancel
    <2>1. TypeOK'
      BY <1>2 DEF EncoderFails, Waited, Retry, Return, Cancel, Go, TypeOK, pumpVars, decVars, skipVars
    <2>2. Watched'
      BY <1>2 DEF EncoderFails, Waited, Retry, Return, Cancel, Watched, At, pumpVars, decVars
    <2>. QED
      BY <2>1, <2>2
  <1>3. CASE OnCancel \/ OnEncoderDone \/ OnCopyDone
    <2>1. TypeOK'
      BY <1>3 DEF OnCancel, OnEncoderDone, OnCopyDone, Hangup, Go, TypeOK, pumpVars, decVars, skipVars
    <2>2. Watched'
      BY <1>3 DEF OnCancel, OnEncoderDone, OnCopyDone, Watched, At, pumpVars, decVars
    <2>. QED
      BY <2>1, <2>2
  <1>. QED
    BY <1>1, <1>2, <1>3

LEMMA PumpTypes ==
    ASSUME Types, NEW g \in Gens,
           \/ Pick(g) \/ Silence(g) \/ DecoderFails(g) \/ StartDecoder(g) \/ Register(g)
           \/ Announce(g) \/ Read(g) \/ ReadEnds(g) \/ Forget(g) \/ Write(g) \/ NextRead(g)
    PROVE  Types'
  <1>. USE DEF Types, At, Then
  <1>0. None \in 0 .. MaxDecoders /\ 0 \in 0 .. Timeout + 1
    BY EngineAssumption DEF None, EngineAssumption
  <1>1. CASE Pick(g) \/ Silence(g) \/ DecoderFails(g) \/ Announce(g) \/ Write(g) \/ NextRead(g)
    <2>1. /\ UNCHANGED <<supVars, trk, started, bound, decVars, curCmd, skipVars>>
          /\ \E pc \in {"nothing", "picked", "done", "writing", "top", "reading", "pausing"} :
                pump' = [pump EXCEPT ![g] = pc]
      BY <1>1 DEF Pick, Silence, DecoderFails, Announce, Write, NextRead
    <2>2. TypeOK'
      BY <2>1 DEF TypeOK, supVars, decVars, skipVars
    <2>3. Watched'
      BY <2>1 DEF TypeOK, Watched, decVars
    <2>. QED
      BY <2>2, <2>3
  <1>2. CASE StartDecoder(g)
    <2>1. /\ started' \in Decs /\ started' \in 0 .. MaxDecoders /\ started' # None
          /\ g \in 0 .. MaxGens
      BY <1>2, EngineAssumption DEF StartDecoder, TypeOK, Decs, Gens, None, EngineAssumption
    <2>2. TypeOK'
      BY <1>0, <1>2, <2>1 DEF StartDecoder, TypeOK, supVars, skipVars
    <2>3. Watched'
      BY <1>2 DEF StartDecoder, TypeOK, Watched
    <2>. QED
      BY <2>2, <2>3
  <1>3. CASE Register(g)
    <2>1. TypeOK'
      BY <1>3 DEF Register, TypeOK, supVars, decVars, skipVars
    <2>2. Watched'
      BY <1>3 DEF Register, TypeOK, Watched, decVars
    <2>. QED
      BY <2>1, <2>2
  <1>4. CASE Read(g)
    <2>1. \E pc \in {"reading", "writing", "done"} : pump' = [pump EXCEPT ![g] = pc]
      BY <1>4 DEF Read
    <2>2. TypeOK'
      BY <1>0, <1>4, <2>1 DEF Read, TypeOK, supVars, skipVars
    <2>3. Watched'
      BY <1>4, <2>1 DEF Read, TypeOK, Watched
    <2>. QED
      BY <2>2, <2>3
  <1>5. CASE ReadEnds(g)
    <2>1. TypeOK'
      BY <1>0, <1>5 DEF ReadEnds, TypeOK, supVars, skipVars
    <2>2. Watched'
      BY <1>5 DEF ReadEnds, TypeOK, Watched
    <2>. QED
      BY <2>1, <2>2
  <1>6. CASE Forget(g)
    <2>1. ~wd[g]
      BY <1>6 DEF Forget, Watched
    <2>2. TypeOK'
      BY <1>0, <1>6, <2>1 DEF Forget, TypeOK, supVars, decVars, skipVars
    <2>3. Watched'
      BY <1>6 DEF Forget, TypeOK, Watched, decVars
    <2>. QED
      BY <2>2, <2>3
  <1>. QED
    BY <1>1, <1>2, <1>3, <1>4, <1>5, <1>6

(* Kills, ticks and what ffmpeg does by itself. *)
LEMMA ProcessTypes ==
    ASSUME Types,
           \/ \E g \in Gens : OutEnds(g) \/ WatchdogFires(g) \/ WatchdogLeaves(g)
                              \/ ContextKillsEncoder(g) \/ EncoderChanges(g)
           \/ \E a \in Skippers : Skip(a) \/ SkipKills(a)
           \/ Tick \/ \E d \in Decs : ContextKills(d) \/ DecoderChanges(d)
    PROVE  Types'
  <1>. USE DEF Types, At
  <1>1. ASSUME NEW g \in Gens, OutEnds(g) \/ ContextKillsEncoder(g) \/ EncoderChanges(g) PROVE Types'
    <2>1. TypeOK'
      BY <1>1 DEF OutEnds, ContextKillsEncoder, EncoderChanges, TypeOK, pumpVars, decVars, skipVars
    <2>2. Watched'
      BY <1>1 DEF OutEnds, ContextKillsEncoder, EncoderChanges, Watched, pumpVars, decVars
    <2>. QED
      BY <2>1, <2>2
  <1>2. ASSUME NEW g \in Gens, WatchdogFires(g) \/ WatchdogLeaves(g) PROVE Types'
    <2>0. 0 \in 0 .. Timeout + 1
      BY EngineAssumption DEF EngineAssumption
    <2>1. TypeOK'
      BY <1>2, <2>0 DEF WatchdogFires, WatchdogLeaves, Kills, TypeOK, supVars, pumpVars, skipVars
    <2>2. Watched'
      BY <1>2 DEF WatchdogFires, WatchdogLeaves, TypeOK, Watched, pumpVars
    <2>. QED
      BY <2>1, <2>2
  <1>3. ASSUME NEW a \in Skippers, Skip(a) \/ SkipKills(a) PROVE Types'
    <2>0. None \in 0 .. MaxDecoders
      BY EngineAssumption DEF None, EngineAssumption
    <2>1. TypeOK'
      BY <1>3, <2>0 DEF Skip, SkipKills, Kills, TypeOK, None, supVars, pumpVars, decVars
    <2>2. Watched'
      BY <1>3 DEF Skip, SkipKills, Watched, pumpVars, decVars
    <2>. QED
      BY <2>1, <2>2
  <1>4. CASE Tick
    <2>1. \A g \in Gens : age[g] \in 0 .. Timeout + 1 /\ (age[g] <= Timeout => age[g] + 1 \in 0 .. Timeout + 1)
      BY EngineAssumption DEF TypeOK, EngineAssumption
    <2>2. TypeOK'
      BY <1>4, <2>1 DEF Tick, TypeOK, supVars, pumpVars, skipVars
    <2>3. Watched'
      BY <1>4 DEF Tick, Watched, pumpVars
    <2>. QED
      BY <2>2, <2>3
  <1>5. ASSUME NEW d \in Decs, ContextKills(d) \/ DecoderChanges(d) PROVE Types'
    <2>1. TypeOK'
      BY <1>5 DEF ContextKills, DecoderChanges, Kills, TypeOK, supVars, pumpVars, skipVars
    <2>2. Watched'
      BY <1>5 DEF ContextKills, DecoderChanges, Watched, pumpVars
    <2>. QED
      BY <2>1, <2>2
  <1>. QED
    BY <1>1, <1>2, <1>3, <1>4, <1>5

LEMMA TypesStep == Types /\ [Next]_vars => Types'
  <1>. SUFFICES ASSUME Types, [Next]_vars PROVE Types'
    OBVIOUS
  <1>1. CASE UNCHANGED vars
    BY <1>1 DEF Types, TypeOK, Watched, At, vars, supVars, pumpVars, decVars, skipVars
  <1>2. CASE Next
    BY <1>2, NextCases, SupervisorTypes, PumpTypes, ProcessTypes
  <1>. QED
    BY <1>1, <1>2

LEMMA TypesAlways == Spec => []Types
  BY TypesInit, TypesStep, PTL DEF Spec

(* Every reachable state of the engine has its type, and a watchdog only   *)
(* ever watches a decoder that is there.                                   *)
THEOREM TypeCorrect == Spec => []TypeOK
  <1>1. Types => TypeOK
    BY DEF Types
  <1>. QED
    BY <1>1, TypesAlways, PTL

-----------------------------------------------------------------------------
(* The goroutine that writes to the hub is the current encoder's, and Run  *)
(* starts or ends nothing before it is done.                               *)
Writer == \A g \in Gens : out[g] = "copying" =>
              g = gen /\ run \in {"select", "waitEncoder", "waitOut"}

LEMMA WriterStep == Types /\ Writer /\ [Next]_vars => Writer'
  <1>. SUFFICES ASSUME Types, Writer, [Next]_vars PROVE Writer'
    OBVIOUS
  <1>0. TypeOK
    BY DEF Types
  <1>1. CASE StartEncoder
    <2>1. /\ \A g \in Gens : out[g] # "copying"
          /\ gen' = gen + 1 /\ out' = [out EXCEPT ![gen'] = "copying"] /\ run' = "select"
      BY <1>1 DEF StartEncoder, Go, Writer
    <2>. QED
      BY <1>0, <2>1 DEF Writer, TypeOK
  <1>2. CASE EncoderFails \/ Retry \/ Return
    BY <1>2 DEF EncoderFails, Retry, Return, Go, Writer
  <1>3. CASE OnCancel \/ OnEncoderDone \/ OnCopyDone
    BY <1>3 DEF OnCancel, OnEncoderDone, OnCopyDone, Go, Writer
  <1>4. CASE Waited
    BY <1>4 DEF Waited, Go, Writer
  <1>5. ASSUME NEW g \in Gens, OutEnds(g) PROVE Writer'
    BY <1>0, <1>5 DEF OutEnds, TypeOK, Writer
  <1>6. CASE UNCHANGED <<run, gen, out>>
    BY <1>6 DEF Writer
  <1>7. ASSUME NEW g \in Gens,
               \/ Pick(g) \/ Silence(g) \/ DecoderFails(g) \/ StartDecoder(g) \/ Register(g)
               \/ Announce(g) \/ Read(g) \/ ReadEnds(g) \/ Forget(g) \/ Write(g) \/ NextRead(g)
        PROVE  UNCHANGED <<run, gen, out>>
    BY <1>7 DEF Pick, Silence, DecoderFails, StartDecoder, Register, Announce, Read,
                ReadEnds, Forget, Write, NextRead, supVars
  <1>8. ASSUME NEW g \in Gens, \/ WatchdogFires(g) \/ WatchdogLeaves(g)
                               \/ ContextKillsEncoder(g) \/ EncoderChanges(g)
        PROVE  UNCHANGED <<run, gen, out>>
    BY <1>8 DEF WatchdogFires, WatchdogLeaves, ContextKillsEncoder, EncoderChanges, supVars
  <1>9. ASSUME NEW a \in Skippers, Skip(a) \/ SkipKills(a) PROVE UNCHANGED <<run, gen, out>>
    BY <1>9 DEF Skip, SkipKills, supVars
  <1>10. ASSUME Cancel \/ Tick \/ \E d \in Decs : ContextKills(d) \/ DecoderChanges(d) PROVE UNCHANGED <<run, gen, out>>
    BY <1>10 DEF Cancel, Tick, ContextKills, DecoderChanges, supVars
  <1>11. ASSUME UNCHANGED vars PROVE UNCHANGED <<run, gen, out>>
    BY <1>11 DEF vars, supVars
  <1>. QED
    BY <1>1, <1>2, <1>3, <1>4, <1>5, <1>6, <1>7, <1>8, <1>9, <1>10, <1>11, NextCases

(* Over all restarts of the encoder the hub has one writer at a time. *)
THEOREM AlwaysOneWriter == Spec => []OneWriter
  <1>1. Init => Writer
    BY DEF Init, Writer
  <1>2. Writer => OneWriter
    <2>. SUFFICES ASSUME Writer PROVE OneWriter
      OBVIOUS
    <2>1. IsFiniteSet({gen}) /\ Cardinality({gen}) = 1
      BY FS_Singleton
    <2>2. {g \in Gens : out[g] = "copying"} \subseteq {gen}
      BY DEF Writer
    <2>. QED
      BY <2>1, <2>2, FS_Subset DEF OneWriter
  <1>. QED
    BY <1>1, <1>2, WriterStep, TypesAlways, PTL DEF Spec

-----------------------------------------------------------------------------
(* Nobody holds a decoder younger than the last one started, and a request *)
(* to skip none younger than the last one when it was made.                *)
Past ==
    /\ curCmd <= started
    /\ \A g \in Gens : trk[g] <= started
    /\ \A a \in Skippers : skip[a] <= asked[a]

LEMMA PastStep == Types /\ Past /\ [Next]_vars => Past'
  <1>. SUFFICES ASSUME Types, Past, [Next]_vars PROVE Past'
    OBVIOUS
  <1>0. /\ TypeOK /\ curCmd \in Nat /\ started \in Nat
        /\ \A g \in Gens : trk[g] \in Nat
    BY EngineAssumption DEF Types, TypeOK, EngineAssumption
  <1>1. ASSUME NEW g \in Gens, StartDecoder(g) PROVE Past'
    BY <1>0, <1>1 DEF StartDecoder, skipVars, Past, TypeOK
  <1>2. ASSUME NEW g \in Gens, Register(g) PROVE Past'
    BY <1>2 DEF Register, skipVars, Past
  <1>3. ASSUME NEW g \in Gens, Forget(g) PROVE Past'
    BY <1>0, <1>3 DEF Forget, skipVars, Past, TypeOK, None
  <1>4. ASSUME NEW a \in Skippers, Skip(a) PROVE Past'
    BY <1>0, <1>4 DEF Skip, pumpVars, Past, TypeOK
  <1>5. ASSUME NEW a \in Skippers, SkipKills(a) PROVE Past'
    BY <1>0, <1>5 DEF SkipKills, pumpVars, Past, TypeOK, None
  <1>6. CASE UNCHANGED <<curCmd, trk, started, skip, asked>>
    BY <1>6 DEF Past
  <1>7. ASSUME NEW g \in Gens,
               \/ Pick(g) \/ Silence(g) \/ DecoderFails(g) \/ Announce(g)
               \/ Read(g) \/ ReadEnds(g) \/ Write(g) \/ NextRead(g)
        PROVE  UNCHANGED <<curCmd, trk, started, skip, asked>>
    BY <1>7 DEF Pick, Silence, DecoderFails, Announce, Read, ReadEnds, Write, NextRead, skipVars
  <1>8. ASSUME NEW g \in Gens,
               \/ OutEnds(g) \/ WatchdogFires(g) \/ WatchdogLeaves(g)
               \/ ContextKillsEncoder(g) \/ EncoderChanges(g)
        PROVE  UNCHANGED <<curCmd, trk, started, skip, asked>>
    BY <1>8 DEF OutEnds, WatchdogFires, WatchdogLeaves, ContextKillsEncoder,
                EncoderChanges, pumpVars, skipVars
  <1>9. ASSUME \/ EncoderFails \/ OnCancel \/ OnEncoderDone \/ OnCopyDone \/ Waited \/ Retry
               \/ Return \/ StartEncoder \/ Cancel \/ Tick \/ \E d \in Decs : ContextKills(d) \/ DecoderChanges(d)
               \/ UNCHANGED vars
        PROVE  UNCHANGED <<curCmd, trk, started, skip, asked>>
    BY <1>9 DEF EncoderFails, OnCancel, OnEncoderDone, OnCopyDone, Waited, Retry, Return,
                StartEncoder, Cancel, Tick, ContextKills, DecoderChanges, vars, pumpVars, skipVars
  <1>. QED
    BY <1>1, <1>2, <1>3, <1>4, <1>5, <1>6, <1>7, <1>8, <1>9, NextCases

LEMMA SkipStep ==
    ASSUME Types, Past, [Next]_vars,
           NEW a \in Skippers, skip[a] # None, skip'[a] = None, NEW d \in Decs, d > asked[a]
    PROVE  dec'[d] = dec[d]
  <1>0. /\ TypeOK /\ skip[a] \in Nat /\ asked[a] \in Nat /\ d \in Nat /\ skip[a] <= asked[a]
    BY EngineAssumption DEF Types, TypeOK, Past, Decs, EngineAssumption
  <1>1. ASSUME UNCHANGED skip PROVE FALSE
    BY <1>1
  <1>2. ASSUME NEW b \in Skippers, Skip(b) PROVE FALSE
    BY <1>0, <1>2 DEF Skip, TypeOK
  <1>3. ASSUME NEW b \in Skippers, SkipKills(b) PROVE dec'[d] = dec[d]
    <2>1. b = a
      BY <1>0, <1>3 DEF SkipKills, TypeOK
    <2>2. skip[a] # d
      BY <1>0
    <2>. QED
      BY <1>0, <1>3, <2>1, <2>2 DEF SkipKills, Kills, TypeOK
  <1>4. ASSUME NEW g \in Gens,
               \/ Pick(g) \/ Silence(g) \/ DecoderFails(g) \/ StartDecoder(g) \/ Register(g)
               \/ Announce(g) \/ Read(g) \/ ReadEnds(g) \/ Forget(g) \/ Write(g) \/ NextRead(g)
        PROVE  FALSE
    BY <1>1, <1>4 DEF Pick, Silence, DecoderFails, StartDecoder, Register, Announce, Read,
                      ReadEnds, Forget, Write, NextRead, skipVars
  <1>5. ASSUME NEW g \in Gens,
               \/ OutEnds(g) \/ WatchdogFires(g) \/ WatchdogLeaves(g)
               \/ ContextKillsEncoder(g) \/ EncoderChanges(g)
        PROVE  FALSE
    BY <1>1, <1>5 DEF OutEnds, WatchdogFires, WatchdogLeaves, ContextKillsEncoder,
                      EncoderChanges, skipVars
  <1>6. ASSUME \/ EncoderFails \/ OnCancel \/ OnEncoderDone \/ OnCopyDone \/ Waited \/ Retry
               \/ Return \/ StartEncoder \/ Cancel \/ Tick \/ \E e \in Decs : ContextKills(e) \/ DecoderChanges(e)
               \/ UNCHANGED vars
        PROVE  FALSE
    BY <1>1, <1>6 DEF EncoderFails, OnCancel, OnEncoderDone, OnCopyDone, Waited, Retry, Return,
                      StartEncoder, Cancel, Tick, ContextKills, DecoderChanges, vars, skipVars
  <1>. QED
    BY <1>2, <1>3, <1>4, <1>5, <1>6, NextCases

(* A request to skip never cuts off a track that began after it was made.  *)
THEOREM AlwaysSkipHitsAsked == Spec => SkipHitsAsked
  <1>1. Init => Past
    <2>. SUFFICES ASSUME Init PROVE Past
      OBVIOUS
    <2>. QED
      BY DEF Init, Past, None
  <1>2. Types /\ Past /\ [Next]_vars =>
          [\A a \in Skippers : (skip[a] # None /\ skip'[a] = None)
              => \A d \in Decs : d > asked[a] => dec'[d] = dec[d]]_vars
    BY SkipStep
  <1>. QED
    BY <1>1, <1>2, PastStep, TypesAlways, PTL DEF Spec, SkipHitsAsked
=============================================================================
