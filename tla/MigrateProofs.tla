--------------------------- MODULE MigrateProofs ---------------------------
(***************************************************************************)
(* Proofs that the version log never runs ahead of the schema, and that a  *)
(* database Open returns is complete, whatever it was before and wherever  *)
(* the process died, but for one crash: that of a first start between the  *)
(* Exec of migration 1 and its record.                                     *)
(***************************************************************************)
EXTENDS Migrate, TLAPS

Legacy == 1 .. legacySchemaVersion

(* What has run before the log knows of it: the migration at hand, or all  *)
(* those a legacy database has, which are about to be seeded.  Only a      *)
(* database with tracks and an empty log is taken for one, and a fresh one *)
(* has that only between its first Exec and its Record; a crash there      *)
(* orphans it.                                                             *)
LogIsBehind ==
    /\ v \in Nat /\ v >= 1 /\ orphaned \in BOOLEAN
    /\ pc \in {"open", "detect"} => v = 1
    /\ origin # "fresh" => Legacy \subseteq ran
    /\ pc \in {"loop", "record"} => 1 .. v - 1 \subseteq log
    /\ ~orphaned =>
         /\ log \subseteq ran
         /\ pc = "record" => v \in ran
         /\ pc = "seed" => Legacy \subseteq ran
         /\ LooksLegacy /\ pc # "record" => Legacy \subseteq ran

LEMMA LogIsBehindInit == Init => LogIsBehind
  <1>. SUFFICES ASSUME Init PROVE LogIsBehind
    OBVIOUS
  <1>1. /\ origin \in {"fresh", "legacy", "logged"} /\ pc = "open" /\ v = 1
        /\ orphaned \in BOOLEAN
    BY MigrateAssumption DEF Init, MigrateAssumption
  <1>2. CASE origin = "fresh"
    <2>1. ran = 1 .. 0 /\ log = {} /\ schema = SchemaAfter(0)
      BY <1>2 DEF Init
    <2>2. "tracks" \notin schema
      <3>1. 1 .. 0 \ {8} = {}
        OBVIOUS
      <3>. QED
        BY <2>1, <3>1 DEF SchemaAfter
    <2>. QED
      BY <1>1, <1>2, <2>1, <2>2 DEF LogIsBehind, LooksLegacy
  <1>3. CASE origin = "legacy"
    <2>1. ran = 1 .. legacySchemaVersion /\ log = {}
      BY <1>3 DEF Init
    <2>. QED
      BY <1>1, <1>3, <2>1 DEF LogIsBehind, Legacy
  <1>4. CASE origin = "logged"
    <2>1. PICK k \in legacySchemaVersion .. 10 : ran = 1 .. k /\ log = 1 .. k
      BY <1>4 DEF Init
    <2>2. Legacy \subseteq ran
      BY <2>1 DEF Legacy, legacySchemaVersion
    <2>. QED
      BY <1>1, <1>4, <2>1, <2>2 DEF LogIsBehind, LooksLegacy
  <1>. QED
    BY <1>1, <1>2, <1>3, <1>4

LEMMA LogIsBehindStep == LogIsBehind /\ [Next]_vars => LogIsBehind'
  <1>. SUFFICES ASSUME LogIsBehind, [Next]_vars PROVE LogIsBehind'
    OBVIOUS
  <1>. USE DEF LogIsBehind
  <1>1. CASE CreateLog \/ Skip \/ Done
    BY <1>1 DEF CreateLog, Skip, Done, LooksLegacy
  <1>2. CASE Detect
    <2>1. v' = v /\ log' = log /\ (pc' = "loop" => v = 1)
      BY <1>2 DEF Detect
    <2>. QED
      BY <1>2, <2>1 DEF Detect, LooksLegacy
  <1>3. CASE Seed
    <2>1. CASE v <= legacySchemaVersion
      <3>1. v \in Legacy
        BY <2>1 DEF Legacy, legacySchemaVersion
      <3>2. /\ log' = log \union {v} /\ v' = v + 1 /\ pc' = "seed" /\ pc = "seed"
            /\ UNCHANGED <<ran, origin, orphaned>>
        BY <1>3, <2>1 DEF Seed
      <3>3. log' # {}
        BY <3>2
      <3>4. ~orphaned' => log' \subseteq ran'
        BY <3>1, <3>2
      <3>. QED
        BY <3>2, <3>3, <3>4 DEF LooksLegacy
    <2>2. CASE ~(v <= legacySchemaVersion)
      BY <1>3, <2>2 DEF Seed, LooksLegacy
    <2>. QED
      BY <2>1, <2>2
  <1>4. CASE Exec
    BY <1>4 DEF Exec, LooksLegacy
  <1>5. CASE Record
    BY <1>5 DEF Record, LooksLegacy
  <1>6. CASE Crash
    <2>1. CASE pc = "record" /\ log = {}
      <3>1. v = 1
        BY <2>1
      <3>2. ~orphaned' => ~orphaned /\ Legacy \subseteq ran
        BY <1>6, <2>1, <3>1 DEF Crash
      <3>3. /\ pc' = "open" /\ v' = 1 /\ UNCHANGED <<schema, log, ran, origin>>
            /\ orphaned' \in BOOLEAN
        BY <1>6 DEF Crash, Start
      <3>. QED
        BY <3>2, <3>3
    <2>2. CASE ~(pc = "record" /\ log = {})
      <3>1. ~orphaned' => ~orphaned
        BY <1>6 DEF Crash
      <3>2. /\ pc' = "open" /\ v' = 1 /\ UNCHANGED <<schema, log, ran, origin>>
            /\ orphaned' \in BOOLEAN
        BY <1>6 DEF Crash, Start
      <3>. QED
        BY <2>2, <3>1, <3>2 DEF LooksLegacy
    <2>. QED
      BY <2>1, <2>2
  <1>7. CASE StartAgain
    BY <1>7 DEF StartAgain, Start, LooksLegacy
  <1>8. CASE UNCHANGED vars
    BY <1>8 DEF vars, LooksLegacy
  <1>. QED
    BY <1>1, <1>2, <1>3, <1>4, <1>5, <1>6, <1>7, <1>8 DEF Next, Migrating

(* A recorded migration has run on this database, so none is skipped for   *)
(* ever: whatever the database was and wherever the process died, but for  *)
(* a first start between the Exec of migration 1 and its record.           *)
THEOREM AlwaysLoggedHasRun == Spec => []LoggedHasRun
  <1>1. LogIsBehind => LoggedHasRun
    BY DEF LogIsBehind, LoggedHasRun
  <1>. QED
    BY <1>1, LogIsBehindInit, LogIsBehindStep, PTL DEF Spec
-----------------------------------------------------------------------------
(* The schema is the one migrations 1..k leave, the log holds 1..m, and    *)
(* the two differ only while a migration waits to be recorded, after a     *)
(* crash that kept one from being recorded, and while a legacy database is *)
(* seeded, or was when the process died; after a crash something is        *)
(* recorded, so that the database is not taken for a legacy one.           *)
Agrees(k, m) ==
    /\ schema = SchemaAfter(k) /\ log = 1 .. m
    /\ origin # "fresh" => k >= legacySchemaVersion
    /\ \/ m = k /\ pc \notin {"record", "seed"}
       \/ m + 1 = k /\ pc = "record"
       \/ (m + 1 = k \/ k = legacySchemaVersion) /\ m >= 1 /\ m < k /\ pc # "seed"
       \/ k = legacySchemaVersion /\ m = 0 /\ pc \in {"open", "detect"}
       \/ k = legacySchemaVersion /\ m + 1 = v /\ pc = "seed"
    /\ pc \in {"loop", "ok"} => v <= m + 1
    /\ pc = "record" => v = m + 1

SchemaIsLogged ==
    /\ v \in Nat /\ v >= 1 /\ orphaned \in BOOLEAN
    /\ pc = "ok" => v > 10
    /\ pc \in {"open", "detect"} => v = 1
    /\ ~orphaned => \E k \in 0 .. 10 : \E m \in 0 .. k : Agrees(k, m)

(* Each migration makes of the schema before it the one after it, and one  *)
(* that runs again, as the last of the schema or on a legacy one, changes  *)
(* nothing.                                                                *)
LEMMA Migrated == ASSUME NEW k \in 1 .. 10 PROVE Apply(k, SchemaAfter(k - 1)) = SchemaAfter(k)
  <1>1. CASE k < 8
    <2>1. 1 .. k \ {8} = (1 .. k - 1 \ {8}) \union {k}
      BY <1>1
    <2>. QED
      BY <1>1, <2>1 DEF Apply, SchemaAfter
  <1>2. CASE k = 8
    <2>1. 1 .. 8 \ {8} = 1 .. 7 \ {8}
      OBVIOUS
    <2>. QED
      BY <1>2, <2>1 DEF Apply, SchemaAfter
  <1>3. CASE k > 8
    <2>1. 1 .. k \ {8} = (1 .. k - 1 \ {8}) \union {k}
      BY <1>3
    <2>2. Adds(k) # "idx_path"
      BY <1>3 DEF Adds
    <2>. QED
      BY <1>3, <2>1, <2>2 DEF Apply, SchemaAfter
  <1>. QED
    BY <1>1, <1>2, <1>3

LEMMA MigratedAgain ==
    ASSUME NEW k \in 1 .. 10, NEW u \in 1 .. k, u = k \/ k <= legacySchemaVersion
    PROVE  Apply(u, SchemaAfter(k)) = SchemaAfter(k)
  <1>1. CASE u = 8
    <2>1. k >= 8
      BY <1>1 DEF legacySchemaVersion
    <2>. QED
      BY <1>1, <2>1 DEF Apply, SchemaAfter
  <1>2. CASE u # 8
    <2>1. u \in 1 .. k \ {8}
      BY <1>2
    <2>2. k >= 8 => Adds(u) # "idx_path"
      <3>1. k >= 8 => u \in 9 .. 10
        BY <1>2 DEF legacySchemaVersion
      <3>. QED
        BY <3>1 DEF Adds
    <2>3. Adds(u) \in SchemaAfter(k)
      BY <2>1, <2>2 DEF SchemaAfter
    <2>. QED
      BY <1>2, <2>3 DEF Apply
  <1>. QED
    BY <1>1, <1>2

(* The tracks are there after migration 1. *)
LEMMA HasTracks == ASSUME NEW k \in 0 .. 10 PROVE "tracks" \in SchemaAfter(k) <=> k >= 1
  <1>1. CASE k = 0
    <2>1. 1 .. 0 \ {8} = {}
      OBVIOUS
    <2>. QED
      BY <1>1, <2>1 DEF SchemaAfter
  <1>2. CASE k >= 1
    <2>1. 1 \in 1 .. k \ {8} /\ Adds(1) = "tracks" /\ "tracks" # "idx_path"
      BY <1>2 DEF Adds
    <2>. QED
      BY <1>2, <2>1 DEF SchemaAfter
  <1>. QED
    BY <1>1, <1>2

LEMMA SchemaIsLoggedInit == Init => SchemaIsLogged
  <1>. SUFFICES ASSUME Init PROVE SchemaIsLogged
    OBVIOUS
  <1>1. /\ origin \in {"fresh", "legacy", "logged"} /\ pc = "open" /\ v = 1
        /\ orphaned \in BOOLEAN
    BY MigrateAssumption DEF Init, MigrateAssumption
  <1>2. CASE origin = "fresh"
    <2>1. schema = SchemaAfter(0) /\ log = 1 .. 0
      BY <1>2 DEF Init
    <2>2. Agrees(0, 0)
      BY <1>1, <1>2, <2>1 DEF Agrees
    <2>. QED
      BY <1>1, <2>2 DEF SchemaIsLogged
  <1>3. CASE origin = "legacy"
    <2>1. schema = SchemaAfter(7) /\ log = 1 .. 0
      BY <1>3 DEF Init, legacySchemaVersion
    <2>2. Agrees(7, 0)
      BY <1>1, <1>3, <2>1 DEF Agrees, legacySchemaVersion
    <2>. QED
      BY <1>1, <2>2 DEF SchemaIsLogged
  <1>4. CASE origin = "logged"
    <2>1. PICK k \in 7 .. 10 : schema = SchemaAfter(k) /\ log = 1 .. k
      BY <1>4 DEF Init, legacySchemaVersion
    <2>2. Agrees(k, k)
      BY <1>1, <2>1 DEF Agrees, legacySchemaVersion
    <2>. QED
      BY <1>1, <2>2 DEF SchemaIsLogged
  <1>. QED
    BY <1>1, <1>2, <1>3, <1>4

LEMMA SchemaIsLoggedStep == SchemaIsLogged /\ [Next]_vars => SchemaIsLogged'
  <1>. SUFFICES ASSUME SchemaIsLogged, [Next]_vars PROVE SchemaIsLogged'
    OBVIOUS
  <1>1. /\ v' \in Nat /\ v' >= 1 /\ orphaned' \in BOOLEAN
        /\ pc' = "ok" => v' > 10
        /\ pc' \in {"open", "detect"} => v' = 1
    <2>1. CASE Crash
      BY <2>1 DEF Crash, Start
    <2>2. CASE ~Crash
      <3>1. orphaned' = orphaned
        BY <2>2 DEF Next, Migrating, CreateLog, Detect, Seed, Skip, Exec, Record, Done, StartAgain,
           Start, vars
      <3>2. /\ v' \in Nat /\ v' >= 1
            /\ pc' = "ok" => v' > 10
            /\ pc' \in {"open", "detect"} => v' = 1
        BY <2>2 DEF SchemaIsLogged, Next, Migrating, CreateLog, Detect, Seed, Skip, Exec, Record,
           Done, StartAgain, Start, vars, Versions
      <3>. QED
        BY <3>1, <3>2 DEF SchemaIsLogged
    <2>. QED
      BY <2>1, <2>2
  <1>. SUFFICES ASSUME ~orphaned' PROVE (\E k \in 0 .. 10 : \E m \in 0 .. k : Agrees(k, m))'
    BY <1>1 DEF SchemaIsLogged
  <1>2. /\ ~orphaned /\ origin' = origin
        /\ Crash => ~(origin = "fresh" /\ pc = "record" /\ v = 1)
    <2>1. CASE Crash
      BY <2>1 DEF Crash, Start, SchemaIsLogged
    <2>2. CASE ~Crash
      BY <2>2 DEF Next, Migrating, CreateLog, Detect, Seed, Skip, Exec, Record, Done, StartAgain,
         Start, vars
    <2>. QED
      BY <2>1, <2>2
  <1>0. PICK k \in 0 .. 10 : \E m \in 0 .. k : Agrees(k, m)
    BY <1>2 DEF SchemaIsLogged
  <1>3. PICK m \in 0 .. k : Agrees(k, m)
    BY <1>0
  <1>. USE DEF Agrees, legacySchemaVersion
  <1>4. CASE CreateLog \/ Skip \/ Done
    <2>1. Agrees(k, m)'
      BY <1>2, <1>3, <1>4 DEF CreateLog, Skip, Done, SchemaIsLogged
    <2>. QED
      BY <2>1
  <1>5. CASE Detect
    <2>0. log = {} <=> m = 0
      BY <1>3
    <2>1. LooksLegacy => k = 7 /\ m = 0
      BY <1>3, <1>5, <2>0, HasTracks DEF LooksLegacy, Detect
    <2>2. ~LooksLegacy => ~(k = 7 /\ m = 0)
      BY <1>3, <2>0, HasTracks DEF LooksLegacy
    <2>3. v = 1
      BY <1>5 DEF SchemaIsLogged, Detect
    <2>4. Agrees(k, m)'
      <3>1. CASE LooksLegacy
        BY <1>3, <1>5, <2>1, <2>3, <3>1 DEF Detect
      <3>2. CASE ~LooksLegacy
        BY <1>3, <1>5, <2>2, <2>3, <3>2 DEF Detect
      <3>. QED
        BY <3>1, <3>2
    <2>. QED
      BY <2>4
  <1>6. CASE Seed
    <2>1. k = 7 /\ m + 1 = v /\ pc = "seed"
      BY <1>3, <1>6 DEF Seed
    <2>2. CASE v <= 7
      <3>1. m + 1 \in 0 .. k /\ 1 .. m + 1 = 1 .. m \union {v}
        BY <2>1, <2>2
      <3>2. /\ log' = log \union {v} /\ v' = v + 1 /\ pc' = pc
            /\ UNCHANGED <<schema, origin>>
        BY <1>6, <2>2 DEF Seed
      <3>3. log = 1 .. m
        BY <1>3
      <3>4. /\ log' = 1 .. m + 1 /\ v' = m + 2 /\ pc' = "seed"
            /\ UNCHANGED <<schema, origin>>
        BY <2>1, <3>1, <3>2, <3>3
      <3>5. schema = SchemaAfter(k)
        BY <1>3
      <3>6. Agrees(k, m + 1)'
        BY <2>1, <3>4, <3>5
      <3>. QED
        BY <3>1, <3>6
    <2>3. CASE v = 8
      <3>1. Agrees(k, m)'
        BY <1>3, <1>6, <2>1, <2>3 DEF Seed
      <3>. QED
        BY <3>1
    <2>. QED
      BY <2>1, <2>2, <2>3
  <1>7. CASE Exec
    <2>1. v = m + 1 /\ v \in 1 .. 10 /\ pc = "loop"
      BY <1>3, <1>7 DEF Exec, Versions, SchemaIsLogged
    <2>2. CASE ~Runs(v, schema)
      <3>1. Agrees(k, m)'
        BY <1>2, <1>3, <1>7, <2>1, <2>2 DEF Exec
      <3>. QED
        BY <3>1
    <2>3. CASE Runs(v, schema) /\ k = m
      <3>1. m + 1 \in 0 .. 10 /\ m \in 0 .. m + 1 /\ schema' = SchemaAfter(m + 1)
        BY <1>3, <1>7, <2>1, <2>3, Migrated DEF Exec
      <3>2. Agrees(m + 1, m)'
        BY <1>3, <1>7, <2>1, <2>3, <3>1 DEF Exec
      <3>. QED
        BY <3>1, <3>2
    <2>4. CASE Runs(v, schema) /\ k # m
      <3>1. m >= 1 /\ m < k /\ (m + 1 = k \/ k = 7)
        BY <1>3, <2>1, <2>4
      <3>2. Apply(v, schema) = schema
        BY <1>3, <2>1, <3>1, MigratedAgain
      <3>3. /\ schema' = schema /\ pc' = "record" /\ UNCHANGED <<log, v, origin>>
        BY <1>7, <2>4, <3>2 DEF Exec
      <3>4. Agrees(k, m)'
        BY <1>3, <2>1, <3>1, <3>3
      <3>. QED
        BY <3>4
    <2>. QED
      BY <1>3, <2>1, <2>2, <2>3, <2>4
  <1>8. CASE Record
    <2>1. v = m + 1 /\ m + 1 \in 0 .. k /\ (m + 1 = k \/ k = 7)
      BY <1>3, <1>8 DEF Record
    <2>2. 1 .. m + 1 = 1 .. m \union {v}
      BY <2>1
    <2>3. Agrees(k, m + 1)'
      BY <1>3, <1>8, <2>1, <2>2 DEF Record
    <2>. QED
      BY <2>1, <2>3
  <1>9. CASE Crash \/ StartAgain
    <2>1. Agrees(k, m)'
      BY <1>2, <1>3, <1>9 DEF Crash, StartAgain, Start, SchemaIsLogged
    <2>. QED
      BY <2>1
  <1>10. CASE UNCHANGED vars
    <2>1. Agrees(k, m)'
      BY <1>3, <1>10 DEF vars
    <2>. QED
      BY <2>1
  <1>. QED
    BY <1>4, <1>5, <1>6, <1>7, <1>8, <1>9, <1>10 DEF Next, Migrating

(* Agrees leaves one way for Open to have come to its end: everything has  *)
(* run and is recorded.                                                    *)
LEMMA OpenedIsCompleteIfLogged == SchemaIsLogged => OpenedIsComplete
  <1>. SUFFICES ASSUME SchemaIsLogged, ~orphaned, pc = "ok" PROVE schema = Target /\ log = Versions
    BY DEF OpenedIsComplete
  <1>1. PICK k \in 0 .. 10 : \E m \in 0 .. k : Agrees(k, m)
    BY DEF SchemaIsLogged
  <1>2. PICK m \in 0 .. k : Agrees(k, m)
    BY <1>1
  <1>. QED
    BY <1>2 DEF Agrees, SchemaIsLogged, Target, Versions

(* When Open succeeds the database has the whole schema and its log every  *)
(* version, whatever it was before and however often the process died, in  *)
(* the migrations or among the seed rows, but for a first start between    *)
(* the Exec of migration 1 and its record.                                 *)
THEOREM AlwaysOpenedIsComplete == Spec => []OpenedIsComplete
  <1>. QED
    BY SchemaIsLoggedInit, SchemaIsLoggedStep, OpenedIsCompleteIfLogged, PTL DEF Spec

=============================================================================
