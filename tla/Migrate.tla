------------------------------ MODULE Migrate ------------------------------
(***************************************************************************)
(* internal/storage/db.go, migrate: the version log schema_migrations, the *)
(* seeding of a database older than that log, and the loop that runs and   *)
(* records each missing migration.  Every Exec is its own transaction, so  *)
(* the process may die between any two.  A migration that fails makes Open *)
(* fail and the process exits; either way the next start migrates again.   *)
(***************************************************************************)
EXTENDS Naturals, FiniteSets

CONSTANTS
    Origins,     \* what databases there are at the first start
    MaxCrashes   \* bound: times the process dies

ASSUME MigrateAssumption ==
    /\ Origins \subseteq {"fresh", "legacy", "logged"}
    /\ MaxCrashes \in Nat

legacySchemaVersion == 7
Versions == 1 .. 10

(* What each statement adds to the schema; 8 drops what 2 added. *)
Adds(v) == CASE v = 1 -> "tracks"   [] v = 2 -> "idx_path"    [] v = 3 -> "art_tried"
             [] v = 4 -> "history"  [] v = 5 -> "idx_history" [] v = 6 -> "queue"
             [] v = 7 -> "settings" [] v = 9 -> "has_lyrics"  [] v = 10 -> "lyrics_tried"

Columns == {3, 9, 10}

Apply(v, objects) == IF v = 8 THEN objects \ {"idx_path"} ELSE objects \union {Adds(v)}

(* CREATE and DROP carry IF (NOT) EXISTS; ADD COLUMN fails on a column     *)
(* that is there; an index or a column needs its table.                    *)
Runs(v, objects) ==
    /\ v \in Columns => Adds(v) \notin objects
    /\ v \in Columns \union {2} => "tracks" \in objects
    /\ v = 5 => "history" \in objects

SchemaAfter(k) == {Adds(v) : v \in 1 .. k \ {8}} \ (IF k >= 8 THEN {"idx_path"} ELSE {})
Target == SchemaAfter(10)

VARIABLES
    schema,   \* objects of the database
    log,      \* versions recorded in schema_migrations
    pc,       \* "open", "detect", "seed", "loop", "record", "ok", "failed"
    v,        \* the migration at hand
    ran,      \* history: versions whose statement has run on this database
    origin,   \* history: what it was at the first start
    crashes,
    orphaned  \* history: died with migration 1 run and nothing recorded

vars == <<schema, log, pc, v, ran, origin, crashes, orphaned>>

(* Empty; as the releases before the version log left it; as a later       *)
(* release, with migrations 1..k, left it.                                 *)
Init ==
    /\ origin \in Origins
    /\ \E k \in CASE origin = "fresh" -> {0}
                 [] origin = "legacy" -> {legacySchemaVersion}
                 [] origin = "logged" -> legacySchemaVersion .. 10 :
         /\ schema = SchemaAfter(k) /\ ran = 1 .. k
         /\ log = IF origin = "logged" THEN 1 .. k ELSE {}
    /\ pc = "open" /\ v = 1 /\ crashes = 0 /\ orphaned = FALSE

(* Mutant: legacy databases are not detected. *)
LooksLegacy_Never == FALSE

(* The two counts that detect a database older than the log. *)
LooksLegacy == "tracks" \in schema /\ log = {}

(* CREATE TABLE IF NOT EXISTS schema_migrations. *)
CreateLog ==
    /\ pc = "open"
    /\ pc' = "detect"
    /\ UNCHANGED <<schema, log, v, ran, origin, crashes, orphaned>>

Detect ==
    /\ pc = "detect"
    /\ pc' = IF LooksLegacy THEN "seed" ELSE "loop"
    /\ UNCHANGED <<schema, log, v, ran, origin, crashes, orphaned>>

(* Mutant: every migration is seeded, also the later ones. *)
Seed_All ==
    /\ pc = "seed"
    /\ IF v \in Versions
         THEN log' = log \union {v} /\ v' = v + 1 /\ UNCHANGED pc
         ELSE pc' = "loop" /\ v' = 1 /\ UNCHANGED log
    /\ UNCHANGED <<schema, ran, origin, crashes, orphaned>>

Seed ==
    /\ pc = "seed"
    /\ IF v <= legacySchemaVersion
         THEN log' = log \union {v} /\ v' = v + 1 /\ UNCHANGED pc
         ELSE pc' = "loop" /\ v' = 1 /\ UNCHANGED log
    /\ UNCHANGED <<schema, ran, origin, crashes, orphaned>>

Skip ==
    /\ pc = "loop" /\ v \in log
    /\ v' = v + 1
    /\ UNCHANGED <<schema, log, pc, ran, origin, crashes, orphaned>>

Exec ==
    /\ pc = "loop" /\ v \in Versions \ log
    /\ IF Runs(v, schema)
         THEN schema' = Apply(v, schema) /\ ran' = ran \union {v} /\ pc' = "record"
         ELSE pc' = "failed" /\ UNCHANGED <<schema, ran>>
    /\ UNCHANGED <<log, v, origin, crashes, orphaned>>

Record ==
    /\ pc = "record"
    /\ log' = log \union {v}
    /\ v' = v + 1
    /\ pc' = "loop"
    /\ UNCHANGED <<schema, ran, origin, crashes, orphaned>>

Done ==
    /\ pc = "loop" /\ v \notin Versions
    /\ pc' = "ok"
    /\ UNCHANGED <<schema, log, v, ran, origin, crashes, orphaned>>

(* Every start after the first; the database keeps what was committed. *)
Start == pc' = "open" /\ v' = 1 /\ UNCHANGED <<schema, log, ran, origin>>

Crash ==
    /\ pc \in {"open", "detect", "seed", "loop", "record"}
    /\ crashes < MaxCrashes
    /\ crashes' = crashes + 1
    /\ orphaned' = (orphaned \/ (origin = "fresh" /\ pc = "record" /\ v = 1))
    /\ Start

StartAgain == pc \in {"ok", "failed"} /\ Start /\ UNCHANGED <<crashes, orphaned>>

Migrating == CreateLog \/ Detect \/ Seed \/ Skip \/ Exec \/ Record \/ Done

Next == Migrating \/ Crash \/ StartAgain

(* Open runs migrate to its end unless the process dies. *)
Spec == Init /\ [][Next]_vars /\ WF_vars(Migrating)

-----------------------------------------------------------------------------
(* When Open succeeds the database has the whole schema the code queries,  *)
(* whatever it was before and wherever the process died while it was       *)
(* migrated or seeded (comments at db.go:42-45 and 109-111: nothing is     *)
(* skipped on a legacy database, nothing is seeded that has not run).  A   *)
(* start may fail for good instead (see NoFailedStart); the one crash that *)
(* lets an incomplete database open is that of a first start between the   *)
(* Exec of migration 1 and its record, which leaves what looks legacy.     *)
OpenedIsComplete == (~orphaned /\ pc = "ok") => schema = Target /\ log = Versions

(* The version log never runs ahead of the schema: wherever the process    *)
(* died, but for that one crash, a recorded migration has run on this      *)
(* database, so none is skipped for ever.                                  *)
LoggedHasRun == ~orphaned => log \subseteq ran

(* Without a crash every start ends with an opened database, the first and *)
(* every later one: no migration fails, none is run twice.                 *)
EventuallyOpen == []<>(pc = "ok" \/ crashes > 0)

(* Comment at db.go:98-101: the log keeps the non-idempotent ALTER TABLE   *)
(* statements from running again.                                          *)
NoFailedStart == pc # "failed"
=============================================================================
