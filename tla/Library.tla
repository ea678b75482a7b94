------------------------------ MODULE Library ------------------------------
(***************************************************************************)
(* internal/playlist/library.go: the tracks in memory and in the database  *)
(* follow the files of the music directory.  The first scan loads the      *)
(* rows, visits every file and removes what it did not see; then Watch     *)
(* turns file events into debounced callbacks, one timer per path.  Timers *)
(* do not wait for callbacks, so callbacks overlap; files change at any    *)
(* moment.  A file's content is its version; its (size, mtime) and its     *)
(* tags are the version they were read from, and every write gives it a    *)
(* new (size, mtime).  Art and lyrics, symbolic links and paths that are   *)
(* no audio files are left out; queue rows are in Scheduler.               *)
(***************************************************************************)
EXTENDS Naturals, Functions

CONSTANTS
    Paths,       \* audio files of the music directory
    Inside,      \* those in its one subdirectory
    Scan,        \* the goroutine of InitialScan
    Callbacks,   \* goroutines of fired timers: as many run at once
    MaxChanges, \* bound: changes to files
    MaxIds,      \* bound: tracks ever inserted
    MaxFaults,   \* bound: calls that fail
    MaxCrashes   \* bound: times the process dies

ASSUME LibraryAssumption ==
    /\ Inside \subseteq Paths
    /\ Scan \notin Callbacks
    /\ MaxChanges \in Nat \ {0} /\ MaxIds \in Nat /\ MaxFaults \in Nat /\ MaxCrashes \in Nat

VARIABLES
    disk,       \* path -> version of the file, 0 when there is none
    dir,        \* the subdirectory exists
    clock,      \* changes so far, and the version of a file written now
    left,       \* history: <<path, version>> a file has been moved away from
    rows,       \* table tracks: id -> track
    lastId,     \* AUTOINCREMENT
    byPath, byID,       \* path -> id of its track, id -> track
    phase,      \* "down", "scan", "watch"
    todo, seen, \* of the scan: paths to visit, files found
    watched,    \* the subdirectory has a watch
    events, newDir,     \* events not handled: of files, of the subdirectory
    timers,     \* paths with a pending timer
    work,       \* what each goroutine is doing
    excused,    \* history: paths the code does not promise to follow
    risked,     \* history: paths whose row the code may delete though the file is there
    misread,    \* history: paths whose file, as it is, could not be opened or parsed once
    wasGone,    \* history: paths without a file at some time since INSERT
    faults, crashes

files == <<disk, dir, clock, left>>
table == <<rows, lastId>>
maps == <<byPath, byID>>
scan == <<phase, todo, seen>>
watch == <<watched, events, newDir, timers>>
past == <<excused, risked, misread, wasGone>>
bounds == <<faults, crashes>>
vars == <<files, table, maps, scan, watch, work, past, bounds>>

Workers == {Scan} \union Callbacks
Versions == 0 .. MaxChanges
Ids == 1 .. MaxIds
Track == [path : Paths, stamp : Versions, tags : Versions]
Steps == {"stat", "find", "delete", "unmap", "check", "lookup", "tags", "update", "set",
          "insert", "map"}
Idle == [pc |-> "idle"]

With(f, x, y) == [z \in DOMAIN f \union {x} |-> IF z = x THEN y ELSE f[z]]
Without(f, x) == Restrict(f, DOMAIN f \ {x})
Empty == [x \in {} |-> x]

Init ==
    /\ disk \in [Paths -> {0, 1}] /\ dir \in BOOLEAN /\ clock = 1 /\ left = {}
    /\ \A p, q \in Paths : disk[p] # 0 /\ disk[q] # 0 => p = q
    /\ \A p \in Inside : disk[p] # 0 => dir
    /\ rows = Empty /\ lastId = 0
    /\ byPath = Empty /\ byID = Empty
    /\ phase = "down" /\ todo = {} /\ seen = {}
    /\ watched = FALSE /\ events = {} /\ newDir = FALSE /\ timers = {}
    /\ work = [w \in Workers |-> Idle]
    /\ excused = {} /\ risked = {} /\ misread = {} /\ wasGone = {}
    /\ faults = 0 /\ crashes = 0

---------------------------------------------------------------------------
(* The file system.                                                        *)

(* The kernel reports a change to a path with a watch.  A change between   *)
(* the walk and the watch, or in a directory without one, is not reported. *)
Notify(S) ==
    LET told == {p \in S : phase = "watch" /\ (p \in Inside => watched)} IN
    /\ events' = events \union told
    /\ excused' = IF phase = "down" THEN excused ELSE excused \union (S \ told)

Becomes(files_) ==
    /\ clock < MaxChanges /\ clock' = clock + 1
    /\ disk' = files_
    /\ misread' = {p \in misread : files_[p] = disk[p]}
    /\ wasGone' = wasGone \union {p \in Paths : disk[p] # 0 /\ files_[p] = 0}
    /\ UNCHANGED <<table, maps, scan, timers, work, risked, bounds>>

Write(p) ==
    /\ p \in Inside => dir
    /\ Becomes([disk EXCEPT ![p] = clock + 1]) /\ Notify({p})
    /\ UNCHANGED <<dir, left, watched, newDir>>

Remove(p) ==
    /\ disk[p] # 0
    /\ Becomes([disk EXCEPT ![p] = 0]) /\ Notify({p})
    /\ UNCHANGED <<dir, left, watched, newDir>>

(* No file comes back to a path it has left.                               *)
Move(p, q) ==
    /\ p # q /\ disk[p] # 0
    /\ q \in Inside => dir
    /\ <<q, disk[p]>> \notin left
    /\ left' = left \union {<<p, disk[p]>>}
    /\ Becomes([disk EXCEPT ![q] = disk[p], ![p] = 0]) /\ Notify({p, q})
    /\ UNCHANGED <<dir, watched, newDir>>

(* The subdirectory is made, or moved in with a file, which gets no event. *)
DirAppears(S) ==
    /\ ~dir /\ dir' = TRUE
    /\ newDir' = (newDir \/ phase = "watch")
    /\ Becomes([p \in Paths |-> IF p \in S THEN clock + 1 ELSE disk[p]]) /\ Notify(S)
    /\ UNCHANGED <<left, watched>>

(* It is removed, or moved out with its files, which get no event either.  *)
DirVanishes ==
    /\ dir /\ dir' = FALSE /\ watched' = FALSE
    /\ Becomes([p \in Paths |-> IF p \in Inside THEN 0 ELSE disk[p]])
    /\ excused' = IF phase = "down" THEN excused
                  ELSE excused \union {p \in Inside : disk[p] # 0}
    /\ UNCHANGED <<left, events, newDir>>

(* The kernel's queue overflows.                                           *)
Overflow ==
    /\ faults < MaxFaults /\ faults' = faults + 1
    /\ events # {} \/ newDir
    /\ events' = {} /\ newDir' = FALSE
    /\ excused' = excused \union events
    /\ UNCHANGED <<files, table, maps, scan, watched, timers, work, risked, misread, wasGone, crashes>>

---------------------------------------------------------------------------
(* upsertFile and removeTrack, by whichever goroutine w runs them.         *)

At(w, pc) == work[w].pc = pc
Begin(w, r) == work' = [work EXCEPT ![w] = r]
Return(w) == Begin(w, Idle)
Fails == faults < MaxFaults /\ faults' = faults + 1
Works == faults' = faults
GiveUp(w) == excused' = excused \union {work[w].path}

Check(w) ==
    LET p == work[w].path IN
    /\ At(w, "check")
    /\ \/ /\ Works /\ UNCHANGED excused
          /\ Begin(w, IF disk[p] = 0 THEN Idle
                      ELSE [pc |-> "lookup", path |-> p, stamp |-> disk[p]])
       \/ Fails /\ Return(w) /\ GiveUp(w)
    /\ UNCHANGED <<files, table, maps, scan, watch, risked, misread, wasGone, crashes>>

(* Id 0: the path is not known.                                            *)
Lookup(w) ==
    LET p == work[w].path
        id == IF p \in DOMAIN byPath THEN byPath[p] ELSE 0 IN
    /\ At(w, "lookup")
    /\ IF id # 0 /\ byID[id].stamp = work[w].stamp
       THEN Return(w)
       ELSE Begin(w, [pc |-> "tags", path |-> p, stamp |-> work[w].stamp, id |-> id])
    /\ UNCHANGED <<files, table, maps, scan, watch, past, bounds>>

(* A file that cannot be opened or parsed has no tags, and is recorded     *)
(* without: as long as it does not change it is not read again.            *)
ReadTags(w) ==
    LET p == work[w].path IN
    /\ At(w, "tags")
    /\ \E tags \in {0, disk[p]} :
         /\ Begin(w, [pc |-> IF work[w].id # 0 THEN "update" ELSE "insert", path |-> p,
                      stamp |-> work[w].stamp, id |-> work[w].id, tags |-> tags])
         /\ \/ tags = disk[p] /\ Works /\ UNCHANGED misread
            \/ tags # disk[p] /\ Fails /\ misread' = misread \union {p}
    /\ UNCHANGED <<files, table, maps, scan, watch, excused, risked, wasGone, crashes>>

Read(w) == [path |-> work[w].path, stamp |-> work[w].stamp, tags |-> work[w].tags]

(* UPDATE of a row that is gone changes nothing and is no error.           *)
UpdateRow(w) ==
    /\ At(w, "update")
    /\ \/ /\ Works
          /\ rows' = IF work[w].id \in DOMAIN rows THEN [rows EXCEPT ![work[w].id] = Read(w)]
                                                   ELSE rows
          /\ Begin(w, [work[w] EXCEPT !.pc = "set"])
          /\ UNCHANGED excused
       \/ Fails /\ Return(w) /\ GiveUp(w) /\ UNCHANGED rows
    /\ UNCHANGED <<files, lastId, maps, scan, watch, risked, misread, wasGone, crashes>>

(* A track that has left the maps meanwhile is set, but nobody sees it.    *)
SetFields(w) ==
    /\ At(w, "set")
    /\ byID' = IF work[w].id \in DOMAIN byID THEN [byID EXCEPT ![work[w].id] = Read(w)]
                                             ELSE byID
    /\ Return(w)
    /\ UNCHANGED <<files, table, byPath, scan, watch, past, bounds>>

(* Mutant: tracks.path is not UNIQUE. *)
Taken_Never(p) == FALSE

(* tracks.path is UNIQUE.                                                  *)
Taken(p) == \E id \in DOMAIN rows : rows[id].path = p

InsertRow(w) ==
    LET p == work[w].path IN
    /\ At(w, "insert")
    /\ \/ /\ ~Taken(p) /\ Works
          /\ lastId < MaxIds /\ lastId' = lastId + 1
          /\ rows' = With(rows, lastId', Read(w))
          /\ wasGone' = IF disk[p] = 0 THEN wasGone \union {p} ELSE wasGone \ {p}
          /\ Begin(w, [work[w] EXCEPT !.pc = "map", !.id = lastId'])
          /\ UNCHANGED excused
       \/ Taken(p) /\ Works /\ Return(w) /\ UNCHANGED <<table, excused, wasGone>>
       \/ Fails /\ Return(w) /\ GiveUp(w) /\ UNCHANGED <<table, wasGone>>
    /\ UNCHANGED <<files, maps, scan, watch, risked, misread, crashes>>

MapTrack(w) ==
    LET id == work[w].id IN
    /\ At(w, "map")
    /\ byPath' = With(byPath, work[w].path, id)
    /\ byID' = With(byID, id, Read(w))
    /\ Return(w)
    /\ UNCHANGED <<files, table, scan, watch, past, bounds>>

(* The error of DELETE is ignored: the row stays until the next start.     *)
DeleteRow(w) ==
    /\ At(w, "delete")
    /\ \/ Works /\ rows' = Without(rows, work[w].id) /\ UNCHANGED excused
       \/ Fails /\ GiveUp(w) /\ UNCHANGED rows
    /\ Begin(w, [work[w] EXCEPT !.pc = "unmap"])
    /\ UNCHANGED <<files, lastId, maps, scan, watch, risked, misread, wasGone, crashes>>

Unmap(w) ==
    /\ At(w, "unmap")
    /\ byPath' = Without(byPath, work[w].path)
    /\ byID' = Without(byID, work[w].id)
    /\ Return(w)
    /\ UNCHANGED <<files, table, scan, watch, past, bounds>>

---------------------------------------------------------------------------
(* InitialScan.                                                            *)

ScanIdle == phase = "scan" /\ At(Scan, "idle")

(* When the rows cannot be loaded there is no scan.                        *)
Load ==
    /\ phase = "down" /\ phase' = "scan"
    /\ \/ /\ Works /\ todo' = Paths
          /\ byPath' = [p \in {rows[id].path : id \in DOMAIN rows} |->
                            CHOOSE id \in DOMAIN rows : rows[id].path = p]
          /\ byID' = rows
          /\ UNCHANGED excused
       \/ Fails /\ excused' = Paths /\ UNCHANGED <<maps, todo>>
    /\ UNCHANGED <<files, table, seen, watch, work, risked, misread, wasGone, crashes>>

(* A file counts as seen before it is read.                                *)
Visit(p) ==
    /\ ScanIdle
    /\ p \in todo /\ todo' = todo \ {p}
    /\ IF disk[p] # 0
       THEN seen' = seen \union {p} /\ Begin(Scan, [pc |-> "check", path |-> p])
       ELSE UNCHANGED <<seen, work>>
    /\ UNCHANGED <<files, table, maps, phase, watch, past, bounds>>

(* An unreadable directory is logged and skipped: its files are not seen.  *)
Unreadable(S) ==
    /\ ScanIdle /\ Fails
    /\ S # {} /\ S \subseteq todo /\ todo' = todo \ S
    /\ excused' = excused \union S /\ risked' = risked \union S
    /\ UNCHANGED <<files, table, maps, phase, seen, watch, work, misread, wasGone, crashes>>

(* Nobody else changes the maps before the watch.                          *)
Unseen == DOMAIN byPath \ seen

ReconcileRemoved(p) ==
    /\ ScanIdle /\ todo = {}
    /\ p \in Unseen
    /\ Begin(Scan, [pc |-> "delete", path |-> p, id |-> byPath[p]])
    /\ UNCHANGED <<files, table, maps, scan, watch, past, bounds>>

---------------------------------------------------------------------------
(* Watch.                                                                  *)

AddRecursive ==
    /\ ScanIdle /\ todo = {} /\ Unseen = {}
    /\ phase' = "watch" /\ seen' = {} /\ watched' = dir /\ risked' = {}
    /\ UNCHANGED <<files, table, maps, todo, events, newDir, timers, work, excused, misread, wasGone, bounds>>

(* Only watches are added: the files already there are not scheduled.      *)
HandleNewDir ==
    /\ newDir
    /\ newDir' = FALSE
    /\ watched' = dir
    /\ UNCHANGED <<files, table, maps, scan, events, timers, work, past, bounds>>

(* Mutant: an event is dropped while a callback for its path runs. *)
Schedule_Throttled(p) ==
    /\ p \in events /\ events' = events \ {p}
    /\ timers' = IF \E c \in Callbacks : ~At(c, "idle") /\ work[c].path = p
                 THEN timers ELSE timers \union {p}
    /\ UNCHANGED <<files, table, maps, scan, watched, newDir, work, past, bounds>>

(* A pending timer of the path is stopped, a callback that runs is not.    *)
Schedule(p) ==
    /\ p \in events /\ events' = events \ {p}
    /\ timers' = timers \union {p}
    /\ UNCHANGED <<files, table, maps, scan, watched, newDir, work, past, bounds>>

(* The first of two callbacks for one path may overwrite what the second   *)
(* did; what becomes of the path then is not promised.                     *)
Fire(p, c) ==
    /\ p \in timers /\ timers' = timers \ {p}
    /\ At(c, "idle")
    /\ Begin(c, [pc |-> "stat", path |-> p])
    /\ IF \E d \in Callbacks : ~At(d, "idle") /\ work[d].path = p
       THEN excused' = excused \union {p} /\ risked' = risked \union {p}
       ELSE UNCHANGED <<excused, risked>>
    /\ UNCHANGED <<files, table, maps, scan, watched, events, newDir, misread, wasGone, bounds>>

(* Mutant: whatever error Stat returns, the file is taken to be gone. *)
Gone_AnyError(c, fails) == fails \/ disk[work[c].path] = 0

(* Only ErrNotExist means gone: any other error goes on to upsertFile.     *)
Gone(c, fails) == ~fails /\ disk[work[c].path] = 0

Stat(c) ==
    /\ At(c, "stat")
    /\ \E fails \in BOOLEAN :
         /\ IF fails THEN Fails ELSE Works
         /\ IF fails /\ disk[work[c].path] = 0 THEN GiveUp(c) ELSE UNCHANGED excused
         /\ Begin(c, [pc |-> IF Gone(c, fails) THEN "find" ELSE "check", path |-> work[c].path])
    /\ UNCHANGED <<files, table, maps, scan, watch, risked, misread, wasGone, crashes>>

GetByPath(c) ==
    LET p == work[c].path IN
    /\ At(c, "find")
    /\ IF p \in DOMAIN byPath
       THEN Begin(c, [pc |-> "delete", path |-> p, id |-> byPath[p]])
       ELSE Return(c)
    /\ UNCHANGED <<files, table, maps, scan, watch, past, bounds>>

---------------------------------------------------------------------------
(* The process dies with all but its table.                                *)
Crash ==
    /\ phase # "down" /\ crashes < MaxCrashes /\ crashes' = crashes + 1
    /\ phase' = "down" /\ todo' = {} /\ seen' = {}
    /\ byPath' = Empty /\ byID' = Empty
    /\ watched' = FALSE /\ events' = {} /\ newDir' = FALSE /\ timers' = {}
    /\ work' = [w \in Workers |-> Idle] /\ excused' = {} /\ risked' = {}
    /\ UNCHANGED <<files, table, misread, wasGone, faults>>

Step(w) ==
    \/ Check(w) \/ Lookup(w) \/ ReadTags(w) \/ UpdateRow(w) \/ SetFields(w)
    \/ InsertRow(w) \/ MapTrack(w) \/ DeleteRow(w) \/ Unmap(w)

Change ==
    \/ \E p \in Paths : Write(p) \/ Remove(p) \/ \E q \in Paths : Move(p, q)
    \/ \E S \in {{}} \union {{p} : p \in Inside} : DirAppears(S)
    \/ DirVanishes \/ Overflow

Next ==
    \/ Change \/ Crash \/ Load \/ AddRecursive \/ HandleNewDir
    \/ \E p \in Paths : Visit(p) \/ ReconcileRemoved(p) \/ Schedule(p)
                        \/ \E c \in Callbacks : Fire(p, c)
    \/ \E S \in {Paths, Inside} : Unreadable(S)
    \/ \E c \in Callbacks : Stat(c) \/ GetByPath(c)
    \/ \E w \in Workers : Step(w)

Spec == Init /\ [][Next]_vars

---------------------------------------------------------------------------
(* Everything has its type: ids are those of the table, a path has at most *)
(* one row, and what the map of paths finds is in the map of ids.          *)
TypeOK ==
    /\ disk \in [Paths -> Versions] /\ dir \in BOOLEAN
    /\ \A p \in Inside : disk[p] # 0 => dir
    /\ clock \in Versions /\ left \subseteq Paths \X Versions
    /\ lastId \in 0 .. MaxIds
    /\ DOMAIN rows \subseteq 1 .. lastId /\ \A id \in DOMAIN rows : rows[id] \in Track
    /\ \A i, j \in DOMAIN rows : rows[i].path = rows[j].path => i = j
    /\ DOMAIN byPath \subseteq Paths /\ \A p \in DOMAIN byPath : byPath[p] \in DOMAIN byID
    /\ DOMAIN byID \subseteq 1 .. lastId /\ \A id \in DOMAIN byID : byID[id] \in Track
    /\ phase \in {"down", "scan", "watch"} /\ todo \subseteq Paths /\ seen \subseteq Paths
    /\ watched \in BOOLEAN /\ events \subseteq Paths /\ newDir \in BOOLEAN
    /\ timers \subseteq Paths
    /\ \A w \in Workers : work[w] = Idle \/ (work[w].pc \in Steps /\ work[w].path \in Paths)
    /\ excused \subseteq Paths /\ risked \subseteq excused /\ misread \subseteq Paths
    /\ wasGone \subseteq Paths
    /\ faults \in 0 .. MaxFaults /\ crashes \in 0 .. MaxCrashes

Quiet ==
    /\ phase = "watch" /\ events = {} /\ ~newDir /\ timers = {}
    /\ \A w \in Workers : At(w, "idle")

(* Once nothing is pending, memory and table hold exactly the files of the *)
(* music directory, each under one id, with the size, the time and the     *)
(* tags of its present content: a change while a callback reads the file,  *)
(* during downtime, or by a rename is not lost.  Without tags is only a    *)
(* file whose present content could not be read when its turn came.        *)
TagsOf(p) == IF p \in misread THEN {0, disk[p]} ELSE {disk[p]}

QuietIsFaithful ==
    Quiet => \A p \in Paths \ excused :
        IF disk[p] = 0
        THEN p \notin DOMAIN byPath /\ ~Taken(p)
        ELSE /\ p \in DOMAIN byPath
             /\ {id \in DOMAIN byID : byID[id].path = p} = {byPath[p]}
             /\ byPath[p] \in DOMAIN rows
             /\ \E tags \in TagsOf(p) :
                   {byID[byPath[p]], rows[byPath[p]]}
                       = {[path |-> p, stamp |-> disk[p], tags |-> tags]}

(* A row, and with it the id that queue and history refer to, goes only if *)
(* its file was gone at some moment since the row came.  No restart and no *)
(* failing call costs a track its identity, except one: files of a         *)
(* directory the scan cannot read count as removed.  The other exception   *)
(* are two callbacks at one path, of which one found no file and then      *)
(* removes what the other one has inserted since.                          *)
RemovedWasGone ==
    [][\A id \in DOMAIN rows \ DOMAIN rows' : rows[id].path \in wasGone \union risked]_vars
=============================================================================
