---------------------------- MODULE LibraryProofs ----------------------------
(***************************************************************************)
(* Proofs about the library, for any number of files, of callbacks that    *)
(* overlap, of failing calls and of restarts.                              *)
(*                                                                         *)
(* The argument: an id is of one path for ever (OnePath), and of two       *)
(* goroutines at one path the code promises nothing (Alone), so what a     *)
(* goroutine is at concerns nobody else.  What it has read of the file is  *)
(* of a version that is there or never comes back (Honesty); what memory   *)
(* and table say of the path fits what it has done (Fits); and when it     *)
(* ends, either memory, table and file agree or an event of the path is    *)
(* still to be handled (Rests).                                            *)
(***************************************************************************)
EXTENDS Library, Integers, TLAPS

(* What a goroutine is doing, in full. *)
Doing(w) == ~At(w, "idle")
Stamped  == {"lookup", "tags", "update", "set", "insert", "map"}
Tagged   == {"update", "set", "insert", "map"}
Numbered == {"delete", "unmap", "tags"} \union Tagged

JobOK(w) ==
    /\ work[w].pc \in Steps \union {"idle"}
    /\ At(w, "idle") => work[w] = Idle
    /\ Doing(w) => work[w].path \in Paths
    /\ work[w].pc \in Stamped => work[w].stamp \in Versions
    /\ work[w].pc \in Tagged =>
         work[w].tags \in Versions /\ DOMAIN work[w] = {"pc", "path", "stamp", "id", "tags"}
    /\ work[w].pc \in {"delete", "unmap"} => DOMAIN work[w] = {"pc", "path", "id"}
    /\ work[w].pc \in Numbered => work[w].id \in 0 .. lastId
    /\ work[w].pc \in {"delete", "unmap", "update", "set", "map"} => work[w].id # 0

(* An id is of one path, for ever. *)
Named(id, p) ==
    \/ id \in DOMAIN rows /\ rows[id].path = p
    \/ p \in DOMAIN byPath /\ byPath[p] = id
    \/ id \in DOMAIN byID /\ byID[id].path = p
    \/ \E w \in Workers : work[w].pc \in Numbered /\ work[w].id = id /\ work[w].path = p
OnePath == \A id \in 1 .. lastId : \A p, q \in Paths : Named(id, p) /\ Named(id, q) => p = q

(* Callbacks run in "watch", the scan in "scan"; before "watch" nothing is *)
(* reported.                                                               *)
Phases ==
    /\ phase # "watch" => /\ events = {} /\ timers = {} /\ watched = FALSE /\ newDir = FALSE
                          /\ \A c \in Callbacks : At(c, "idle")
    /\ phase # "scan" => At(Scan, "idle")
    /\ phase = "down" => byPath = Empty /\ byID = Empty /\ seen = {} /\ todo = {}
    /\ At(Scan, "idle") \/ /\ work[Scan].path \notin todo
                           /\ work[Scan].path \notin seen <=> work[Scan].pc \in {"delete", "unmap"}
                           /\ work[Scan].pc \notin {"stat", "find"}
    /\ watched => dir
    /\ todo \intersect seen = {}

Alone == \A v, w \in Workers :
    v # w /\ Doing(v) /\ Doing(w) /\ work[v].path = work[w].path => work[v].path \in risked

(* A path whose row is in danger has been without a file, or its row may go
   though the file is there. *)
MayGo(p) == Taken(p) => p \in wasGone \union risked
Condemned ==
    /\ \A p \in Paths : disk[p] = 0 /\ Taken(p) => p \in wasGone
    /\ \A w \in Workers : work[w].pc \in {"find", "delete"} => MayGo(work[w].path)
    /\ phase = "scan" => \A p \in DOMAIN byPath \ (todo \union seen) : MayGo(p)

(* What has been read of a file.  A version that has left a path does not  *)
(* come back to it; the tags of the version that is there are its own, or  *)
(* it could not be read.                                                   *)
Dead(p, v) == v # disk[p] /\ \A q \in Paths : disk[q] = v => <<p, v>> \in left
Was(p, v)  == v \in 1 .. clock /\ (v = disk[p] \/ Dead(p, v))
Honest(r)  == Was(r.path, r.stamp) /\ (r.stamp = disk[r.path] => r.tags \in TagsOf(r.path))
Versioned ==
    /\ \A p \in Paths : disk[p] <= clock
    /\ \A p, q \in Paths : disk[p] = disk[q] /\ disk[p] # 0 => p = q
    /\ \A x \in left : x[2] <= clock
Honesty ==
    /\ Versioned
    /\ \A id \in DOMAIN rows : Honest(rows[id])
    /\ \A id \in DOMAIN byID : Honest(byID[id])
    /\ \A w \in Workers : /\ work[w].pc \in Stamped => Was(work[w].path, work[w].stamp)
                          /\ work[w].pc \in Tagged => Honest(Read(w))

(* Memory and table about a path. *)
RowsOf(p)  == {id \in DOMAIN rows : rows[id].path = p}
KnownAs(p) == {id \in DOMAIN byID : byID[id].path = p}
Absent(p)  == p \notin DOMAIN byPath /\ RowsOf(p) = {} /\ KnownAs(p) = {}
Present(p) ==
    /\ p \in DOMAIN byPath /\ RowsOf(p) = {byPath[p]} /\ KnownAs(p) = {byPath[p]}
    /\ rows[byPath[p]] = byID[byPath[p]]
Sane(p)    == Absent(p) \/ Present(p)
Current(p) == IF disk[p] = 0 THEN Absent(p) ELSE Present(p) /\ byID[byPath[p]].stamp = disk[p]
Pending(p) == p \in events \union timers

(* What the goroutine that is at p has found and done.                     *)
Fits(w, p) ==
    /\ work[w].pc \in {"stat", "find", "check", "lookup"} => Sane(p)
    /\ work[w].pc \in {"find", "delete", "unmap"} => disk[p] = 0 \/ Pending(p)
    /\ work[w].pc = "check" => disk[p] # 0 \/ Pending(p)
    /\ work[w].pc \in Stamped => work[w].stamp = disk[p] \/ Pending(p)
    /\ work[w].pc \in {"delete", "update"} => Present(p) /\ work[w].id = byPath[p]
    /\ work[w].pc = "insert" => Absent(p)
    /\ work[w].pc = "tags" => IF work[w].id = 0 THEN Absent(p)
                              ELSE Present(p) /\ work[w].id = byPath[p]
    /\ work[w].pc \in {"set", "unmap"} =>
         p \in DOMAIN byPath /\ byPath[p] = work[w].id /\ KnownAs(p) = {work[w].id}
    /\ work[w].pc = "map" => p \notin DOMAIN byPath /\ KnownAs(p) = {}
    /\ work[w].pc = "unmap" => RowsOf(p) = {}
    /\ work[w].pc \in {"set", "map"} => RowsOf(p) = {work[w].id} /\ rows[work[w].id] = Read(w)

Busy(p) == \E w \in Workers : Doing(w) /\ work[w].path = p
Rests(p) ==
    /\ Sane(p)
    /\ phase = "watch" => Pending(p) \/ Current(p)
    /\ phase = "scan" /\ p \notin todo =>
         IF p \in seen THEN disk[p] # 0 /\ Current(p) ELSE disk[p] = 0
Follows(p) ==
    /\ \A w \in Workers : Doing(w) /\ work[w].path = p => Fits(w, p)
    /\ ~Busy(p) => Rests(p)
Following == phase # "down" => \A p \in Paths \ excused : Follows(p)

-----------------------------------------------------------------------------
LEMMA EmptyIs == DOMAIN Empty = {}
  BY DEF Empty

-----------------------------------------------------------------------------
(* What a change to the files does, and nothing else.                      *)
FileStep ==
    \/ \E p \in Paths : Write(p) \/ Remove(p) \/ \E q \in Paths : Move(p, q)
    \/ \E S \in {{}} \union {{p} : p \in Inside} : DirAppears(S)
    \/ DirVanishes

Touches ==
    /\ clock' = clock + 1 /\ clock' \in Versions
    /\ UNCHANGED <<rows, lastId, byPath, byID, phase, todo, seen, timers, work, risked,
                   faults, crashes>>
    /\ disk' \in [Paths -> Versions] /\ dir' \in BOOLEAN /\ newDir' \in BOOLEAN
    /\ \A p \in Inside : disk'[p] # 0 => dir'
    /\ left' \subseteq Paths \X Versions
    /\ events' \subseteq Paths /\ events \subseteq events'
    /\ excused' \subseteq Paths /\ excused \subseteq excused'
    /\ watched' \in BOOLEAN /\ (watched' => watched /\ dir')
    /\ phase # "watch" => UNCHANGED <<events, newDir>>
    /\ phase # "down" => \A p \in Paths : disk'[p] # disk[p] => p \in events' \union excused'
    /\ wasGone' = wasGone \union {p \in Paths : disk[p] # 0 /\ disk'[p] = 0}
    /\ misread' = {p \in misread : disk'[p] = disk[p]}

LEMMA FileStepTouches ==
    ASSUME TypeOK, watched => dir, FileStep
    PROVE  Touches
  <1>. /\ disk \in [Paths -> Versions] /\ clock \in Versions /\ Inside \subseteq Paths
       /\ left \subseteq Paths \X Versions /\ dir \in BOOLEAN
       /\ watched \in BOOLEAN /\ newDir \in BOOLEAN
       /\ events \subseteq Paths /\ excused \subseteq Paths
       /\ \A p \in Inside : disk[p] # 0 => dir
    BY LibraryAssumption DEF TypeOK, LibraryAssumption
  <1>. MaxChanges \in Nat \ {0} /\ 0 \in Versions
    BY LibraryAssumption DEF LibraryAssumption, Versions
  <1>0. ASSUME NEW files_, Becomes(files_)
        PROVE  /\ clock' = clock + 1 /\ clock' \in Versions
               /\ UNCHANGED <<rows, lastId, byPath, byID, phase, todo, seen, timers, work,
                              risked, faults, crashes>>
               /\ disk' = files_
               /\ wasGone' = wasGone \union {p \in Paths : disk[p] # 0 /\ disk'[p] = 0}
               /\ misread' = {p \in misread : disk'[p] = disk[p]}
    BY <1>0 DEF Becomes, Versions, table, maps, scan, bounds
  <1>1. ASSUME NEW S \in SUBSET Paths, Notify(S)
        PROVE  /\ events' \subseteq Paths /\ events \subseteq events'
               /\ excused' \subseteq Paths /\ excused \subseteq excused'
               /\ phase # "watch" => events' = events
               /\ phase # "down" => S \subseteq events' \union excused'
    BY <1>1 DEF Notify
  <1>2. ASSUME NEW p \in Paths, Write(p) PROVE Touches
    <2>1. Becomes([disk EXCEPT ![p] = clock + 1]) /\ Notify({p}) /\ (p \in Inside => dir)
      BY <1>2 DEF Write
    <2>2. UNCHANGED <<dir, left, watched, newDir>>
      BY <1>2 DEF Write
    <2>4. disk' = [disk EXCEPT ![p] = clock + 1] /\ clock + 1 \in Versions
      BY <1>0, <2>1, Zenon
    <2>3. disk' \in [Paths -> Versions] /\ \A q \in Paths : disk'[q] # disk[q] => q = p
      BY <2>4
    <2>. QED
      BY <1>0, <1>1, <2>1, <2>2, <2>3 DEF Touches
  <1>3. ASSUME NEW p \in Paths, Remove(p) PROVE Touches
    <2>1. Becomes([disk EXCEPT ![p] = 0]) /\ Notify({p}) /\ UNCHANGED <<dir, left, watched, newDir>>
      BY <1>3 DEF Remove
    <2>4. disk' = [disk EXCEPT ![p] = 0]
      BY <1>0, <2>1, Zenon
    <2>3. disk' \in [Paths -> Versions] /\ \A q \in Paths : disk'[q] # disk[q] => q = p /\ disk'[q] = 0
      BY <2>4
    <2>. QED
      BY <1>0, <1>1, <2>1, <2>3 DEF Touches
  <1>4. ASSUME NEW p \in Paths, NEW q \in Paths, Move(p, q) PROVE Touches
    <2>1. Becomes([disk EXCEPT ![q] = disk[p], ![p] = 0]) /\ Notify({p, q}) /\ (q \in Inside => dir)
      BY <1>4 DEF Move
    <2>2. UNCHANGED <<dir, watched, newDir>> /\ left' = left \union {<<p, disk[p]>>}
      BY <1>4 DEF Move
    <2>4. disk' = [disk EXCEPT ![q] = disk[p], ![p] = 0]
      BY <1>0, <2>1, Zenon
    <2>3. /\ disk' \in [Paths -> Versions]
          /\ \A r \in Paths : disk'[r] # disk[r] => r \in {p, q}
          /\ disk'[p] = 0
      BY <2>4
    <2>. QED
      BY <1>0, <1>1, <2>1, <2>2, <2>3 DEF Touches
  <1>5. ASSUME NEW S \in {{}} \union {{p} : p \in Inside}, DirAppears(S) PROVE Touches
    <2>0. S \in SUBSET Paths
      OBVIOUS
    <2>1. Becomes([p \in Paths |-> IF p \in S THEN clock + 1 ELSE disk[p]]) /\ Notify(S)
      BY <1>5 DEF DirAppears
    <2>2. UNCHANGED <<left, watched>> /\ dir' = TRUE /\ newDir' \in BOOLEAN
         /\ (phase # "watch" => newDir' = newDir)
      BY <1>5 DEF DirAppears
    <2>3. disk' \in [Paths -> Versions] /\ \A q \in Paths : disk'[q] # disk[q] => q \in S
      BY <1>0, <2>1
    <2>. QED
      BY <1>0, <1>1, <2>0, <2>1, <2>2, <2>3 DEF Touches
  <1>6. CASE DirVanishes
    <2>1. Becomes([p \in Paths |-> IF p \in Inside THEN 0 ELSE disk[p]])
      BY <1>6 DEF DirVanishes
    <2>2. /\ dir' = FALSE /\ watched' = FALSE /\ UNCHANGED <<left, events, newDir>>
          /\ excused' = IF phase = "down" THEN excused
                        ELSE excused \union {p \in Inside : disk[p] # 0}
      BY <1>6 DEF DirVanishes
    <2>3. /\ disk' \in [Paths -> Versions]
          /\ \A q \in Paths : disk'[q] # disk[q] => q \in Inside /\ disk[q] # 0
          /\ \A q \in Inside : disk'[q] = 0
      BY <1>0, <2>1
    <2>. QED
      BY <1>0, <2>1, <2>2, <2>3 DEF Touches
  <1>. QED
    BY <1>2, <1>3, <1>4, <1>5, <1>6 DEF FileStep

LEMMA LibraryCases ==
    ASSUME Next
    PROVE  \/ FileStep \/ Overflow \/ Crash \/ Load \/ AddRecursive \/ HandleNewDir
           \/ \E p \in Paths : Visit(p) \/ ReconcileRemoved(p) \/ Schedule(p)
           \/ \E p \in Paths, c \in Callbacks : Fire(p, c)
           \/ \E S \in {Paths, Inside} : Unreadable(S)
           \/ \E c \in Callbacks : Stat(c) \/ GetByPath(c)
           \/ \E w \in Workers : Step(w)
  BY DEF Next, Change, FileStep

-----------------------------------------------------------------------------
(* Types, ids and phases. *)

Tabled ==
    /\ lastId \in 0 .. MaxIds
    /\ DOMAIN rows \subseteq 1 .. lastId /\ \A id \in DOMAIN rows : rows[id] \in Track
    /\ \A i, j \in DOMAIN rows : rows[i].path = rows[j].path => i = j
    /\ DOMAIN byPath \subseteq Paths /\ \A p \in DOMAIN byPath : byPath[p] \in DOMAIN byID
    /\ DOMAIN byID \subseteq 1 .. lastId /\ \A id \in DOMAIN byID : byID[id] \in Track

Sorted ==
    /\ TypeOK /\ OnePath /\ Phases
    /\ DOMAIN work = Workers /\ \A w \in Workers : JobOK(w)

(* What is kept by a step of a goroutine.                                  *)
Others == UNCHANGED <<disk, dir, clock, left, phase, todo, seen, watched, events, newDir,
                      timers, risked, crashes>>

(* A step of the goroutine w. *)
Turn(w) ==
    /\ Others /\ lastId' \in {lastId, lastId + 1}
    /\ Doing(w) /\ DOMAIN work' = Workers /\ \A v \in Workers \ {w} : work'[v] = work[v]
    /\ JobOK(w)' /\ (Doing(w)' => work'[w].path = work[w].path)
    /\ excused' \in {excused, excused \union {work[w].path}}
    /\ misread' \in {misread, misread \union {work[w].path}}
    /\ faults' \in 0 .. MaxFaults /\ wasGone' \subseteq Paths
    /\ Doing(w)' /\ work[w].pc \notin {"stat", "find"} =>
         /\ work'[w].pc \notin {"stat", "find"}
         /\ work'[w].pc \in {"delete", "unmap"} <=> work[w].pc \in {"delete", "unmap"}

(* The only new id is the next one, of the path w is at.                   *)
NewNames(w) == \A id \in 1 .. lastId', p \in Paths : Named(id, p)' =>
                   Named(id, p) \/ (id = lastId + 1 /\ p = work[w].path)

(* Where the names of w come from, when memory and table stay.             *)
LEMMA NamesKept ==
    ASSUME NEW w \in Workers, Turn(w),
           work'[w].pc \in Numbered /\ work'[w].id # 0 /\ Doing(w)' => Named(work'[w].id, work[w].path),
           \A id \in 1 .. lastId', p \in Paths :
              \/ id \in DOMAIN rows' /\ rows'[id].path = p
              \/ p \in DOMAIN byPath' /\ byPath'[p] = id
              \/ id \in DOMAIN byID' /\ byID'[id].path = p
              => Named(id, p)
    PROVE  NewNames(w)
  <1>. SUFFICES ASSUME NEW id \in 1 .. lastId', NEW p \in Paths, Named(id, p)' PROVE Named(id, p)
    BY DEF NewNames
  <1>1. CASE \E v \in Workers : work'[v].pc \in Numbered /\ work'[v].id = id /\ work'[v].path = p
    <2>1. PICK v \in Workers : work'[v].pc \in Numbered /\ work'[v].id = id /\ work'[v].path = p
      BY <1>1
    <2>2. CASE v = w
      <3>1. Doing(w)' /\ id # 0
        BY <2>1, <2>2 DEF Numbered, Tagged, Doing, At
      <3>2. work'[w].path = work[w].path
        BY <3>1 DEF Turn
      <3>. QED
        BY <2>1, <2>2, <3>1, <3>2
    <2>3. CASE v # w
      BY <2>1, <2>3 DEF Turn, Named
    <2>. QED
      BY <2>2, <2>3
  <1>. QED
    BY <1>1 DEF Named

-----------------------------------------------------------------------------
(* What a goroutine is at, by step. *)

LEMMA Began ==
    ASSUME DOMAIN work = Workers, NEW w \in Workers, NEW r, Begin(w, r)
    PROVE  DOMAIN work' = Workers /\ work'[w] = r /\ \A v \in Workers \ {w} : work'[v] = work[v]
  BY DEF Begin

LEMMA IdleJob == ASSUME NEW w, work'[w] = Idle PROVE JobOK(w)' /\ ~Doing(w)'
  BY DEF Idle, JobOK, Doing, At, Steps, Stamped, Tagged, Numbered

LEMMA PathJob ==
    ASSUME NEW w, NEW pc \in {"stat", "find", "check"}, NEW p \in Paths,
           work'[w] = [pc |-> pc, path |-> p]
    PROVE  JobOK(w)' /\ Doing(w)' /\ work'[w].path = p /\ work'[w].pc = pc
  BY DEF JobOK, Doing, At, Steps, Stamped, Tagged, Numbered

LEMMA StampJob ==
    ASSUME NEW w, NEW p \in Paths, NEW s \in Versions,
           work'[w] = [pc |-> "lookup", path |-> p, stamp |-> s]
    PROVE  JobOK(w)' /\ Doing(w)' /\ work'[w].path = p /\ work'[w].pc = "lookup"
  BY DEF JobOK, Doing, At, Steps, Stamped, Tagged, Numbered

LEMMA DeleteJob ==
    ASSUME NEW w, NEW p \in Paths, NEW id \in 1 .. lastId', lastId' \in Nat,
           work'[w] = [pc |-> "delete", path |-> p, id |-> id]
    PROVE  JobOK(w)' /\ Doing(w)' /\ work'[w].path = p /\ work'[w].pc = "delete" /\ work'[w].id = id
  <1>1. work'[w].pc = "delete" /\ work'[w].path = p /\ work'[w].id = id
        /\ DOMAIN work'[w] = {"pc", "path", "id"}
    OBVIOUS
  <1>2. id # 0 /\ id \in 0 .. lastId'
    OBVIOUS
  <1>. QED
    BY <1>1, <1>2 DEF JobOK, Doing, At, Steps, Stamped, Tagged, Numbered

LEMMA TagsJob ==
    ASSUME NEW w, NEW p \in Paths, NEW s \in Versions, NEW id \in 0 .. lastId',
           work'[w] = [pc |-> "tags", path |-> p, stamp |-> s, id |-> id]
    PROVE  JobOK(w)' /\ Doing(w)' /\ work'[w].path = p /\ work'[w].pc = "tags" /\ work'[w].id = id
  <1>1. work'[w].pc = "tags" /\ work'[w].path = p /\ work'[w].id = id /\ work'[w].stamp = s
    OBVIOUS
  <1>. QED
    BY <1>1 DEF JobOK, Doing, At, Steps, Stamped, Tagged, Numbered

LEMMA TaggedJob ==
    ASSUME NEW w, NEW pc \in Tagged, NEW p \in Paths, NEW s \in Versions, NEW t \in Versions,
           NEW id \in 0 .. lastId', pc = "insert" \/ id # 0,
           DOMAIN work'[w] = {"pc", "path", "stamp", "id", "tags"},
           work'[w].pc = pc, work'[w].path = p, work'[w].stamp = s, work'[w].id = id,
           work'[w].tags = t
    PROVE  JobOK(w)' /\ Doing(w)'
  BY DEF JobOK, Doing, At, Steps, Stamped, Tagged, Numbered

LEMMA GivingUp ==
    ASSUME Sorted, NEW w \in Workers
    PROVE  /\ Fails => faults' \in 0 .. MaxFaults
           /\ Works => faults' \in 0 .. MaxFaults
           /\ GiveUp(w) => excused' = excused \union {work[w].path}
  BY LibraryAssumption DEF Sorted, TypeOK, Fails, Works, GiveUp, LibraryAssumption

-----------------------------------------------------------------------------
(* The steps of a goroutine, one by one. *)

Stepped(w) == Turn(w) /\ Tabled' /\ NewNames(w)

LEMMA SortedGives ==
    ASSUME Sorted, NEW w \in Workers
    PROVE  /\ DOMAIN work = Workers /\ JobOK(w) /\ Tabled /\ lastId \in Nat
           /\ disk \in [Paths -> Versions] /\ faults \in 0 .. MaxFaults /\ wasGone \subseteq Paths
           /\ Doing(w) => work[w].path \in Paths
  BY LibraryAssumption DEF Sorted, TypeOK, Tabled, LibraryAssumption, JobOK

LEMMA CheckTurn == ASSUME Sorted, NEW w \in Workers, Check(w) PROVE Stepped(w)
  <1>. DEFINE p == work[w].path
  <1>1. /\ work[w].pc = "check" /\ Doing(w) /\ Others
        /\ UNCHANGED <<rows, lastId, byPath, byID, wasGone, misread>>
    BY DEF Check, At, Doing, Others, files, table, maps, scan, watch
  <1>2. p \in Paths /\ disk[p] \in Versions /\ Tabled' /\ wasGone' \subseteq Paths
    BY <1>1, SortedGives DEF Tabled
  <1>3. excused' \in {excused, excused \union {p}} /\ faults' \in 0 .. MaxFaults
    BY GivingUp, SortedGives DEF Check
  <1>4. Begin(w, Idle) \/ Begin(w, [pc |-> "lookup", path |-> p, stamp |-> disk[p]])
    BY DEF Check, Return
  <1>5. /\ DOMAIN work' = Workers /\ \A v \in Workers \ {w} : work'[v] = work[v]
        /\ work'[w] = Idle \/ work'[w] = [pc |-> "lookup", path |-> p, stamp |-> disk[p]]
    BY <1>4, Began, SortedGives
  <1>6. JobOK(w)' /\ (Doing(w)' => work'[w].path = p /\ work'[w].pc = "lookup")
    BY <1>2, <1>5, IdleJob, StampJob
  <1>7. Turn(w)
    BY <1>1, <1>2, <1>3, <1>5, <1>6 DEF Turn
  <1>8. NewNames(w)
    BY <1>1, <1>6, <1>7, NamesKept DEF Numbered, Tagged, Named
  <1>. QED
    BY <1>2, <1>7, <1>8 DEF Stepped

LEMMA LookupTurn == ASSUME Sorted, NEW w \in Workers, Lookup(w) PROVE Stepped(w)
  <1>. DEFINE p  == work[w].path
              id == IF p \in DOMAIN byPath THEN byPath[p] ELSE 0
  <1>1. /\ work[w].pc = "lookup" /\ Doing(w) /\ Others
        /\ UNCHANGED <<rows, lastId, byPath, byID, wasGone, misread, excused, faults>>
    BY DEF Lookup, At, Doing, Others, files, table, maps, scan, watch, past, bounds
  <1>2. /\ p \in Paths /\ work[w].stamp \in Versions /\ Tabled' /\ wasGone' \subseteq Paths
        /\ faults' \in 0 .. MaxFaults
    BY <1>1, SortedGives DEF Tabled, JobOK, Stamped
  <1>3. id \in 0 .. lastId' /\ (id # 0 => Named(id, p))
    BY <1>1, <1>2, SortedGives DEF Tabled, Named
  <1>4. Begin(w, Idle) \/ Begin(w, [pc |-> "tags", path |-> p, stamp |-> work[w].stamp, id |-> id])
    BY DEF Lookup, Return
  <1>. HIDE DEF id
  <1>5. /\ DOMAIN work' = Workers /\ \A v \in Workers \ {w} : work'[v] = work[v]
        /\ work'[w] = Idle
           \/ work'[w] = [pc |-> "tags", path |-> p, stamp |-> work[w].stamp, id |-> id]
    BY <1>4, Began, SortedGives
  <1>6. JobOK(w)' /\ (Doing(w)' => work'[w].path = p /\ work'[w].pc = "tags" /\ work'[w].id = id)
    BY <1>2, <1>3, <1>5, IdleJob, TagsJob
  <1>7. Turn(w)
    BY <1>1, <1>2, <1>5, <1>6 DEF Turn
  <1>8. NewNames(w)
    BY <1>1, <1>3, <1>6, <1>7, NamesKept DEF Named
  <1>. QED
    BY <1>2, <1>7, <1>8 DEF Stepped

LEMMA ReadTagsTurn == ASSUME Sorted, NEW w \in Workers, ReadTags(w) PROVE Stepped(w)
  <1>. DEFINE p  == work[w].path
              pc == IF work[w].id # 0 THEN "update" ELSE "insert"
  <1>1. /\ work[w].pc = "tags" /\ Doing(w) /\ Others
        /\ UNCHANGED <<rows, lastId, byPath, byID, wasGone, excused>>
    BY DEF ReadTags, At, Doing, Others, files, table, maps, scan, watch
  <1>2. /\ p \in Paths /\ work[w].stamp \in Versions /\ Tabled' /\ wasGone' \subseteq Paths
        /\ disk[p] \in Versions /\ 0 \in Versions /\ work[w].id \in 0 .. lastId'
    BY <1>1, SortedGives, LibraryAssumption
       DEF Tabled, JobOK, Stamped, Numbered, Versions, LibraryAssumption
  <1>3. PICK tags \in {0, disk[p]} :
          /\ Begin(w, [pc |-> pc, path |-> p, stamp |-> work[w].stamp, id |-> work[w].id,
                       tags |-> tags])
          /\ \/ tags = disk[p] /\ Works /\ UNCHANGED misread
             \/ tags # disk[p] /\ Fails /\ misread' = misread \union {p}
    BY Zenon DEF ReadTags
  <1>11. faults' \in 0 .. MaxFaults /\ misread' \in {misread, misread \union {p}}
    BY <1>3, GivingUp
  <1>4. pc \in Tagged /\ (pc = "insert" \/ work[w].id # 0)
    BY DEF Tagged
  <1>. HIDE DEF pc
  <1>5. /\ DOMAIN work' = Workers /\ \A v \in Workers \ {w} : work'[v] = work[v]
        /\ work'[w] = [pc |-> pc, path |-> p, stamp |-> work[w].stamp, id |-> work[w].id,
                       tags |-> tags]
    BY <1>3, Began, SortedGives
  <1>6. /\ DOMAIN work'[w] = {"pc", "path", "stamp", "id", "tags"}
        /\ work'[w].pc = pc /\ work'[w].path = p /\ work'[w].stamp = work[w].stamp
        /\ work'[w].id = work[w].id /\ work'[w].tags = tags
    BY <1>5
  <1>7. JobOK(w)' /\ Doing(w)'
    BY <1>2, <1>4, <1>6, TaggedJob
  <1>8. Turn(w)
    BY <1>1, <1>2, <1>4, <1>5, <1>6, <1>7, <1>11 DEF Turn, Tagged
  <1>9. work[w].id # 0 => Named(work[w].id, p)
    BY <1>1 DEF Named, Numbered
  <1>10. NewNames(w)
    BY <1>1, <1>6, <1>8, <1>9, NamesKept DEF Named
  <1>. QED
    BY <1>2, <1>8, <1>10 DEF Stepped

(* The id a goroutine has is of the path it is at, and of no other.        *)
LEMMA IdIsMine ==
    ASSUME Sorted, NEW w \in Workers, work[w].pc \in Numbered
    PROVE  /\ work[w].id # 0 => work[w].id \in 1 .. lastId /\ Named(work[w].id, work[w].path)
           /\ work[w].id # 0 => \A q \in Paths : Named(work[w].id, q) => q = work[w].path
  <1>1. JobOK(w) /\ lastId \in Nat /\ work[w].path \in Paths
    BY SortedGives DEF Numbered, Tagged, Doing, At
  <1>2. work[w].id # 0 => work[w].id \in 1 .. lastId
    BY <1>1 DEF JobOK
  <1>3. Named(work[w].id, work[w].path)
    BY DEF Named
  <1>. QED
    BY <1>1, <1>2, <1>3 DEF Sorted, OnePath

LEMMA ReadIs ==
    ASSUME Sorted, NEW w \in Workers, work[w].pc \in Tagged
    PROVE  /\ Read(w) \in Track /\ Read(w).path = work[w].path
           /\ work[w].path \in Paths /\ work[w].stamp \in Versions /\ work[w].tags \in Versions
           /\ Doing(w) /\ work[w].id \in 0 .. lastId /\ work[w].pc \in Numbered
           /\ DOMAIN work[w] = {"pc", "path", "stamp", "id", "tags"}
  <1>1. JobOK(w) /\ Doing(w) /\ work[w].path \in Paths
    BY SortedGives DEF Tagged, Doing, At
  <1>. QED
    BY <1>1 DEF JobOK, Stamped, Tagged, Numbered, Read, Track

LEMMA UpdateRowTurn == ASSUME Sorted, NEW w \in Workers, UpdateRow(w) PROVE Stepped(w)
  <1>. DEFINE p  == work[w].path
              id == work[w].id
  <1>1. /\ work[w].pc = "update" /\ Others
        /\ UNCHANGED <<lastId, byPath, byID, wasGone, misread>>
    BY DEF UpdateRow, At, Others, files, table, maps, scan, watch
  <1>2. work[w].pc \in Tagged
    BY <1>1 DEF Tagged
  <1>3. id \in 1 .. lastId /\ Named(id, p) /\ (\A q \in Paths : Named(id, q) => q = p)
    BY <1>1, <1>2, IdIsMine, ReadIs, SortedGives DEF JobOK
  <1>4. excused' \in {excused, excused \union {p}} /\ faults' \in 0 .. MaxFaults
    BY GivingUp, SortedGives DEF UpdateRow
  <1>5. rows' = rows \/ (id \in DOMAIN rows /\ rows' = [rows EXCEPT ![id] = Read(w)])
    BY DEF UpdateRow
  <1>6. /\ DOMAIN rows' = DOMAIN rows /\ \A i \in DOMAIN rows : rows'[i] \in Track
        /\ \A i \in DOMAIN rows : rows'[i].path = rows[i].path
    <2>1. CASE rows' = rows
      BY <2>1, SortedGives DEF Tabled
    <2>2. CASE id \in DOMAIN rows /\ rows' = [rows EXCEPT ![id] = Read(w)]
      <3>1. rows[id].path \in Paths /\ Named(id, rows[id].path)
        BY <2>2, SortedGives DEF Tabled, Track, Named
      <3>2. rows[id].path = p
        BY <3>1, <1>3
      <3>3. Read(w) \in Track /\ Read(w).path = p
        BY <1>2, ReadIs
      <3>. HIDE DEF p
      <3>. QED
        BY <2>2, <3>2, <3>3, SortedGives DEF Tabled
    <2>. QED
      BY <1>5, <2>1, <2>2
  <1>7. Tabled' /\ wasGone' \subseteq Paths
    BY <1>1, <1>6, SortedGives DEF Tabled
  <1>8. Begin(w, Idle) \/ Begin(w, [work[w] EXCEPT !.pc = "set"])
    BY DEF UpdateRow, Return
  <1>9. /\ DOMAIN work' = Workers /\ \A v \in Workers \ {w} : work'[v] = work[v]
        /\ work'[w] = Idle \/ work'[w] = [work[w] EXCEPT !.pc = "set"]
    BY <1>8, Began, SortedGives
  <1>10. CASE work'[w] = Idle
    <2>1. JobOK(w)' /\ ~Doing(w)'
      BY <1>10, IdleJob
    <2>2. Turn(w)
      BY <1>1, <1>2, <1>4, <1>7, <1>9, <2>1, ReadIs DEF Turn
    <2>3. NewNames(w)
      BY <1>1, <1>6, <2>1, <2>2, NamesKept DEF Named
    <2>. QED
      BY <1>7, <2>2, <2>3 DEF Stepped
  <1>11. CASE work'[w] = [work[w] EXCEPT !.pc = "set"]
    <2>1. /\ DOMAIN work'[w] = {"pc", "path", "stamp", "id", "tags"}
          /\ work'[w].pc = "set" /\ work'[w].path = p /\ work'[w].stamp = work[w].stamp
          /\ work'[w].id = id /\ work'[w].tags = work[w].tags
      BY <1>11, <1>2, ReadIs
    <2>2. JobOK(w)' /\ Doing(w)'
      BY <1>1, <1>2, <1>3, <2>1, ReadIs, TaggedJob, SortedGives DEF Tagged
    <2>3. Turn(w)
      BY <1>1, <1>2, <1>4, <1>7, <1>9, <2>1, <2>2, ReadIs DEF Turn
    <2>4. NewNames(w)
      BY <1>1, <1>3, <1>6, <2>1, <2>3, NamesKept DEF Named
    <2>. QED
      BY <1>7, <2>3, <2>4 DEF Stepped
  <1>. QED
    BY <1>9, <1>10, <1>11

LEMMA SetFieldsTurn == ASSUME Sorted, NEW w \in Workers, SetFields(w) PROVE Stepped(w)
  <1>. DEFINE p  == work[w].path
              id == work[w].id
  <1>1. /\ work[w].pc = "set" /\ Others
        /\ UNCHANGED <<rows, lastId, byPath, wasGone, misread, excused, faults>>
    BY DEF SetFields, At, Others, files, table, maps, scan, watch, past, bounds
  <1>2. work[w].pc \in Tagged
    BY <1>1 DEF Tagged
  <1>3. id \in 1 .. lastId /\ Named(id, p)
    BY <1>1, <1>2, IdIsMine, ReadIs, SortedGives DEF JobOK
  <1>5. byID' = byID \/ (id \in DOMAIN byID /\ byID' = [byID EXCEPT ![id] = Read(w)])
    BY DEF SetFields
  <1>6. /\ DOMAIN byID' = DOMAIN byID /\ \A i \in DOMAIN byID : byID'[i] \in Track
        /\ \A i \in DOMAIN byID : byID'[i] = byID[i] \/ (i = id /\ byID'[i].path = p)
    <2>1. Read(w) \in Track /\ Read(w).path = p
      BY <1>2, ReadIs
    <2>. HIDE DEF p
    <2>. QED
      BY <1>5, <2>1, SortedGives DEF Tabled
  <1>7. Tabled' /\ wasGone' \subseteq Paths /\ faults' \in 0 .. MaxFaults
    BY <1>1, <1>6, SortedGives DEF Tabled
  <1>8. Begin(w, Idle)
    BY DEF SetFields, Return
  <1>9. DOMAIN work' = Workers /\ (\A v \in Workers \ {w} : work'[v] = work[v]) /\ work'[w] = Idle
    BY <1>8, Began, SortedGives
  <1>10. JobOK(w)' /\ ~Doing(w)'
    BY <1>9, IdleJob
  <1>11. Turn(w)
    BY <1>1, <1>2, <1>7, <1>9, <1>10, ReadIs DEF Turn
  <1>12. NewNames(w)
    BY <1>1, <1>3, <1>6, <1>10, <1>11, NamesKept DEF Named
  <1>. QED
    BY <1>7, <1>11, <1>12 DEF Stepped

LEMMA InsertRowTurn == ASSUME Sorted, NEW w \in Workers, InsertRow(w) PROVE Stepped(w)
  <1>. DEFINE p  == work[w].path
              id == lastId + 1
  <1>1. /\ work[w].pc = "insert" /\ Others /\ UNCHANGED <<byPath, byID, misread>>
    BY DEF InsertRow, At, Others, files, maps, scan, watch
  <1>2. work[w].pc \in Tagged
    BY <1>1 DEF Tagged
  <1>4. excused' \in {excused, excused \union {p}} /\ faults' \in 0 .. MaxFaults
    BY GivingUp, SortedGives DEF InsertRow, past
  <1>5. wasGone' \subseteq Paths
    BY <1>2, ReadIs, SortedGives DEF InsertRow, past
  <1>6. CASE UNCHANGED <<rows, lastId>> /\ Begin(w, Idle)
    <2>1. DOMAIN work' = Workers /\ (\A v \in Workers \ {w} : work'[v] = work[v]) /\ work'[w] = Idle
      BY <1>6, Began, SortedGives
    <2>2. JobOK(w)' /\ ~Doing(w)'
      BY <2>1, IdleJob
    <2>3. Turn(w)
      BY <1>1, <1>2, <1>4, <1>5, <1>6, <2>1, <2>2, ReadIs DEF Turn
    <2>4. NewNames(w)
      BY <1>1, <1>6, <2>2, <2>3, NamesKept DEF Named
    <2>5. Tabled'
      BY <1>1, <1>6, SortedGives DEF Tabled
    <2>. QED
      BY <2>3, <2>4, <2>5 DEF Stepped
  <1>7. CASE /\ ~Taken(p) /\ lastId < MaxIds /\ lastId' = id /\ rows' = With(rows, id, Read(w))
             /\ Begin(w, [work[w] EXCEPT !.pc = "map", !.id = id])
    <2>1. /\ DOMAIN work' = Workers /\ \A v \in Workers \ {w} : work'[v] = work[v]
          /\ work'[w] = [work[w] EXCEPT !.pc = "map", !.id = id]
      BY <1>7, Began, SortedGives
    <2>2. /\ DOMAIN work'[w] = {"pc", "path", "stamp", "id", "tags"}
          /\ work'[w].pc = "map" /\ work'[w].path = p /\ work'[w].stamp = work[w].stamp
          /\ work'[w].id = id /\ work'[w].tags = work[w].tags
      BY <2>1, <1>2, ReadIs
    <2>3. id \in 0 .. lastId' /\ id # 0 /\ id \notin DOMAIN rows /\ id \notin DOMAIN byID
          /\ lastId' \in 0 .. MaxIds /\ 1 .. lastId \subseteq 1 .. lastId'
      BY <1>7, SortedGives, LibraryAssumption DEF LibraryAssumption, Tabled
    <2>. HIDE DEF id
    <2>4. JobOK(w)' /\ Doing(w)'
      BY <1>2, <2>2, <2>3, ReadIs, TaggedJob DEF Tagged
    <2>5. Turn(w)
      BY <1>1, <1>2, <1>4, <1>5, <1>7, <2>1, <2>2, <2>4, ReadIs DEF Turn, id
    <2>6. /\ DOMAIN rows' = DOMAIN rows \union {id} /\ rows'[id] = Read(w)
          /\ \A i \in DOMAIN rows : rows'[i] = rows[i]
      <3>1. rows' = With(rows, id, Read(w))
        BY <1>7
      <3>2. /\ DOMAIN rows' = DOMAIN rows \union {id} /\ rows'[id] = Read(w)
            /\ \A i \in DOMAIN rows : i # id => rows'[i] = rows[i]
        BY <3>1 DEF With
      <3>. QED
        BY <2>3, <3>2
    <2>7. Read(w) \in Track /\ Read(w).path = p
      BY <1>2, ReadIs
    <2>8. \A i \in DOMAIN rows : rows[i].path # p
      BY <1>7 DEF Taken
    <2>. HIDE DEF p
    <2>9. Tabled'
      BY <1>1, <2>3, <2>6, <2>7, <2>8, SortedGives DEF Tabled
    <2>10. NewNames(w)
      <3>1. ASSUME NEW i \in 1 .. lastId', NEW q \in Paths, Named(i, q)' PROVE Named(i, q) \/ (i = id /\ q = p)
        <4>1. CASE \E v \in Workers : work'[v].pc \in Numbered /\ work'[v].id = i /\ work'[v].path = q
          BY <4>1, <2>1, <2>2 DEF Named
        <4>2. CASE i \in DOMAIN rows' /\ rows'[i].path = q
          BY <4>2, <2>6, <2>7 DEF Named
        <4>. QED
          BY <1>1, <3>1, <4>1, <4>2 DEF Named
      <3>. QED
        BY <3>1 DEF NewNames, p, id
    <2>. QED
      BY <2>5, <2>9, <2>10 DEF Stepped
  <1>. QED
    BY <1>6, <1>7 DEF InsertRow, Return, table

LEMMA MapTrackTurn == ASSUME Sorted, NEW w \in Workers, MapTrack(w) PROVE Stepped(w)
  <1>. DEFINE p  == work[w].path
              id == work[w].id
  <1>1. /\ work[w].pc = "map" /\ Others
        /\ UNCHANGED <<rows, lastId, wasGone, misread, excused, faults>>
    BY DEF MapTrack, At, Others, files, table, scan, watch, past, bounds
  <1>2. work[w].pc \in Tagged
    BY <1>1 DEF Tagged
  <1>3. id \in 1 .. lastId /\ Named(id, p)
    BY <1>1, <1>2, IdIsMine, ReadIs, SortedGives DEF JobOK
  <1>4. Read(w) \in Track /\ Read(w).path = p /\ p \in Paths
    BY <1>2, ReadIs
  <1>5. byPath' = With(byPath, p, id) /\ byID' = With(byID, id, Read(w)) /\ Begin(w, Idle)
    BY DEF MapTrack, Return
  <1>6. DOMAIN work' = Workers /\ (\A v \in Workers \ {w} : work'[v] = work[v]) /\ work'[w] = Idle
    BY <1>5, Began, SortedGives
  <1>. HIDE DEF p, id
  <1>7. /\ DOMAIN byPath' = DOMAIN byPath \union {p} /\ byPath'[p] = id
        /\ \A q \in DOMAIN byPath : q # p => byPath'[q] = byPath[q]
    BY <1>5 DEF With
  <1>8. /\ DOMAIN byID' = DOMAIN byID \union {id} /\ byID'[id] = Read(w)
        /\ \A i \in DOMAIN byID : i # id => byID'[i] = byID[i]
    BY <1>5 DEF With
  <1>9. Tabled' /\ wasGone' \subseteq Paths /\ faults' \in 0 .. MaxFaults
    BY <1>1, <1>3, <1>4, <1>7, <1>8, SortedGives DEF Tabled
  <1>10. JobOK(w)' /\ ~Doing(w)'
    BY <1>6, IdleJob
  <1>11. Turn(w)
    BY <1>1, <1>2, <1>6, <1>9, <1>10, ReadIs DEF Turn
  <1>12. NewNames(w)
    <2>1. ASSUME NEW i \in 1 .. lastId', NEW q \in Paths,
                 \/ i \in DOMAIN rows' /\ rows'[i].path = q
                 \/ q \in DOMAIN byPath' /\ byPath'[q] = i
                 \/ i \in DOMAIN byID' /\ byID'[i].path = q
          PROVE  Named(i, q)
      BY <1>1, <1>3, <1>4, <1>7, <1>8, <2>1 DEF Named
    <2>. QED
      BY <1>10, <1>11, <2>1, NamesKept
  <1>. QED
    BY <1>9, <1>11, <1>12 DEF Stepped

LEMMA DeleteRowTurn == ASSUME Sorted, NEW w \in Workers, DeleteRow(w) PROVE Stepped(w)
  <1>. DEFINE p  == work[w].path
              id == work[w].id
  <1>1. /\ work[w].pc = "delete" /\ Doing(w) /\ Others
        /\ UNCHANGED <<lastId, byPath, byID, wasGone, misread>>
    BY DEF DeleteRow, At, Doing, Others, files, table, maps, scan, watch
  <1>2. /\ p \in Paths /\ id \in 0 .. lastId /\ id # 0 /\ DOMAIN work[w] = {"pc", "path", "id"}
        /\ Named(id, p)
    BY <1>1, SortedGives DEF JobOK, Numbered, Named
  <1>3. excused' \in {excused, excused \union {p}} /\ faults' \in 0 .. MaxFaults
    BY GivingUp, SortedGives DEF DeleteRow
  <1>4. rows' = rows \/ rows' = Without(rows, id)
    BY DEF DeleteRow
  <1>5. DOMAIN rows' \subseteq DOMAIN rows /\ \A i \in DOMAIN rows' : rows'[i] = rows[i]
    <2>1. CASE rows' = Without(rows, id)
      BY <2>1 DEF Without, Restrict
    <2>. QED
      BY <1>4, <2>1
  <1>6. Tabled' /\ wasGone' \subseteq Paths
    BY <1>1, <1>5, SortedGives DEF Tabled
  <1>7. Begin(w, [work[w] EXCEPT !.pc = "unmap"])
    BY DEF DeleteRow
  <1>8. /\ DOMAIN work' = Workers /\ \A v \in Workers \ {w} : work'[v] = work[v]
        /\ work'[w] = [work[w] EXCEPT !.pc = "unmap"]
    BY <1>7, Began, SortedGives
  <1>9. /\ work'[w].pc = "unmap" /\ work'[w].path = p /\ work'[w].id = id
        /\ DOMAIN work'[w] = {"pc", "path", "id"}
    BY <1>2, <1>8
  <1>10. JobOK(w)' /\ Doing(w)'
    BY <1>1, <1>2, <1>9 DEF JobOK, Doing, At, Steps, Stamped, Tagged, Numbered
  <1>11. Turn(w)
    BY <1>1, <1>3, <1>6, <1>8, <1>9, <1>10 DEF Turn
  <1>12. NewNames(w)
    BY <1>1, <1>2, <1>5, <1>9, <1>11, NamesKept DEF Named
  <1>. QED
    BY <1>6, <1>11, <1>12 DEF Stepped

LEMMA UnmapTurn == ASSUME Sorted, NEW w \in Workers, Unmap(w) PROVE Stepped(w)
  <1>. DEFINE p  == work[w].path
              id == work[w].id
  <1>1. /\ work[w].pc = "unmap" /\ Doing(w) /\ Others
        /\ UNCHANGED <<rows, lastId, wasGone, misread, excused, faults>>
    BY DEF Unmap, At, Doing, Others, files, table, scan, watch, past, bounds
  <1>2. work[w].pc \in Numbered /\ id # 0 /\ p \in Paths
    BY <1>1, SortedGives DEF JobOK, Numbered
  <1>3. byPath' = Without(byPath, p) /\ byID' = Without(byID, id) /\ Begin(w, Idle)
    BY DEF Unmap, Return
  <1>4. DOMAIN work' = Workers /\ (\A v \in Workers \ {w} : work'[v] = work[v]) /\ work'[w] = Idle
    BY <1>3, Began, SortedGives
  <1>5. \A q \in DOMAIN byPath : byPath[q] = id => q = p
    BY <1>2, IdIsMine, SortedGives DEF Named, Tabled
  <1>. HIDE DEF p, id
  <1>6. /\ DOMAIN byPath' = DOMAIN byPath \ {p} /\ \A q \in DOMAIN byPath' : byPath'[q] = byPath[q]
        /\ DOMAIN byID' = DOMAIN byID \ {id} /\ \A i \in DOMAIN byID' : byID'[i] = byID[i]
    <2>1. DOMAIN byPath' = DOMAIN byPath \ {p} /\ \A q \in DOMAIN byPath' : byPath'[q] = byPath[q]
      BY <1>3 DEF Without, Restrict
    <2>2. DOMAIN byID' = DOMAIN byID \ {id} /\ \A i \in DOMAIN byID' : byID'[i] = byID[i]
      BY <1>3 DEF Without, Restrict
    <2>. QED
      BY <2>1, <2>2
  <1>7. Tabled' /\ wasGone' \subseteq Paths /\ faults' \in 0 .. MaxFaults
    BY <1>1, <1>5, <1>6, SortedGives DEF Tabled
  <1>8. JobOK(w)' /\ ~Doing(w)'
    BY <1>4, IdleJob
  <1>9. Turn(w)
    BY <1>1, <1>4, <1>7, <1>8 DEF Turn
  <1>10. NewNames(w)
    BY <1>1, <1>6, <1>8, <1>9, NamesKept DEF Named
  <1>. QED
    BY <1>7, <1>9, <1>10 DEF Stepped

LEMMA StatTurn == ASSUME Sorted, NEW w \in Workers, Stat(w) PROVE Stepped(w)
  <1>. DEFINE p == work[w].path
  <1>1. /\ work[w].pc = "stat" /\ Doing(w) /\ Others
        /\ UNCHANGED <<rows, lastId, byPath, byID, wasGone, misread>>
    BY DEF Stat, At, Doing, Others, files, table, maps, scan, watch
  <1>2. p \in Paths /\ Tabled' /\ wasGone' \subseteq Paths
    BY <1>1, SortedGives DEF Tabled
  <1>3. excused' \in {excused, excused \union {p}} /\ faults' \in 0 .. MaxFaults
    BY GivingUp, SortedGives DEF Stat
  <1>4. Begin(w, [pc |-> "find", path |-> p]) \/ Begin(w, [pc |-> "check", path |-> p])
    BY DEF Stat
  <1>5. /\ DOMAIN work' = Workers /\ \A v \in Workers \ {w} : work'[v] = work[v]
        /\ work'[w] = [pc |-> "find", path |-> p] \/ work'[w] = [pc |-> "check", path |-> p]
    BY <1>4, Began, SortedGives
  <1>6. JobOK(w)' /\ Doing(w)' /\ work'[w].path = p /\ work'[w].pc \in {"find", "check"}
    BY <1>2, <1>5, PathJob
  <1>7. Turn(w)
    BY <1>1, <1>2, <1>3, <1>5, <1>6 DEF Turn
  <1>8. NewNames(w)
    BY <1>1, <1>6, <1>7, NamesKept DEF Numbered, Tagged, Named
  <1>. QED
    BY <1>2, <1>7, <1>8 DEF Stepped

LEMMA GetByPathTurn == ASSUME Sorted, NEW w \in Workers, GetByPath(w) PROVE Stepped(w)
  <1>. DEFINE p == work[w].path
  <1>1. /\ work[w].pc = "find" /\ Doing(w) /\ Others
        /\ UNCHANGED <<rows, lastId, byPath, byID, wasGone, misread, excused, faults>>
    BY DEF GetByPath, At, Doing, Others, files, table, maps, scan, watch, past, bounds
  <1>2. p \in Paths /\ Tabled' /\ wasGone' \subseteq Paths /\ faults' \in 0 .. MaxFaults
    BY <1>1, SortedGives DEF Tabled
  <1>3. \/ Begin(w, Idle)
        \/ p \in DOMAIN byPath /\ Begin(w, [pc |-> "delete", path |-> p, id |-> byPath[p]])
    BY DEF GetByPath, Return
  <1>4. /\ DOMAIN work' = Workers /\ \A v \in Workers \ {w} : work'[v] = work[v]
        /\ \/ work'[w] = Idle
           \/ p \in DOMAIN byPath /\ work'[w] = [pc |-> "delete", path |-> p, id |-> byPath[p]]
    BY <1>3, Began, SortedGives
  <1>5. p \in DOMAIN byPath => byPath[p] \in 1 .. lastId' /\ lastId' \in Nat /\ Named(byPath[p], p)
    BY <1>1, SortedGives DEF Tabled, Named
  <1>6. /\ JobOK(w)'
        /\ Doing(w)' => /\ work'[w].path = p /\ work'[w].pc = "delete" /\ p \in DOMAIN byPath
                        /\ work'[w].id = byPath[p]
    BY <1>2, <1>4, <1>5, IdleJob, DeleteJob
  <1>7. Turn(w)
    BY <1>1, <1>2, <1>4, <1>6 DEF Turn
  <1>8. NewNames(w)
    BY <1>1, <1>5, <1>6, <1>7, NamesKept DEF Named
  <1>. QED
    BY <1>2, <1>7, <1>8 DEF Stepped

-----------------------------------------------------------------------------
(* Every step keeps types, ids and phases. *)

Framed ==
    /\ disk \in [Paths -> Versions] /\ dir \in BOOLEAN
    /\ \A p \in Inside : disk[p] # 0 => dir
    /\ clock \in Versions /\ left \subseteq Paths \X Versions
    /\ phase \in {"down", "scan", "watch"} /\ todo \subseteq Paths /\ seen \subseteq Paths
    /\ watched \in BOOLEAN /\ events \subseteq Paths /\ newDir \in BOOLEAN
    /\ timers \subseteq Paths
    /\ excused \subseteq Paths /\ risked \subseteq excused /\ misread \subseteq Paths
    /\ wasGone \subseteq Paths
    /\ faults \in 0 .. MaxFaults /\ crashes \in 0 .. MaxCrashes

LEMMA SortedIs ==
    Sorted <=> /\ Tabled /\ Framed /\ OnePath /\ Phases
               /\ DOMAIN work = Workers /\ \A w \in Workers : JobOK(w)
  <1>1. ASSUME \A w \in Workers : JobOK(w)
        PROVE  \A w \in Workers : work[w] = Idle \/ (work[w].pc \in Steps /\ work[w].path \in Paths)
    BY <1>1 DEF JobOK, Doing, At, Steps
  <1>. QED
    BY <1>1 DEF Sorted, TypeOK, Tabled, Framed

LEMMA SortedAfter ==
    ASSUME Tabled', Framed', OnePath', Phases', DOMAIN work' = Workers,
           \A w \in Workers : JobOK(w)'
    PROVE  Sorted'
  <1>1. \A w \in Workers : work'[w] = Idle \/ (work'[w].pc \in Steps /\ work'[w].path \in Paths)
    BY DEF JobOK, Doing, At, Steps
  <1>. QED
    BY <1>1 DEF Sorted, TypeOK, Tabled, Framed

LEMMA OldNames ==
    ASSUME Sorted, NEW id, NEW p, Named(id, p), id # 0
    PROVE  id \in 1 .. lastId
  BY SortedIs DEF Named, Tabled, JobOK

LEMMA TurnSorted ==
    ASSUME Sorted, NEW w \in Workers, Stepped(w)
    PROVE  Sorted'
  <1>1. Turn(w) /\ Tabled' /\ NewNames(w)
    BY DEF Stepped
  <1>2. /\ Tabled /\ Framed /\ OnePath /\ Phases
        /\ DOMAIN work = Workers /\ (\A v \in Workers : JobOK(v)) /\ Doing(w) /\ lastId \in Nat
    BY <1>1, SortedIs, SortedGives DEF Turn
  <1>3. Framed'
    BY <1>1, <1>2, SortedGives DEF Framed, Turn, Others
  <1>4. \A v \in Workers : JobOK(v)'
    <2>1. ASSUME NEW v \in Workers, v # w PROVE JobOK(v)'
      <3>1. work'[v] = work[v] /\ JobOK(v) /\ lastId' \in {lastId, lastId + 1}
        BY <1>1, <1>2, <2>1 DEF Turn
      <3>2. \A id \in 0 .. lastId : id \in 0 .. lastId'
        BY <1>2, <3>1
      <3>. QED
        BY <3>1, <3>2 DEF JobOK, Doing, At
    <2>. QED
      BY <1>1, <2>1 DEF Turn
  <1>5. OnePath'
    <2>. SUFFICES ASSUME NEW id \in 1 .. lastId', NEW p \in Paths, NEW q \in Paths,
                         Named(id, p)', Named(id, q)'
                  PROVE  p = q
      BY DEF OnePath
    <2>1. /\ Named(id, p) \/ (id = lastId + 1 /\ p = work[w].path)
          /\ Named(id, q) \/ (id = lastId + 1 /\ q = work[w].path)
      BY <1>1 DEF NewNames
    <2>2. id \in 1 .. lastId => id # lastId + 1
      BY <1>2
    <2>3. id # 0
      OBVIOUS
    <2>. QED
      BY <1>2, <2>1, <2>2, <2>3, OldNames DEF OnePath
  <1>6. Phases'
    <2>1. phase # "watch" => w = Scan
      BY <1>2 DEF Phases, Workers, Doing
    <2>2. phase # "scan" => w # Scan
      BY <1>2 DEF Phases, Doing
    <2>3. Others /\ \A v \in Workers \ {w} : work'[v] = work[v]
      BY <1>1 DEF Turn
    <2>4. /\ phase # "watch" => events' = {} /\ timers' = {} /\ watched' = FALSE /\ newDir' = FALSE
          /\ \A c \in Callbacks : phase # "watch" => At(c, "idle")'
      BY <1>2, <2>1, <2>3, LibraryAssumption DEF Phases, Others, At, Workers, LibraryAssumption
    <2>5. phase # "scan" => At(Scan, "idle")'
      BY <1>2, <2>2, <2>3 DEF Phases, At, Workers
    <2>6. /\ phase # "down" /\ (watched' => dir') /\ UNCHANGED <<phase, todo, seen>>
          /\ todo \intersect seen = {}
      BY <1>2, <2>1, <2>2, <2>3 DEF Phases, Others
    <2>7. \/ At(Scan, "idle")'
          \/ /\ work'[Scan].path \notin todo
             /\ work'[Scan].path \notin seen <=> work'[Scan].pc \in {"delete", "unmap"}
             /\ work'[Scan].pc \notin {"stat", "find"}
      <3>1. CASE w = Scan
        BY <1>1, <1>2, <3>1 DEF Phases, Turn, Doing
      <3>2. CASE w # Scan
        BY <1>2, <2>3, <3>2 DEF Phases, At, Workers
      <3>. QED
        BY <3>1, <3>2
    <2>. QED
      BY <2>4, <2>5, <2>6, <2>7 DEF Phases
  <1>7. DOMAIN work' = Workers
    BY <1>1 DEF Turn
  <1>. QED
    BY <1>1, <1>3, <1>4, <1>5, <1>6, <1>7, SortedAfter

(* Steps that begin no job and leave memory and table alone.               *)
LEMMA SameWork ==
    ASSUME Sorted, UNCHANGED <<rows, lastId, byPath, byID, work>>
    PROVE  Tabled' /\ OnePath' /\ DOMAIN work' = Workers /\ \A w \in Workers : JobOK(w)'
  <1>1. Tabled' /\ DOMAIN work' = Workers
    BY SortedIs DEF Tabled
  <1>2. \A w \in Workers : JobOK(w)'
    BY SortedIs DEF JobOK, Doing, At
  <1>3. OnePath'
    BY SortedIs DEF OnePath, Named
  <1>. QED
    BY <1>1, <1>2, <1>3

(* Steps that begin a job of w and leave memory and table alone.           *)
LEMMA NewJob ==
    ASSUME Sorted, UNCHANGED <<rows, lastId, byPath, byID>>, NEW w \in Workers,
           DOMAIN work' = Workers, \A v \in Workers \ {w} : work'[v] = work[v], JobOK(w)',
           work'[w].pc \in Numbered => Named(work'[w].id, work'[w].path)
    PROVE  Tabled' /\ OnePath' /\ \A v \in Workers : JobOK(v)'
  <1>1. Tabled'
    BY SortedIs DEF Tabled
  <1>2. \A v \in Workers : JobOK(v)'
    BY SortedIs DEF JobOK, Doing, At
  <1>3. \A id, p : Named(id, p)' => Named(id, p)
    BY DEF Named
  <1>4. OnePath'
    BY <1>3, SortedIs DEF OnePath
  <1>. QED
    BY <1>1, <1>2, <1>4

LEMMA FilesSorted == ASSUME Sorted, FileStep PROVE Sorted' /\ Touches
  <1>1. Touches
    BY FileStepTouches, SortedIs DEF Sorted, Phases
  <1>2. Tabled' /\ OnePath' /\ DOMAIN work' = Workers /\ \A w \in Workers : JobOK(w)'
    BY <1>1, SameWork DEF Touches
  <1>3. Framed'
    BY <1>1, SortedIs DEF Framed, Touches
  <1>4. Phases'
    BY <1>1, SortedIs DEF Phases, At, Touches
  <1>. QED
    BY <1>1, <1>2, <1>3, <1>4, SortedAfter

LEMMA QuietStepSorted ==
    ASSUME Sorted,
           \/ Overflow \/ AddRecursive \/ HandleNewDir
           \/ \E p \in Paths : Schedule(p)
           \/ \E S \in {Paths, Inside} : Unreadable(S)
    PROVE  Sorted'
  <1>1. UNCHANGED <<rows, lastId, byPath, byID, work>>
    BY DEF Overflow, AddRecursive, HandleNewDir, Schedule, Unreadable, table, maps
  <1>2. Tabled' /\ OnePath' /\ DOMAIN work' = Workers /\ \A w \in Workers : JobOK(w)'
    BY <1>1, SameWork
  <1>3. Framed /\ Phases /\ Scan \in Workers
    BY SortedIs DEF Workers
  <1>4. Framed' /\ Phases'
    <2>1. CASE Overflow
      <3>1. /\ faults' \in 0 .. MaxFaults /\ events' = {} /\ newDir' = FALSE
            /\ excused' = excused \union events
            /\ UNCHANGED <<disk, dir, clock, left, phase, todo, seen, watched, timers, risked, misread,
                           wasGone, crashes>>
        BY <2>1, GivingUp, <1>3 DEF Overflow, Fails, files, scan
      <3>. QED
        BY <1>1, <1>3, <3>1 DEF Framed, Phases, At
    <2>2. CASE AddRecursive
      <3>1. /\ phase' = "watch" /\ seen' = {} /\ watched' = dir /\ phase = "scan" /\ At(Scan, "idle")
            /\ UNCHANGED <<disk, dir, clock, left, todo, events, newDir, timers, excused, misread,
                           wasGone, faults, crashes>>
            /\ risked' = {}
        BY <2>2 DEF AddRecursive, ScanIdle, files, past, bounds
      <3>. QED
        BY <1>1, <1>3, <3>1 DEF Framed, Phases, At
    <2>3. CASE HandleNewDir
      <3>1. /\ newDir' = FALSE /\ watched' = dir /\ newDir
            /\ UNCHANGED <<disk, dir, clock, left, phase, todo, seen, events, timers, excused, risked,
                           misread, wasGone, faults, crashes>>
        BY <2>3 DEF HandleNewDir, files, past, bounds, scan
      <3>. QED
        BY <1>1, <1>3, <3>1 DEF Framed, Phases, At
    <2>4. ASSUME NEW p \in Paths, Schedule(p) PROVE Framed' /\ Phases'
      <3>1. /\ p \in events /\ events' = events \ {p} /\ timers' = timers \union {p}
            /\ UNCHANGED <<disk, dir, clock, left, phase, todo, seen, watched, newDir, excused, risked,
                           misread, wasGone, faults, crashes>>
        BY <2>4 DEF Schedule, files, past, bounds, scan
      <3>. QED
        BY <1>1, <1>3, <3>1 DEF Framed, Phases, At
    <2>5. ASSUME NEW S \in {Paths, Inside}, Unreadable(S) PROVE Framed' /\ Phases'
      <3>1. /\ todo' = todo \ S /\ excused' = excused \union S /\ S \subseteq Paths
            /\ risked' = risked \union S
            /\ faults' \in 0 .. MaxFaults /\ phase = "scan" /\ At(Scan, "idle")
            /\ UNCHANGED <<disk, dir, clock, left, phase, seen, watched, events, newDir, timers,
                           misread, wasGone, crashes>>
        BY <2>5, <1>3, GivingUp, LibraryAssumption
           DEF Unreadable, ScanIdle, files, watch, LibraryAssumption
      <3>. QED
        BY <1>1, <1>3, <3>1 DEF Framed, Phases, At
    <2>. QED
      BY <2>1, <2>2, <2>3, <2>4, <2>5
  <1>. QED
    BY <1>2, <1>4, SortedAfter

LEMMA CrashSorted == ASSUME Sorted, Crash PROVE Sorted'
  <1>1. /\ phase' = "down" /\ todo' = {} /\ seen' = {} /\ byPath' = Empty /\ byID' = Empty
        /\ watched' = FALSE /\ events' = {} /\ newDir' = FALSE /\ timers' = {} /\ excused' = {}
        /\ risked' = {} /\ work' = [w \in Workers |-> Idle] /\ crashes' = crashes + 1 /\ crashes < MaxCrashes
        /\ UNCHANGED <<disk, dir, clock, left, rows, lastId, misread, wasGone, faults>>
    BY DEF Crash, files, table
  <1>2. Tabled /\ Framed /\ OnePath
    BY SortedIs
  <1>3. DOMAIN work' = Workers /\ \A w \in Workers : work'[w] = Idle
    BY <1>1
  <1>4. Framed'
    <2>1. crashes' \in 0 .. MaxCrashes
      BY <1>1, <1>2, LibraryAssumption DEF Framed, LibraryAssumption
    <2>. QED
      BY <1>1, <1>2, <2>1 DEF Framed
  <1>5. Tabled'
    BY <1>1, <1>2, EmptyIs DEF Tabled
  <1>6. \A w \in Workers : JobOK(w)' /\ ~Doing(w)'
    BY <1>3, IdleJob
  <1>7. Phases'
    BY <1>1, <1>6 DEF Phases, Doing, Workers
  <1>8. \A id, p : Named(id, p)' => Named(id, p)
    BY <1>1, <1>6, EmptyIs DEF Named, Doing, At, Numbered, Tagged
  <1>9. OnePath'
    BY <1>1, <1>2, <1>8 DEF OnePath
  <1>. QED
    BY <1>3, <1>4, <1>5, <1>6, <1>7, <1>9, SortedAfter

LEMMA LoadSorted == ASSUME Sorted, Load PROVE Sorted'
  <1>1. /\ phase = "down" /\ phase' = "scan"
        /\ UNCHANGED <<disk, dir, clock, left, rows, lastId, seen, watched, events, newDir, timers, work,
                       risked, misread, wasGone, crashes>>
    BY DEF Load, files, table, watch
  <1>2. Tabled /\ Framed /\ OnePath /\ Phases /\ DOMAIN work = Workers
        /\ \A w \in Workers : JobOK(w)
    BY SortedIs
  <1>3. \A w \in Workers : work[w].pc = "idle"
    BY <1>1, <1>2 DEF Phases, Workers, At
  <1>4. /\ excused' \subseteq Paths /\ excused \subseteq excused' /\ faults' \in 0 .. MaxFaults
        /\ todo' \subseteq Paths
    BY <1>2, LibraryAssumption DEF Load, Framed, Works, Fails, LibraryAssumption
  <1>5. Framed'
    BY <1>1, <1>2, <1>4 DEF Framed
  <1>6. /\ DOMAIN byPath' \subseteq Paths /\ byID' \in {byID, rows}
        /\ \A p \in DOMAIN byPath' : byPath'[p] \in DOMAIN byID'
        /\ \A p \in DOMAIN byPath' : byPath'[p] \in DOMAIN rows /\ rows[byPath'[p]].path = p
    <2>1. CASE UNCHANGED <<byPath, byID>>
      BY <1>1, <1>2, <2>1, EmptyIs DEF Phases, Tabled
    <2>2. CASE /\ byPath' = [p \in {rows[id].path : id \in DOMAIN rows} |->
                                 CHOOSE id \in DOMAIN rows : rows[id].path = p]
               /\ byID' = rows
      <3>1. DOMAIN byPath' = {rows[id].path : id \in DOMAIN rows}
        BY <2>2
      <3>2. \A p \in DOMAIN byPath' : byPath'[p] \in DOMAIN rows /\ rows[byPath'[p]].path = p
        BY <2>2
      <3>. QED
        BY <1>2, <2>2, <3>1, <3>2 DEF Tabled, Track
    <2>. QED
      BY <2>1, <2>2 DEF Load, maps
  <1>7. Tabled'
    BY <1>1, <1>2, <1>6 DEF Tabled
  <1>8. \A w \in Workers : JobOK(w)'
    BY <1>1, <1>2 DEF JobOK, Doing, At
  <1>9. Phases'
    BY <1>1, <1>2, <1>3 DEF Phases, At, Workers
  <1>10. \A id, p : Named(id, p)' => Named(id, p)
    BY <1>1, <1>6 DEF Named
  <1>11. OnePath'
    BY <1>1, <1>2, <1>10 DEF OnePath
  <1>. QED
    BY <1>1, <1>2, <1>5, <1>7, <1>8, <1>9, <1>11, SortedAfter

LEMMA VisitSorted == ASSUME Sorted, NEW p \in Paths, Visit(p) PROVE Sorted'
  <1>1. /\ phase = "scan" /\ At(Scan, "idle") /\ todo' = todo \ {p} /\ p \in todo
        /\ UNCHANGED <<disk, dir, clock, left, rows, lastId, byPath, byID, phase, watched, events, newDir,
                       timers, excused, risked, misread, wasGone, faults, crashes>>
    BY DEF Visit, ScanIdle, files, table, maps, watch, past, bounds
  <1>2. Framed /\ Phases /\ DOMAIN work = Workers /\ Scan \in Workers /\ JobOK(Scan)
    BY SortedIs DEF Workers
  <1>3. CASE UNCHANGED <<seen, work>>
    <2>1. Framed' /\ Phases'
      BY <1>1, <1>2, <1>3 DEF Framed, Phases, At
    <2>. QED
      BY <1>1, <1>3, <2>1, SameWork, SortedAfter
  <1>4. CASE seen' = seen \union {p} /\ Begin(Scan, [pc |-> "check", path |-> p])
    <2>1. /\ DOMAIN work' = Workers /\ work'[Scan] = [pc |-> "check", path |-> p]
          /\ \A v \in Workers \ {Scan} : work'[v] = work[v]
      BY <1>2, <1>4, Began
    <2>2. JobOK(Scan)' /\ work'[Scan].path = p /\ work'[Scan].pc = "check"
      BY <2>1, PathJob
    <2>3. Tabled' /\ OnePath' /\ \A v \in Workers : JobOK(v)'
      BY <1>1, <1>2, <2>1, <2>2, NewJob DEF Numbered, Tagged
    <2>4. Framed'
      BY <1>1, <1>2, <1>4 DEF Framed
    <2>5. Phases'
      BY <1>1, <1>2, <1>4, <2>1, <2>2, LibraryAssumption DEF Phases, At, Workers, LibraryAssumption
    <2>. QED
      BY <2>1, <2>3, <2>4, <2>5, SortedAfter
  <1>. QED
    BY <1>3, <1>4 DEF Visit

LEMMA ReconcileSorted == ASSUME Sorted, NEW p \in Paths, ReconcileRemoved(p) PROVE Sorted'
  <1>1. /\ phase = "scan" /\ At(Scan, "idle") /\ todo = {} /\ p \in DOMAIN byPath /\ p \notin seen
        /\ Begin(Scan, [pc |-> "delete", path |-> p, id |-> byPath[p]])
        /\ UNCHANGED <<disk, dir, clock, left, rows, lastId, byPath, byID, phase, todo, seen, watched,
                       events, newDir, timers, excused, risked, misread, wasGone, faults,
                       crashes>>
    BY DEF ReconcileRemoved, ScanIdle, Unseen, files, table, maps, scan, watch, past, bounds
  <1>2. Framed /\ Phases /\ Tabled /\ DOMAIN work = Workers /\ Scan \in Workers
    BY SortedIs DEF Workers
  <1>3. /\ DOMAIN work' = Workers /\ work'[Scan] = [pc |-> "delete", path |-> p, id |-> byPath[p]]
        /\ \A v \in Workers \ {Scan} : work'[v] = work[v]
    BY <1>1, <1>2, Began
  <1>4. byPath[p] \in 1 .. lastId' /\ lastId' \in Nat /\ Named(byPath[p], p)
    BY <1>1, <1>2, SortedGives DEF Tabled, Named
  <1>5. /\ JobOK(Scan)' /\ work'[Scan].path = p /\ work'[Scan].pc = "delete"
        /\ work'[Scan].id = byPath[p]
    BY <1>3, <1>4, DeleteJob
  <1>6. Tabled' /\ OnePath' /\ \A v \in Workers : JobOK(v)'
    BY <1>1, <1>2, <1>3, <1>4, <1>5, NewJob
  <1>7. Framed'
    BY <1>1, <1>2 DEF Framed
  <1>8. Phases'
    BY <1>1, <1>2, <1>3, <1>5, LibraryAssumption DEF Phases, At, Workers, LibraryAssumption
  <1>. QED
    BY <1>3, <1>6, <1>7, <1>8, SortedAfter

LEMMA FireSorted == ASSUME Sorted, NEW p \in Paths, NEW c \in Callbacks, Fire(p, c) PROVE Sorted'
  <1>1. /\ p \in timers /\ timers' = timers \ {p} /\ At(c, "idle")
        /\ Begin(c, [pc |-> "stat", path |-> p])
        /\ \/ UNCHANGED <<excused, risked>>
           \/ excused' = excused \union {p} /\ risked' = risked \union {p}
        /\ UNCHANGED <<disk, dir, clock, left, rows, lastId, byPath, byID, phase, todo, seen, watched,
                       events, newDir, misread, wasGone, faults, crashes>>
    BY DEF Fire, files, table, maps, scan, bounds
  <1>2. Framed /\ Phases /\ DOMAIN work = Workers /\ c \in Workers /\ c # Scan /\ Scan \in Workers
    BY SortedIs, LibraryAssumption DEF Workers, LibraryAssumption
  <1>3. /\ DOMAIN work' = Workers /\ work'[c] = [pc |-> "stat", path |-> p]
        /\ \A v \in Workers \ {c} : work'[v] = work[v]
    BY <1>1, <1>2, Began
  <1>4. JobOK(c)' /\ work'[c].path = p /\ work'[c].pc = "stat"
    BY <1>3, PathJob
  <1>5. Tabled' /\ OnePath' /\ \A v \in Workers : JobOK(v)'
    BY <1>1, <1>2, <1>3, <1>4, NewJob DEF Numbered, Tagged
  <1>6. Framed'
    BY <1>1, <1>2 DEF Framed
  <1>7. phase = "watch"
    BY <1>1, <1>2 DEF Phases
  <1>8. Phases'
    BY <1>1, <1>2, <1>3, <1>7 DEF Phases, At
  <1>. QED
    BY <1>3, <1>5, <1>6, <1>8, SortedAfter

LEMMA SortedInit == Init => Sorted
  <1>. SUFFICES ASSUME Init PROVE Sorted
    OBVIOUS
  <1>1. /\ disk \in [Paths -> {0, 1}] /\ dir \in BOOLEAN /\ clock = 1 /\ left = {}
        /\ \A p \in Inside : disk[p] # 0 => dir
        /\ rows = Empty /\ lastId = 0 /\ byPath = Empty /\ byID = Empty
        /\ phase = "down" /\ todo = {} /\ seen = {}
        /\ watched = FALSE /\ events = {} /\ newDir = FALSE /\ timers = {}
        /\ work = [w \in Workers |-> Idle] /\ excused = {} /\ wasGone = {}
        /\ risked = {} /\ misread = {}
        /\ faults = 0 /\ crashes = 0
    BY DEF Init
  <1>2. /\ 0 \in Versions /\ 1 \in Versions /\ 0 \in 0 .. MaxFaults /\ 0 \in 0 .. MaxCrashes
        /\ 0 \in 0 .. MaxIds /\ 1 .. 0 = {}
    BY LibraryAssumption DEF Versions, LibraryAssumption
  <1>3. DOMAIN work = Workers /\ \A w \in Workers : work[w].pc = "idle" /\ work[w] = Idle
    BY <1>1 DEF Idle
  <1>4. \A w \in Workers : JobOK(w)
    BY <1>3 DEF JobOK, Doing, At, Steps, Stamped, Tagged, Numbered
  <1>5. Framed
    BY <1>1, <1>2 DEF Framed
  <1>6. Tabled
    BY <1>1, <1>2, EmptyIs DEF Tabled
  <1>7. Phases
    BY <1>1, <1>3 DEF Phases, At, Workers
  <1>8. OnePath
    BY <1>1, <1>2 DEF OnePath
  <1>. QED
    BY <1>3, <1>4, <1>5, <1>6, <1>7, <1>8, SortedIs

LEMMA JobSteps ==
    ASSUME Sorted, NEW w \in Workers, Step(w) \/ Stat(w) \/ GetByPath(w)
    PROVE  Stepped(w)
  BY CheckTurn, LookupTurn, ReadTagsTurn, UpdateRowTurn, SetFieldsTurn, InsertRowTurn, MapTrackTurn,
     DeleteRowTurn, UnmapTurn, StatTurn, GetByPathTurn DEF Step

LEMMA SortedNext == ASSUME Sorted, [Next]_vars PROVE Sorted'
  <1>1. CASE UNCHANGED vars
    <2>1. UNCHANGED <<disk, dir, clock, left, rows, lastId, byPath, byID, phase, todo, seen, watched,
                      events, newDir, timers, work, excused, risked, misread, wasGone, faults,
                      crashes>>
      BY <1>1 DEF vars, files, table, maps, scan, watch, past, bounds
    <2>2. Framed' /\ Phases'
      BY <2>1, SortedIs DEF Framed, Phases, At
    <2>. QED
      BY <2>1, <2>2, SameWork, SortedAfter
  <1>2. CASE Next
    <2>1. ASSUME NEW w \in Workers, Step(w) \/ Stat(w) \/ GetByPath(w) PROVE Sorted'
      BY <2>1, JobSteps, TurnSorted
    <2>2. Callbacks \subseteq Workers
      BY DEF Workers
    <2>. QED
      BY <1>2, <2>1, <2>2, LibraryCases, FilesSorted, QuietStepSorted, CrashSorted, LoadSorted,
         VisitSorted, ReconcileSorted, FireSorted
  <1>. QED
    BY <1>1, <1>2

LEMMA AlwaysSorted == Spec => []Sorted
  BY SortedInit, SortedNext, PTL DEF Spec

(* TypeOK of Library: ids in memory are those of the table, tracks.path    *)
(* stays UNIQUE and what GetByPath finds can be looked up, whatever        *)
(* callbacks overlap and whatever fails.                                   *)
THEOREM AlwaysTyped == Spec => []TypeOK
  <1>1. Sorted => TypeOK
    BY DEF Sorted
  <1>. QED
    BY <1>1, AlwaysSorted, PTL

-----------------------------------------------------------------------------
(* A row goes only if its file was gone. *)

(* UPDATE gives a row no other path. *)
LEMMA UpdateKeepsPath ==
    ASSUME Sorted, NEW w \in Workers, UpdateRow(w)
    PROVE  DOMAIN rows' = DOMAIN rows /\ \A i \in DOMAIN rows : rows'[i].path = rows[i].path
  <1>. DEFINE p  == work[w].path
              id == work[w].id
  <1>1. work[w].pc \in Tagged /\ id \in 1 .. lastId /\ (\A q \in Paths : Named(id, q) => q = p)
    BY IdIsMine, ReadIs, SortedGives DEF UpdateRow, At, Tagged, JobOK
  <1>2. rows' = rows \/ (id \in DOMAIN rows /\ rows' = [rows EXCEPT ![id] = Read(w)])
    BY DEF UpdateRow
  <1>3. CASE id \in DOMAIN rows /\ rows' = [rows EXCEPT ![id] = Read(w)]
    <2>1. rows[id].path \in Paths /\ Named(id, rows[id].path)
      BY <1>3, SortedGives DEF Tabled, Track, Named
    <2>2. rows[id].path = p /\ Read(w).path = p
      BY <1>1, <2>1, ReadIs
    <2>. HIDE DEF p
    <2>. QED
      BY <1>3, <2>2
  <1>. QED
    BY <1>2, <1>3

Guarded == Alone /\ Condemned

(* The row of a path comes by INSERT only. *)
Inserts(w) == /\ At(w, "insert") /\ ~Taken(work[w].path) /\ work'[w].pc = "map"
              /\ \A p : Taken(p)' => Taken(p) \/ p = work[w].path
              /\ wasGone' = IF disk[work[w].path] = 0 THEN wasGone \union {work[w].path}
                                                      ELSE wasGone \ {work[w].path}
              /\ excused' = excused
NoInsert(w) == wasGone' = wasGone /\ \A p : Taken(p)' => Taken(p)

LEMMA WhoInserts ==
    ASSUME Sorted, NEW w \in Workers, Step(w) \/ Stat(w) \/ GetByPath(w)
    PROVE  Inserts(w) \/ NoInsert(w)
  <1>. /\ DOMAIN work = Workers /\ Tabled /\ lastId \in Nat
    BY SortedGives
  <1>1. CASE UpdateRow(w)
    BY <1>1, UpdateKeepsPath DEF UpdateRow, NoInsert, Taken
  <1>2. CASE DeleteRow(w)
    <2>1. rows' = rows \/ rows' = Without(rows, work[w].id)
      BY <1>2 DEF DeleteRow
    <2>2. DOMAIN rows' \subseteq DOMAIN rows /\ \A i \in DOMAIN rows' : rows'[i] = rows[i]
      <3>1. CASE rows' = Without(rows, work[w].id)
        BY <3>1 DEF Without, Restrict
      <3>. QED
        BY <2>1, <3>1
    <2>. QED
      BY <1>2, <2>2 DEF DeleteRow, NoInsert, Taken
  <1>3. CASE InsertRow(w)
    <2>1. CASE UNCHANGED <<rows, wasGone>>
      BY <2>1 DEF NoInsert, Taken
    <2>2. CASE /\ ~Taken(work[w].path) /\ rows' = With(rows, lastId', Read(w)) /\ lastId' = lastId + 1
               /\ wasGone' = IF disk[work[w].path] = 0 THEN wasGone \union {work[w].path}
                                                       ELSE wasGone \ {work[w].path}
               /\ Begin(w, [work[w] EXCEPT !.pc = "map", !.id = lastId'])
               /\ UNCHANGED excused
      <3>1. work'[w] = [work[w] EXCEPT !.pc = "map", !.id = lastId']
        BY <2>2, Began
      <3>2. At(w, "insert") /\ work[w].pc \in Tagged
        BY <1>3 DEF InsertRow, At, Tagged
      <3>3. work'[w].pc = "map"
        BY <3>1, <3>2, ReadIs
      <3>4. /\ DOMAIN rows' = DOMAIN rows \union {lastId'} /\ rows'[lastId'] = Read(w)
            /\ \A i \in DOMAIN rows : i # lastId' => rows'[i] = rows[i]
        BY <2>2 DEF With
      <3>5. lastId' \notin DOMAIN rows /\ Read(w).path = work[w].path
        BY <2>2 DEF Tabled, Read
      <3>6. \A p : Taken(p)' => Taken(p) \/ p = work[w].path
        BY <3>4, <3>5 DEF Taken
      <3>. QED
        BY <2>2, <3>2, <3>3, <3>6 DEF Inserts
    <2>. QED
      BY <1>3, <2>1, <2>2 DEF InsertRow, table, past
  <1>4. CASE Check(w) \/ Lookup(w) \/ ReadTags(w) \/ SetFields(w) \/ MapTrack(w) \/ Unmap(w)
             \/ Stat(w) \/ GetByPath(w)
    BY <1>4 DEF Check, Lookup, ReadTags, SetFields, MapTrack, Unmap, Stat, GetByPath, table, past,
                NoInsert, Taken
  <1>. QED
    BY <1>1, <1>2, <1>3, <1>4 DEF Step

(* Stat finds the file gone, GetByPath goes on with what Stat found.       *)
LEMMA WhoDeletes ==
    ASSUME Sorted, NEW w \in Workers, Step(w) \/ Stat(w) \/ GetByPath(w),
           work'[w].pc \in {"find", "delete"}
    PROVE  disk[work[w].path] = 0 \/ work[w].pc = "find"
  <1>. DOMAIN work = Workers
    BY SortedGives
  <1>1. CASE Stat(w)
    BY <1>1, Began DEF Stat, Gone
  <1>2. CASE GetByPath(w)
    BY <1>2 DEF GetByPath, At
  <1>3. CASE Check(w) \/ Lookup(w) \/ SetFields(w) \/ MapTrack(w) \/ Unmap(w)
    BY <1>3, Began DEF Check, Lookup, SetFields, MapTrack, Unmap, Return, Idle
  <1>4. CASE ReadTags(w)
    BY <1>4, Began DEF ReadTags
  <1>5. CASE UpdateRow(w) \/ InsertRow(w)
    <2>1. work[w].pc \in Tagged
      BY <1>5 DEF UpdateRow, InsertRow, At, Tagged
    <2>2. work'[w] \in {Idle, [work[w] EXCEPT !.pc = "set"], [work[w] EXCEPT !.pc = "map", !.id = lastId']}
      BY <1>5, Began DEF UpdateRow, InsertRow, Return
    <2>3. DOMAIN work[w] = {"pc", "path", "stamp", "id", "tags"}
      BY <2>1, ReadIs
    <2>4. CASE work'[w] = Idle
      BY <2>4 DEF Idle
    <2>5. CASE work'[w] = [work[w] EXCEPT !.pc = "set"]
      BY <2>3, <2>5
    <2>6. CASE work'[w] = [work[w] EXCEPT !.pc = "map", !.id = lastId']
      BY <2>3, <2>6
    <2>. QED
      BY <2>2, <2>4, <2>5, <2>6
  <1>6. CASE DeleteRow(w)
    <2>1. work'[w] = [work[w] EXCEPT !.pc = "unmap"] /\ work[w].pc = "delete"
      BY <1>6, Began DEF DeleteRow, At
    <2>2. DOMAIN work[w] = {"pc", "path", "id"}
      BY <2>1, SortedGives DEF JobOK
    <2>. QED
      BY <2>1, <2>2
  <1>. QED
    BY <1>1, <1>2, <1>3, <1>4, <1>5, <1>6 DEF Step

(* Into the map of paths comes the path of a goroutine that maps it.       *)
LEMMA WhoMaps ==
    ASSUME Sorted, NEW w \in Workers, Step(w) \/ Stat(w) \/ GetByPath(w)
    PROVE  \A q \in DOMAIN byPath' : q \in DOMAIN byPath \/ (q = work[w].path /\ work[w].pc = "map")
  <1>1. CASE MapTrack(w)
    BY <1>1 DEF MapTrack, With, At
  <1>2. CASE Unmap(w)
    BY <1>2 DEF Unmap, Without, Restrict
  <1>3. CASE Check(w) \/ Lookup(w) \/ ReadTags(w) \/ UpdateRow(w) \/ SetFields(w) \/ InsertRow(w)
             \/ DeleteRow(w) \/ Stat(w) \/ GetByPath(w)
    BY <1>3 DEF Check, Lookup, ReadTags, UpdateRow, SetFields, InsertRow, DeleteRow, Stat, GetByPath,
                maps
  <1>. QED
    BY <1>1, <1>2, <1>3 DEF Step

LEMMA TurnGuarded ==
    ASSUME Sorted, Guarded, NEW w \in Workers, Step(w) \/ Stat(w) \/ GetByPath(w)
    PROVE  Guarded'
  <1>. DEFINE p == work[w].path
  <1>1. /\ Turn(w) /\ Others /\ Doing(w) /\ \A v \in Workers \ {w} : work'[v] = work[v]
        /\ Doing(w)' => work'[w].path = p
        /\ risked' = risked /\ p \in Paths
    BY JobSteps, SortedGives DEF Stepped, Turn, Others
  <1>2. Alone'
    BY <1>1 DEF Guarded, Alone, Doing, At
  <1>3. Condemned /\ Alone /\ Phases
    BY SortedIs DEF Guarded
  <1>4. UNCHANGED <<disk, phase, todo, seen>>
    BY <1>1 DEF Others
  <1>7. ASSUME phase = "scan", NEW q \in DOMAIN byPath' \ (todo \union seen)
        PROVE  q \in DOMAIN byPath
    <2>1. w = Scan
      BY <1>1, <1>3, <1>7 DEF Phases, Workers, Doing
    <2>2. work[w].pc = "map" => p \in seen
      BY <1>1, <1>3, <2>1 DEF Phases, Doing
    <2>. QED
      BY <1>7, <2>2, WhoMaps
  <1>5. CASE NoInsert(w)
    <2>1. wasGone' = wasGone /\ \A q : Taken(q)' => Taken(q)
      BY <1>5 DEF NoInsert
    <2>2. \A q : MayGo(q) => MayGo(q)'
      BY <1>1, <2>1 DEF MayGo
    <2>3. work'[w].pc \in {"find", "delete"} => MayGo(p)
      <3>. SUFFICES ASSUME work'[w].pc \in {"find", "delete"} PROVE MayGo(p)
        OBVIOUS
      <3>1. disk[p] = 0 \/ work[w].pc = "find"
        BY WhoDeletes
      <3>. QED
        BY <1>1, <1>3, <3>1 DEF Condemned, MayGo
    <2>4. \A v \in Workers : work'[v].pc \in {"find", "delete"} => MayGo(work[v].path)'
      <3>. SUFFICES ASSUME NEW v \in Workers, work'[v].pc \in {"find", "delete"}
                    PROVE  MayGo(work[v].path)'
        OBVIOUS
      <3>1. CASE v = w
        BY <1>1, <2>2, <2>3, <3>1 DEF Doing, At, MayGo, Taken
      <3>2. CASE v # w
        BY <1>1, <1>3, <2>2, <3>2 DEF Condemned, MayGo, Taken
      <3>. QED
        BY <3>1, <3>2
    <2>5. Condemned'
      BY <1>3, <1>4, <1>7, <2>1, <2>2, <2>4 DEF Condemned, MayGo, Taken
    <2>. QED
      BY <1>2, <2>5 DEF Guarded
  <1>6. CASE Inserts(w)
    <2>1. /\ work[w].pc = "insert" /\ work'[w].pc = "map"
          /\ \A q : Taken(q)' => Taken(q) \/ q = p
          /\ \A q \in Paths : q # p => (q \in wasGone' <=> q \in wasGone)
          /\ disk[p] = 0 => p \in wasGone'
      BY <1>6 DEF Inserts, At
    <2>2. \A q \in Paths : MayGo(q) /\ q # p => MayGo(q)'
      BY <1>1, <2>1 DEF MayGo
    <2>3. \A v \in Workers : work'[v].pc \in {"find", "delete"} => MayGo(work[v].path)'
      <3>. SUFFICES ASSUME NEW v \in Workers, work'[v].pc \in {"find", "delete"}
                    PROVE  MayGo(work[v].path)'
        OBVIOUS
      <3>1. v # w /\ work'[v] = work[v] /\ Doing(v)
        BY <1>1, <2>1 DEF Doing, At
      <3>2. work[v].path \in Paths /\ MayGo(work[v].path)
        BY <1>3, <3>1, SortedGives DEF Condemned
      <3>3. CASE work[v].path = p
        BY <1>1, <1>3, <3>1, <3>3 DEF Alone, MayGo, Taken
      <3>. QED
        BY <2>2, <3>1, <3>2, <3>3 DEF MayGo, Taken
    <2>4. phase = "scan" => p \in seen
      <3>1. phase = "scan" => w = Scan
        BY <1>1, <1>3 DEF Phases, Workers, Doing
      <3>. QED
        BY <1>1, <1>3, <2>1, <3>1 DEF Phases, Doing
    <2>5. \A q \in Paths : disk[q] = 0 /\ Taken(q)' => q \in wasGone'
      BY <1>3, <2>1 DEF Condemned
    <2>7. phase' = "scan" => \A q \in DOMAIN byPath' \ (todo' \union seen') : MayGo(q)'
      <3>. SUFFICES ASSUME phase = "scan", NEW q \in DOMAIN byPath' \ (todo \union seen)
                    PROVE  MayGo(q)'
        BY <1>4
      <3>1. q \in DOMAIN byPath /\ q # p
        BY <1>7, <2>4
      <3>2. q \in Paths /\ MayGo(q)
        BY <1>3, <3>1, SortedIs DEF Condemned, Tabled
      <3>. QED
        BY <2>2, <3>1, <3>2
    <2>6. Condemned'
      BY <1>3, <1>4, <2>3, <2>5, <2>7 DEF Condemned, MayGo, Taken
    <2>. QED
      BY <1>2, <2>6 DEF Guarded
  <1>. QED
    BY <1>5, <1>6, WhoInserts

(* A job of the scan is the only one, and a timer that finds its path      *)
(* taken excuses it.                                                       *)
LEMMA NewJobAlone ==
    ASSUME Sorted, Alone, NEW w \in Workers, \A v \in Workers \ {w} : work'[v] = work[v],
           risked \subseteq risked',
           \A v \in Workers \ {w} : Doing(v) /\ work[v].path = work'[w].path => work'[w].path \in risked'
    PROVE  Alone'
  BY DEF Alone, Doing, At

LEMMA OtherGuarded ==
    ASSUME Sorted, Guarded,
           \/ FileStep \/ Overflow \/ Crash \/ Load \/ AddRecursive \/ HandleNewDir
           \/ \E p \in Paths : Visit(p) \/ ReconcileRemoved(p) \/ Schedule(p)
           \/ \E p \in Paths, c \in Callbacks : Fire(p, c)
           \/ \E S \in {Paths, Inside} : Unreadable(S)
    PROVE  Guarded'
  <1>0. Alone /\ Condemned /\ Phases /\ DOMAIN work = Workers /\ Scan \in Workers
        /\ disk \in [Paths -> Versions] /\ Scan \notin Callbacks /\ Callbacks \subseteq Workers
    BY SortedIs, LibraryAssumption DEF Guarded, Workers, Framed, LibraryAssumption
  <1>1. ASSUME FileStep PROVE Guarded'
    <2>1. Touches
      BY <1>1, FilesSorted
    <2>2. /\ UNCHANGED <<rows, byPath, phase, todo, seen, work, risked>>
          /\ wasGone \subseteq wasGone'
          /\ \A p \in Paths : disk[p] # 0 /\ disk'[p] = 0 => p \in wasGone'
      BY <2>1 DEF Touches
    <2>3. \A p : Taken(p)' <=> Taken(p)
      BY <2>2 DEF Taken
    <2>4. \A p : MayGo(p) => MayGo(p)'
      BY <2>2, <2>3 DEF MayGo
    <2>. QED
      BY <1>0, <2>2, <2>3, <2>4 DEF Guarded, Alone, Condemned, Doing, At
  <1>2. ASSUME Crash PROVE Guarded'
    <2>1. /\ UNCHANGED <<disk, rows, wasGone>> /\ phase' = "down"
          /\ \A w \in Workers : work'[w].pc = "idle"
      BY <1>2 DEF Crash, files, table, Idle
    <2>. QED
      BY <1>0, <2>1 DEF Guarded, Alone, Condemned, Doing, At, Taken
  <1>3. ASSUME \/ Overflow \/ AddRecursive \/ HandleNewDir \/ \E p \in Paths : Schedule(p)
        PROVE Guarded'
    <2>1. CASE AddRecursive
      <3>1. /\ UNCHANGED <<disk, rows, wasGone, work>> /\ phase' = "watch" /\ phase = "scan"
            /\ At(Scan, "idle")
        BY <2>1 DEF AddRecursive, ScanIdle, files, table
      <3>2. \A w \in Workers : work'[w].pc = "idle"
        BY <1>0, <3>1 DEF Phases, Workers, At
      <3>. QED
        BY <1>0, <3>1, <3>2 DEF Guarded, Alone, Condemned, Doing, At, Taken
    <2>2. CASE Overflow \/ HandleNewDir \/ \E p \in Paths : Schedule(p)
      <3>1. UNCHANGED <<disk, rows, byPath, wasGone, risked, work, phase, todo, seen>>
        BY <2>2 DEF Overflow, HandleNewDir, Schedule, files, table, maps, scan, past
      <3>2. \A p : MayGo(p) => MayGo(p)'
        BY <3>1 DEF MayGo, Taken
      <3>. QED
        BY <1>0, <3>1, <3>2 DEF Guarded, Alone, Condemned, Doing, At, Taken
    <2>. QED
      BY <1>3, <2>1, <2>2
  <1>4. ASSUME Load PROVE Guarded'
    <2>1. /\ UNCHANGED <<disk, rows, wasGone, work>> /\ phase = "down" /\ phase' = "scan"
          /\ todo' = Paths \/ byPath' = Empty
      BY <1>0, <1>4 DEF Load, Phases, files, table, maps
    <2>2. \A w \in Workers : work'[w].pc = "idle"
      BY <1>0, <2>1 DEF Phases, Workers, At
    <2>3. DOMAIN byPath' \ (todo' \union seen') = {}
      <3>1. DOMAIN byPath' \subseteq Paths
        BY <1>4, LoadSorted DEF Sorted, TypeOK
      <3>. QED
        BY <2>1, <3>1, EmptyIs
    <2>. QED
      BY <1>0, <2>1, <2>2, <2>3 DEF Guarded, Alone, Condemned, Doing, At, Taken
  <1>5. ASSUME NEW S \in {Paths, Inside}, Unreadable(S) PROVE Guarded'
    <2>1. /\ UNCHANGED <<disk, rows, byPath, wasGone, work, phase, seen>>
          /\ risked' = risked \union S /\ todo' = todo \ S
      BY <1>5 DEF Unreadable, files, table, maps
    <2>2. \A p : MayGo(p) => MayGo(p)'
      BY <2>1 DEF MayGo, Taken
    <2>3. Alone' /\ \A p \in S : MayGo(p)'
      BY <1>0, <2>1 DEF Alone, Doing, At, MayGo
    <2>. QED
      BY <1>0, <2>1, <2>2, <2>3 DEF Guarded, Condemned, Taken
  <1>6. ASSUME NEW p \in Paths, Visit(p) PROVE Guarded'
    <2>1. /\ UNCHANGED <<disk, rows, byPath, wasGone, risked, phase>> /\ phase = "scan"
          /\ todo' = todo \ {p} /\ seen \subseteq seen'
      BY <1>6 DEF Visit, ScanIdle, files, table, maps, past
    <2>2. /\ \A q : MayGo(q)' <=> MayGo(q)
          /\ \A q : Taken(q)' <=> Taken(q)
      BY <2>1 DEF MayGo, Taken
    <2>3. \A v \in Workers : work[v].pc = "idle"
      BY <1>0, <1>6, <2>1 DEF Phases, Workers, At, Visit, ScanIdle
    <2>4. disk[p] # 0 => p \in seen'
      BY <1>6 DEF Visit
    <2>5. \A v \in Workers : work'[v] = work[v] \/ (v = Scan /\ work'[v] = [pc |-> "check", path |-> p])
      BY <1>0, <1>6 DEF Visit, Begin
    <2>6. Alone'
      BY <2>3, <2>5 DEF Alone, Doing, At
    <2>7. \A v \in Workers : work'[v].pc \notin {"find", "delete"}
      BY <2>3, <2>5
    <2>8. disk[p] = 0 => MayGo(p)
      BY <1>0 DEF Condemned, MayGo
    <2>. QED
      BY <1>0, <2>1, <2>2, <2>4, <2>6, <2>7, <2>8 DEF Guarded, Condemned
  <1>7. ASSUME NEW p \in Paths, ReconcileRemoved(p) PROVE Guarded'
    <2>1. /\ UNCHANGED <<disk, rows, byPath, wasGone, risked, phase, todo, seen>>
          /\ phase = "scan" /\ todo = {} /\ p \notin seen /\ p \in DOMAIN byPath
          /\ Begin(Scan, [pc |-> "delete", path |-> p, id |-> byPath[p]])
      BY <1>7 DEF ReconcileRemoved, ScanIdle, Unseen, files, table, maps, past, scan
    <2>2. /\ \A q : MayGo(q)' <=> MayGo(q)
          /\ \A q : Taken(q)' <=> Taken(q)
      BY <2>1 DEF MayGo, Taken
    <2>3. \A v \in Workers : work[v].pc = "idle"
      BY <1>0, <1>7, <2>1 DEF Phases, Workers, At, ReconcileRemoved, ScanIdle
    <2>5. \A v \in Workers : work'[v] = work[v] \/ (v = Scan /\ work'[v].path = p)
      BY <1>0, <2>1 DEF Begin
    <2>6. Alone'
      BY <2>3, <2>5 DEF Alone, Doing, At
    <2>7. \A v \in Workers : work'[v].pc \in {"find", "delete"} => work'[v].path = p
      BY <2>3, <2>5
    <2>8. MayGo(p)
      BY <1>0, <2>1 DEF Condemned
    <2>. QED
      BY <1>0, <2>1, <2>2, <2>6, <2>7, <2>8 DEF Guarded, Condemned
  <1>8. ASSUME NEW p \in Paths, NEW c \in Callbacks, Fire(p, c) PROVE Guarded'
    <2>1. /\ UNCHANGED <<disk, rows, wasGone, phase>> /\ p \in timers
          /\ risked' = IF \E d \in Callbacks : ~At(d, "idle") /\ work[d].path = p
                       THEN risked \union {p} ELSE risked
          /\ Begin(c, [pc |-> "stat", path |-> p])
      BY <1>8 DEF Fire, files, table, scan
    <2>2. phase = "watch" /\ At(Scan, "idle")
      BY <1>0, <2>1 DEF Phases
    <2>3. c \in Workers /\ work'[c] = [pc |-> "stat", path |-> p]
          /\ \A v \in Workers \ {c} : work'[v] = work[v]
      BY <1>0, <2>1, Began
    <2>4. Alone'
      BY <1>0, <2>1, <2>2, <2>3, NewJobAlone DEF Doing, Workers
    <2>5. \A q : MayGo(q) => MayGo(q)'
      BY <2>1 DEF MayGo, Taken
    <2>. QED
      BY <1>0, <2>1, <2>2, <2>3, <2>4, <2>5 DEF Guarded, Condemned, Taken
  <1>. QED
    BY <1>1, <1>2, <1>3, <1>4, <1>5, <1>6, <1>7, <1>8

LEMMA GuardedNext == ASSUME Sorted, Guarded, [Next]_vars PROVE Guarded'
  <1>1. CASE UNCHANGED vars
    BY <1>1 DEF vars, files, table, maps, scan, past, Guarded, Alone, Condemned, Doing, At, MayGo, Taken
  <1>2. CASE Next
    <2>1. Callbacks \subseteq Workers
      BY DEF Workers
    <2>. QED
      BY <1>2, <2>1, LibraryCases, TurnGuarded, OtherGuarded
  <1>. QED
    BY <1>1, <1>2

LEMMA GuardedInit == Init => Guarded
  <1>. SUFFICES ASSUME Init PROVE Guarded
    OBVIOUS
  <1>1. /\ rows = Empty /\ phase = "down" /\ \A w \in Workers : work[w].pc = "idle"
    BY DEF Init, Idle
  <1>. QED
    BY <1>1, EmptyIs DEF Guarded, Alone, Condemned, Doing, At, Taken

LEMMA AlwaysGuarded == Spec => [](Sorted /\ Guarded)
  <1>1. Init => Sorted /\ Guarded
    BY SortedInit, GuardedInit
  <1>2. Sorted /\ Guarded /\ [Next]_vars => (Sorted /\ Guarded)'
    BY SortedNext, GuardedNext
  <1>. QED
    BY <1>1, <1>2, PTL DEF Spec

(* RemovedWasGone of Library: a track loses its row, and with it the id    *)
(* that queue and history refer to, only if its file was gone at some time *)
(* since the row came, or it stands for its directory, which the scan      *)
(* could not read, or two callbacks were at its path.                      *)
THEOREM AlwaysRemovedWasGone == Spec => RemovedWasGone
  <1>. DEFINE P == \A id \in DOMAIN rows \ DOMAIN rows' : rows[id].path \in wasGone \union risked
  <1>1. ASSUME Sorted, Guarded, [Next]_vars PROVE [P]_vars
    <2>. SUFFICES ASSUME NEW id \in DOMAIN rows \ DOMAIN rows'
                  PROVE  rows[id].path \in wasGone \union risked
      OBVIOUS
    <2>1. Next
      BY <1>1 DEF vars, table
    <2>2. rows' # rows
      OBVIOUS
    <2>3. \E w \in Workers : Step(w) \/ Stat(w) \/ GetByPath(w)
      BY <2>1, <2>2, LibraryCases, FilesSorted, <1>1
         DEF Touches, Overflow, Crash, Load, AddRecursive, HandleNewDir, Visit, ReconcileRemoved,
             Schedule, Fire, Unreadable, Workers, table
    <2>4. PICK w \in Workers : Step(w) \/ Stat(w) \/ GetByPath(w)
      BY <2>3
    <2>5. DeleteRow(w)
      <3>1. CASE UpdateRow(w)
        BY <1>1, <3>1, UpdateKeepsPath
      <3>2. CASE InsertRow(w)
        <4>1. rows' = With(rows, lastId', Read(w))
          BY <2>2, <3>2 DEF InsertRow, table
        <4>2. DOMAIN rows' = DOMAIN rows \union {lastId'}
          BY <4>1 DEF With
        <4>. QED
          BY <4>2
      <3>. QED
        BY <2>2, <2>4, <3>1, <3>2
           DEF Step, Check, Lookup, ReadTags, SetFields, MapTrack, Unmap, Stat, GetByPath, table
    <2>6. rows' = Without(rows, work[w].id) /\ work[w].pc = "delete"
      BY <2>2, <2>5 DEF DeleteRow, At
    <2>7. id = work[w].id
      <3>1. DOMAIN rows' = DOMAIN rows \ {work[w].id}
        BY <2>6 DEF Without, Restrict
      <3>. QED
        BY <3>1
    <2>8. work[w].id # 0 /\ work[w].pc \in Numbered
      BY <1>1, <2>6, SortedGives DEF JobOK, Numbered
    <2>9. rows[id].path = work[w].path
      BY <1>1, <2>7, <2>8, IdIsMine, SortedGives DEF Tabled, Track, Named
    <2>10. MayGo(work[w].path) /\ Taken(work[w].path)
      BY <1>1, <2>6, <2>9 DEF Guarded, Condemned, Taken
    <2>. QED
      BY <2>9, <2>10 DEF MayGo
  <1>. QED
    BY <1>1, AlwaysGuarded, PTL DEF Spec, RemovedWasGone

-----------------------------------------------------------------------------
(* What has been read of a file is of a version that is there or will not  *)
(* be there again. *)

(* A file comes to a path by a write, or by a move from a path it leaves.  *)
Arrives ==
    /\ left \subseteq left' /\ clock' = clock + 1
    /\ \A p \in Paths :
         \/ disk'[p] \in {0, disk[p], clock + 1}
         \/ \E q \in Paths : disk'[p] = disk[q] /\ <<p, disk[q]>> \notin left
    /\ \A p, q \in Paths :
         p # q /\ disk'[q] = disk[p] /\ disk[p] # 0 => <<p, disk[p]>> \in left'

LEMMA FilesArrive ==
    ASSUME Sorted, Versioned, FileStep
    PROVE  Versioned' /\ Arrives
  <1>0. /\ disk \in [Paths -> Versions] /\ clock \in Nat /\ left \subseteq Paths \X Versions
        /\ \A p \in Paths : disk[p] \in Nat
        /\ \A x \in left : x[2] \in Nat
    BY SortedIs DEF Framed, Versions
  <1>1. \A p, q \in Paths : p # q /\ disk[q] = disk[p] => disk[p] = 0
    BY DEF Versioned
  <1>2. \A p \in Paths : disk[p] # clock + 1 /\ disk[p] <= clock /\ clock + 1 # 0
    BY <1>0 DEF Versioned
  <1>3. \A x \in left : x[2] <= clock + 1
    BY <1>0 DEF Versioned
  <1>4. \A p \in Paths : disk[p] <= clock + 1 /\ 0 <= clock + 1 /\ clock + 1 <= clock + 1
    BY <1>0, <1>2
  <1>5. ASSUME NEW p \in Paths, Write(p) \/ Remove(p) PROVE Versioned' /\ Arrives
    <2>1. /\ clock' = clock + 1 /\ left' = left
          /\ disk' = [disk EXCEPT ![p] = clock + 1] \/ disk' = [disk EXCEPT ![p] = 0]
      BY <1>5 DEF Write, Remove, Becomes
    <2>2. /\ \A q \in Paths : q # p => disk'[q] = disk[q]
          /\ disk'[p] \in {clock + 1, 0}
      BY <1>0, <2>1
    <2>3. Versioned'
      BY <1>0, <1>1, <1>2, <1>3, <1>4, <2>1, <2>2 DEF Versioned
    <2>4. Arrives
      BY <1>0, <1>1, <1>2, <2>1, <2>2 DEF Arrives
    <2>. QED
      BY <2>3, <2>4
  <1>6. ASSUME NEW p \in Paths, NEW q \in Paths, Move(p, q) PROVE Versioned' /\ Arrives
    <2>1. /\ clock' = clock + 1 /\ left' = left \union {<<p, disk[p]>>}
          /\ disk' = [disk EXCEPT ![q] = disk[p], ![p] = 0]
          /\ p # q /\ disk[p] # 0 /\ <<q, disk[p]>> \notin left
      BY <1>6 DEF Move, Becomes
    <2>2. disk'[q] = disk[p] /\ disk'[p] = 0 /\ \A r \in Paths : r \notin {p, q} => disk'[r] = disk[r]
      BY <1>0, <2>1
    <2>3. \A x \in left' : x[2] <= clock + 1
      BY <1>3, <1>4, <2>1
    <2>4. \A r, s \in Paths : disk'[r] = disk'[s] /\ disk'[r] # 0 => r = s
      <3>. SUFFICES ASSUME NEW r \in Paths, NEW s \in Paths, disk'[r] = disk'[s], disk'[r] # 0, r # s
                    PROVE  FALSE
        OBVIOUS
      <3>1. r # p /\ s # p
        BY <2>2
      <3>2. CASE r = q
        BY <1>1, <2>1, <2>2, <3>1, <3>2
      <3>3. CASE s = q
        BY <1>1, <2>1, <2>2, <3>1, <3>3
      <3>. QED
        BY <1>1, <2>2, <3>1, <3>2, <3>3
    <2>5. \A r \in Paths : disk'[r] <= clock + 1
      BY <1>4, <2>2
    <2>6. Versioned'
      BY <2>1, <2>3, <2>4, <2>5 DEF Versioned
    <2>7. \A r, s \in Paths : r # s /\ disk'[s] = disk[r] /\ disk[r] # 0 => r = p
      BY <1>1, <2>1, <2>2
    <2>8. Arrives
      BY <2>1, <2>2, <2>7 DEF Arrives
    <2>. QED
      BY <2>6, <2>8
  <1>7. ASSUME NEW S \in {{}} \union {{p} : p \in Inside}, DirAppears(S) PROVE Versioned' /\ Arrives
    <2>1. /\ clock' = clock + 1 /\ left' = left
          /\ disk' = [p \in Paths |-> IF p \in S THEN clock + 1 ELSE disk[p]]
      BY <1>7 DEF DirAppears, Becomes
    <2>2. \A p \in Paths : disk'[p] = IF p \in S THEN clock + 1 ELSE disk[p]
      BY <2>1
    <2>3. \A p, q \in S : p = q
      OBVIOUS
    <2>4. Versioned'
      BY <1>1, <1>2, <1>3, <1>4, <2>1, <2>2, <2>3 DEF Versioned
    <2>5. Arrives
      BY <1>1, <1>2, <2>1, <2>2 DEF Arrives
    <2>. QED
      BY <2>4, <2>5
  <1>8. ASSUME DirVanishes PROVE Versioned' /\ Arrives
    <2>1. /\ clock' = clock + 1 /\ left' = left
          /\ disk' = [p \in Paths |-> IF p \in Inside THEN 0 ELSE disk[p]]
      BY <1>8 DEF DirVanishes, Becomes
    <2>2. \A p \in Paths : disk'[p] = IF p \in Inside THEN 0 ELSE disk[p]
      BY <2>1
    <2>4. Versioned'
      BY <1>1, <1>2, <1>3, <1>4, <2>1, <2>2 DEF Versioned
    <2>5. Arrives
      BY <1>1, <1>2, <2>1, <2>2 DEF Arrives
    <2>. QED
      BY <2>4, <2>5
  <1>. QED
    BY <1>5, <1>6, <1>7, <1>8 DEF FileStep

(* Through a change of the files, what was read stays read. *)
LEMMA StaysRead ==
    ASSUME Sorted, Versioned, Arrives, NEW p \in Paths, NEW v, Was(p, v)
    PROVE  Was(p, v)' /\ (v # disk[p] => v # disk'[p])
  <1>1. /\ v \in 1 .. clock /\ clock \in Nat /\ clock' = clock + 1 /\ left \subseteq left'
        /\ v \in 1 .. clock' /\ v # 0 /\ v # clock + 1
    BY SortedIs DEF Was, Arrives, Framed, Versions
  <1>2. ASSUME v # disk[p] PROVE v # disk'[p] /\ Dead(p, v)'
    <2>1. \A q \in Paths : disk[q] = v => <<p, v>> \in left
      BY <1>2 DEF Was, Dead
    <2>2. v # disk'[p]
      BY <1>1, <1>2, <2>1 DEF Arrives
    <2>3. ASSUME NEW q \in Paths, disk'[q] = v PROVE \E r \in Paths : disk[r] = v
      BY <1>1, <2>3 DEF Arrives
    <2>. QED
      BY <1>1, <2>1, <2>2, <2>3 DEF Dead
  <1>3. ASSUME v = disk[p], v # disk'[p] PROVE Dead(p, v)'
    <2>1. ASSUME NEW q \in Paths, disk'[q] = v PROVE <<p, v>> \in left'
      BY <1>1, <1>3, <2>1 DEF Arrives
    <2>. QED
      BY <1>3, <2>1 DEF Dead
  <1>. QED
    BY <1>1, <1>2, <1>3 DEF Was

(* What a goroutine writes is what it has read. *)
Writes(w) ==
    /\ \A id \in DOMAIN rows' : \/ id \in DOMAIN rows /\ rows'[id] = rows[id]
                                \/ rows'[id] = Read(w) /\ work[w].pc \in Tagged
    /\ \A id \in DOMAIN byID' : \/ id \in DOMAIN byID /\ byID'[id] = byID[id]
                                \/ byID'[id] = Read(w) /\ work[w].pc \in Tagged

LEMMA TurnWrites ==
    ASSUME Sorted, NEW w \in Workers, Step(w) \/ Stat(w) \/ GetByPath(w)
    PROVE  Writes(w)
  <1>. DEFINE p  == work[w].path
              id == work[w].id
              r  == Read(w)
  <1>1. CASE Check(w) \/ Lookup(w) \/ ReadTags(w) \/ Stat(w) \/ GetByPath(w)
    BY <1>1 DEF Check, Lookup, ReadTags, Stat, GetByPath, table, maps, Writes
  <1>2. CASE UpdateRow(w)
    <2>1. work[w].pc \in Tagged /\ UNCHANGED byID
      BY <1>2 DEF UpdateRow, At, Tagged, maps
    <2>2. rows' \in {rows, [rows EXCEPT ![id] = r]}
      BY <1>2 DEF UpdateRow
    <2>. HIDE DEF r, id
    <2>3. DOMAIN rows' = DOMAIN rows /\ \A i \in DOMAIN rows : rows'[i] = rows[i] \/ rows'[i] = r
      BY <2>2
    <2>. QED
      BY <2>1, <2>3 DEF Writes, r
  <1>3. CASE SetFields(w)
    <2>1. work[w].pc \in Tagged /\ UNCHANGED rows
      BY <1>3 DEF SetFields, At, Tagged, table
    <2>2. byID' \in {byID, [byID EXCEPT ![id] = r]}
      BY <1>3 DEF SetFields
    <2>. HIDE DEF r, id
    <2>3. DOMAIN byID' = DOMAIN byID /\ \A i \in DOMAIN byID : byID'[i] = byID[i] \/ byID'[i] = r
      BY <2>2
    <2>. QED
      BY <2>1, <2>3 DEF Writes, r
  <1>4. CASE InsertRow(w)
    <2>1. work[w].pc \in Tagged /\ UNCHANGED byID
      BY <1>4 DEF InsertRow, At, Tagged, maps
    <2>2. rows' = rows \/ rows' = With(rows, lastId', r)
      BY <1>4 DEF InsertRow, table
    <2>. HIDE DEF r
    <2>3. \A i \in DOMAIN rows' : (i \in DOMAIN rows /\ rows'[i] = rows[i]) \/ rows'[i] = r
      BY <2>2 DEF With
    <2>. QED
      BY <2>1, <2>3 DEF Writes, r
  <1>5. CASE MapTrack(w)
    <2>1. work[w].pc \in Tagged /\ UNCHANGED rows
      BY <1>5 DEF MapTrack, At, Tagged, table
    <2>2. byID' = With(byID, id, r)
      BY <1>5 DEF MapTrack
    <2>. HIDE DEF r, id
    <2>3. \A i \in DOMAIN byID' : (i \in DOMAIN byID /\ byID'[i] = byID[i]) \/ byID'[i] = r
      BY <2>2 DEF With
    <2>. QED
      BY <2>1, <2>3 DEF Writes, r
  <1>6. CASE DeleteRow(w)
    <2>1. UNCHANGED byID /\ (rows' = rows \/ rows' = Without(rows, id))
      BY <1>6 DEF DeleteRow, maps
    <2>. QED
      BY <2>1 DEF Writes, Without, Restrict
  <1>7. CASE Unmap(w)
    <2>1. UNCHANGED rows /\ byID' = Without(byID, id)
      BY <1>7 DEF Unmap, table
    <2>. QED
      BY <2>1 DEF Writes, Without, Restrict
  <1>. QED
    BY <1>1, <1>2, <1>3, <1>4, <1>5, <1>6, <1>7 DEF Step

(* What a goroutine carries on, it has read before, or reads now, or tries *)
(* to.                                                                     *)
Carries(w) ==
    /\ work'[w].pc \in Stamped =>
         \/ work'[w].stamp = work[w].stamp /\ work[w].pc \in Stamped
         \/ work'[w].stamp = disk[work[w].path] /\ disk[work[w].path] # 0
    /\ work'[w].pc \in Tagged =>
         /\ work'[w].stamp = work[w].stamp
         /\ \/ work'[w].tags = work[w].tags /\ work[w].pc \in Tagged
            \/ work'[w].tags = disk[work[w].path]
            \/ work'[w].tags = 0 /\ work[w].path \in misread'
    /\ misread \subseteq misread'

LEMMA TurnCarries ==
    ASSUME Sorted, NEW w \in Workers, Step(w) \/ Stat(w) \/ GetByPath(w)
    PROVE  Carries(w)
  <1>. DEFINE p == work[w].path
  <1>. DOMAIN work = Workers /\ misread \subseteq misread'
    BY SortedGives, JobSteps DEF Stepped, Turn
  <1>1. CASE work'[w] = Idle \/ work'[w].pc \in {"find", "check", "delete", "unmap"}
    BY <1>1 DEF Carries, Stamped, Tagged, Idle
  <1>2. CASE Check(w)
    <2>1. work'[w] = Idle \/ (disk[p] # 0 /\ work'[w] = [pc |-> "lookup", path |-> p, stamp |-> disk[p]])
      BY <1>2, Began DEF Check, Return
    <2>. QED
      BY <1>1, <2>1 DEF Carries, Stamped, Tagged
  <1>3. CASE Lookup(w)
    <2>1. /\ work[w].pc = "lookup"
          /\ \/ work'[w] = Idle
             \/ work'[w].pc = "tags" /\ work'[w].stamp = work[w].stamp
      BY <1>3, Began DEF Lookup, Return, At
    <2>. QED
      BY <1>1, <2>1 DEF Carries, Stamped, Tagged
  <1>4. CASE ReadTags(w)
    <2>1. PICK tags \in {0, disk[p]} :
            /\ Begin(w, [pc |-> IF work[w].id # 0 THEN "update" ELSE "insert", path |-> p,
                         stamp |-> work[w].stamp, id |-> work[w].id, tags |-> tags])
            /\ \/ tags = disk[p] /\ Works /\ UNCHANGED misread
               \/ tags # disk[p] /\ Fails /\ misread' = misread \union {p}
      BY <1>4, Zenon DEF ReadTags
    <2>2. work[w].pc = "tags" /\ work'[w].stamp = work[w].stamp /\ work'[w].tags = tags
      BY <1>4, <2>1, Began DEF ReadTags, At
    <2>3. tags = disk[p] \/ (tags = 0 /\ p \in misread')
      BY <2>1
    <2>. QED
      BY <2>2, <2>3 DEF Carries, Stamped, Tagged
  <1>5. CASE UpdateRow(w) \/ InsertRow(w)
    <2>1. work[w].pc \in Tagged
      BY <1>5 DEF UpdateRow, InsertRow, At, Tagged
    <2>2. work'[w] \in {Idle, [work[w] EXCEPT !.pc = "set"], [work[w] EXCEPT !.pc = "map", !.id = lastId']}
      BY <1>5, Began DEF UpdateRow, InsertRow, Return
    <2>3. DOMAIN work[w] = {"pc", "path", "stamp", "id", "tags"} /\ work[w].pc \in Stamped
      BY <2>1, ReadIs DEF Tagged, Stamped
    <2>4. work'[w] # Idle => work'[w].stamp = work[w].stamp /\ work'[w].tags = work[w].tags
      BY <2>2, <2>3
    <2>. QED
      BY <1>1, <2>1, <2>3, <2>4 DEF Carries
  <1>6. CASE DeleteRow(w)
    <2>1. work'[w] = [work[w] EXCEPT !.pc = "unmap"] /\ DOMAIN work[w] = {"pc", "path", "id"}
      BY <1>6, Began, SortedGives DEF DeleteRow, At, JobOK
    <2>2. work'[w].pc = "unmap"
      BY <2>1
    <2>. QED
      BY <1>1, <2>2
  <1>7. CASE SetFields(w) \/ MapTrack(w) \/ Unmap(w) \/ Stat(w) \/ GetByPath(w)
    <2>1. CASE SetFields(w) \/ MapTrack(w) \/ Unmap(w)
      BY <1>1, <2>1, Began DEF SetFields, MapTrack, Unmap, Return
    <2>2. CASE Stat(w)
      <3>1. \E pc \in {"find", "check"} : work'[w] = [pc |-> pc, path |-> p]
        BY <2>2, Began DEF Stat
      <3>. QED
        BY <1>1, <3>1
    <2>3. CASE GetByPath(w)
      <3>1. work'[w] = Idle \/ work'[w] = [pc |-> "delete", path |-> p, id |-> byPath[p]]
        BY <2>3, Began DEF GetByPath, Return
      <3>. QED
        BY <1>1, <3>1
    <2>. QED
      BY <1>7, <2>1, <2>2, <2>3
  <1>. QED
    BY <1>2, <1>3, <1>4, <1>5, <1>6, <1>7 DEF Step

LEMMA HonestNext == ASSUME Sorted, Honesty, [Next]_vars PROVE Honesty'
  <1>. Callbacks \subseteq Workers
    BY DEF Workers
  <1>1. ASSUME FileStep PROVE Honesty'
    <2>1. Versioned' /\ Arrives /\ UNCHANGED <<rows, byID, work, lastId>>
      BY <1>1, FilesArrive, FilesSorted DEF Honesty, Touches
    <2>2. \A p \in Paths : \A v : Was(p, v) => Was(p, v)' /\ (v # disk[p] => v # disk'[p])
      BY <2>1, StaysRead DEF Honesty
    <2>7. \A p \in Paths : disk'[p] = disk[p] => TagsOf(p)' = TagsOf(p)
      BY <1>1, FilesSorted DEF Touches, TagsOf
    <2>3. ASSUME NEW p \in Paths, NEW s, NEW t, Was(p, s), s = disk[p] => t \in TagsOf(p)
          PROVE  Was(p, s)' /\ (s = disk'[p] => t \in TagsOf(p)')
      BY <2>2, <2>3, <2>7
    <2>8. \A r : Honest(r) /\ r.path \in Paths => Honest(r)'
      BY <2>3 DEF Honest
    <2>4. \A id \in DOMAIN rows : Honest(rows[id])'
      <3>. SUFFICES ASSUME NEW id \in DOMAIN rows PROVE Honest(rows[id])'
        OBVIOUS
      <3>1. Honest(rows[id]) /\ rows[id].path \in Paths
        BY SortedIs DEF Honesty, Tabled, Track
      <3>. QED
        BY <2>1, <2>8, <3>1
    <2>5. \A id \in DOMAIN byID : Honest(byID[id])'
      <3>. SUFFICES ASSUME NEW id \in DOMAIN byID PROVE Honest(byID[id])'
        OBVIOUS
      <3>1. Honest(byID[id]) /\ byID[id].path \in Paths
        BY SortedIs DEF Honesty, Tabled, Track
      <3>. QED
        BY <2>1, <2>8, <3>1
    <2>6. ASSUME NEW w \in Workers
          PROVE  /\ work[w].pc \in Stamped => Was(work[w].path, work[w].stamp)'
                 /\ work[w].pc \in Tagged => Honest(Read(w))'
      <3>1. work[w].pc \in Stamped \union Tagged => work[w].path \in Paths
        BY SortedGives DEF Stamped, Tagged, Doing, At
      <3>2. CASE work[w].pc \in Stamped
        <4>1. Was(work[w].path, work[w].stamp)
          BY <3>2 DEF Honesty
        <4>2. Was(work[w].path, work[w].stamp)'
          BY <2>1, <2>2, <3>1, <3>2, <4>1 DEF Was, Dead
        <4>3. work[w].pc \in Tagged => Honest(Read(w)) /\ Read(w).path \in Paths
          BY <3>1 DEF Honesty, Read
        <4>4. Read(w)' = Read(w)
          BY <2>1 DEF Read
        <4>. QED
          BY <2>8, <4>2, <4>3, <4>4
      <3>3. CASE work[w].pc \notin Stamped
        BY <3>3 DEF Stamped, Tagged
      <3>. QED
        BY <3>2, <3>3
    <2>. QED
      BY <2>1, <2>4, <2>5, <2>6 DEF Honesty
  <1>2. ASSUME UNCHANGED <<disk, clock, left>>, misread \subseteq misread'
        PROVE  /\ Versioned' /\ \A p, v : Was(p, v) => Was(p, v)'
               /\ \A p : TagsOf(p) \subseteq TagsOf(p)'
               /\ \A r : Honest(r) => Honest(r)'
    <2>1. Versioned' /\ \A p, v : Was(p, v) => Was(p, v)'
      BY <1>2 DEF Honesty, Versioned, Was, Dead
    <2>2. \A p : TagsOf(p) \subseteq TagsOf(p)'
      BY <1>2 DEF TagsOf
    <2>. QED
      BY <1>2, <2>1, <2>2 DEF Honest
  <1>3. ASSUME UNCHANGED <<disk, clock, left, misread>>,
               \A id \in DOMAIN rows' : id \in DOMAIN rows /\ rows'[id] = rows[id],
               \A id \in DOMAIN byID' : \/ id \in DOMAIN byID /\ byID'[id] = byID[id]
                                        \/ id \in DOMAIN rows /\ byID'[id] = rows[id],
               \A w \in Workers : work'[w] = work[w] \/ work'[w].pc \notin Stamped \union Tagged
        PROVE  Honesty'
    <2>1. ASSUME NEW id \in DOMAIN rows' PROVE Honest(rows[id])'
      <3>1. PICK r : r = rows'[id] /\ Honest(r)
        BY <1>3, <2>1 DEF Honesty
      <3>. QED
        BY <1>2, <1>3, <3>1
    <2>2. ASSUME NEW id \in DOMAIN byID' PROVE Honest(byID[id])'
      <3>1. PICK r : r = byID'[id] /\ Honest(r)
        BY <1>3, <2>2 DEF Honesty
      <3>. QED
        BY <1>2, <1>3, <3>1
    <2>3. ASSUME NEW w \in Workers, work'[w] = work[w]
          PROVE  /\ work'[w].pc \in Stamped => Was(work[w].path, work[w].stamp)'
                 /\ work'[w].pc \in Tagged => Honest(Read(w))'
      <3>1. Read(w)' = Read(w)
        BY <2>3 DEF Read
      <3>2. PICK p, v : p = work[w].path /\ v = work[w].stamp
        OBVIOUS
      <3>3. work[w].pc \in Stamped => Was(p, v)'
        BY <1>2, <1>3, <3>2 DEF Honesty
      <3>4. PICK r : r = Read(w)
        OBVIOUS
      <3>5. work[w].pc \in Tagged => Honest(r)'
        BY <1>2, <1>3, <3>4 DEF Honesty
      <3>. QED
        BY <2>3, <3>1, <3>2, <3>3, <3>4, <3>5
    <2>. QED
      BY <1>2, <1>3, <2>1, <2>2, <2>3 DEF Honesty, Stamped, Tagged
  <1>4. ASSUME NEW w \in Workers, Step(w) \/ Stat(w) \/ GetByPath(w) PROVE Honesty'
    <2>. DEFINE p == work[w].path
    <2>1. /\ UNCHANGED <<disk, clock, left>> /\ Doing(w) /\ p \in Paths /\ misread \subseteq misread'
          /\ \A v \in Workers \ {w} : work'[v] = work[v]
          /\ Doing(w)' => work'[w].path = p
      BY <1>4, JobSteps, SortedGives DEF Stepped, Turn, Others
    <2>2. Writes(w) /\ Carries(w)
      BY <1>4, TurnWrites, TurnCarries
    <2>3. disk[p] # 0 => Was(p, disk[p])
      BY <2>1, SortedIs DEF Honesty, Versioned, Was, Framed, Versions
    <2>4. work'[w].pc \in Stamped => Was(work'[w].path, work'[w].stamp)
      <3>1. work'[w].pc \in Stamped => Doing(w)'
        BY DEF Stamped, Doing, At
      <3>. QED
        BY <2>1, <2>2, <2>3, <3>1 DEF Carries, Honesty
    <2>5. work'[w].pc \in Tagged => /\ Was(work'[w].path, work'[w].stamp)
                                    /\ work'[w].stamp = disk[p] =>
                                         work'[w].tags = disk[p] \/ (work'[w].tags = 0 /\ p \in misread')
      <3>1. work'[w].pc \in Tagged => work'[w].pc \in Stamped
        BY DEF Tagged, Stamped
      <3>2. work[w].pc \in Tagged =>
              (work[w].stamp = disk[p] =>
                 work[w].tags = disk[p] \/ (work[w].tags = 0 /\ p \in misread'))
        BY <2>1 DEF Honesty, Honest, Read, TagsOf
      <3>. QED
        BY <2>2, <2>4, <3>1, <3>2 DEF Carries
    <2>6. work'[w].pc \in Tagged => work'[w].path = p
      BY <2>1 DEF Tagged, Doing, At
    <2>7. \A id \in DOMAIN rows' : Honest(rows[id])'
      <3>. SUFFICES ASSUME NEW id \in DOMAIN rows' PROVE Honest(rows[id])'
        OBVIOUS
      <3>1. PICK r : r = rows'[id] /\ Honest(r)
        <4>1. CASE id \in DOMAIN rows /\ rows'[id] = rows[id]
          BY <4>1 DEF Honesty
        <4>2. CASE rows'[id] = Read(w) /\ work[w].pc \in Tagged
          BY <4>2 DEF Honesty
        <4>. QED
          BY <2>2, <4>1, <4>2 DEF Writes
      <3>. QED
        BY <1>2, <2>1, <3>1
    <2>8. \A id \in DOMAIN byID' : Honest(byID[id])'
      <3>. SUFFICES ASSUME NEW id \in DOMAIN byID' PROVE Honest(byID[id])'
        OBVIOUS
      <3>1. PICK r : r = byID'[id] /\ Honest(r)
        <4>1. CASE id \in DOMAIN byID /\ byID'[id] = byID[id]
          BY <4>1 DEF Honesty
        <4>2. CASE byID'[id] = Read(w) /\ work[w].pc \in Tagged
          BY <4>2 DEF Honesty
        <4>. QED
          BY <2>2, <4>1, <4>2 DEF Writes
      <3>. QED
        BY <1>2, <2>1, <3>1
    <2>9. \A v \in Workers : /\ work'[v].pc \in Stamped => Was(work[v].path, work[v].stamp)'
                             /\ work'[v].pc \in Tagged => Honest(Read(v))'
      <3>1. /\ work'[w].pc \in Stamped => Was(work[w].path, work[w].stamp)'
            /\ work'[w].pc \in Tagged => Honest(Read(w))'
        <4>1. ASSUME work'[w].pc \in Stamped PROVE Was(work[w].path, work[w].stamp)'
          BY <2>1, <2>4, <4>1 DEF Was, Dead
        <4>2. ASSUME work'[w].pc \in Tagged PROVE Honest(Read(w))'
          <5>1. Read(w)' = [path |-> p, stamp |-> work'[w].stamp, tags |-> work'[w].tags]
            BY <2>6, <4>2 DEF Read
          <5>2. p = work'[w].path /\ disk' = disk
            BY <2>1, <2>6, <4>2
          <5>. QED
            BY <2>1, <2>5, <4>2, <5>1, <5>2 DEF Honest, Was, Dead, TagsOf
        <4>. QED
          BY <4>1, <4>2
      <3>2. ASSUME NEW v \in Workers, v # w
            PROVE  /\ work'[v].pc \in Stamped => Was(work[v].path, work[v].stamp)'
                   /\ work'[v].pc \in Tagged => Honest(Read(v))'
        <4>1. work'[v] = work[v] /\ Read(v)' = Read(v)
          BY <2>1, <3>2 DEF Read
        <4>. QED
          BY <1>2, <2>1, <4>1 DEF Honesty
      <3>. QED
        BY <3>1, <3>2
    <2>. QED
      BY <1>2, <2>1, <2>7, <2>8, <2>9 DEF Honesty
  <1>5. ASSUME Crash PROVE Honesty'
    BY <1>3, <1>5, EmptyIs DEF Crash, files, table, Idle, Stamped, Tagged
  <1>6. ASSUME Load PROVE Honesty'
    BY <1>3, <1>6 DEF Load, files, table, maps
  <1>7. ASSUME \/ Overflow \/ AddRecursive \/ HandleNewDir \/ \E p \in Paths : Schedule(p)
               \/ \E S \in {Paths, Inside} : Unreadable(S) \/ UNCHANGED vars
        PROVE  Honesty'
    <2>1. UNCHANGED <<disk, clock, left, misread, rows, byID, work>>
      BY <1>7 DEF Overflow, AddRecursive, HandleNewDir, Schedule, Unreadable, vars, files, table, maps,
                  past
    <2>. QED
      BY <1>3, <2>1
  <1>8. ASSUME NEW p \in Paths, Visit(p) \/ ReconcileRemoved(p) \/ \E c \in Callbacks : Fire(p, c)
        PROVE  Honesty'
    <2>1. UNCHANGED <<disk, clock, left, misread, rows, byID>> /\ DOMAIN work = Workers
      BY <1>8, SortedGives DEF Visit, ReconcileRemoved, Fire, files, table, maps, past, Sorted
    <2>2. \A w \in Workers : work'[w] = work[w] \/ work'[w].pc \in {"check", "delete", "stat"}
      BY <1>8, <2>1 DEF Visit, ReconcileRemoved, Fire, Begin
    <2>. QED
      BY <1>3, <2>1, <2>2 DEF Stamped, Tagged
  <1>. QED
    BY <1>1, <1>4, <1>5, <1>6, <1>7, <1>8, LibraryCases

LEMMA HonestInit == Init => Honesty
  <1>. SUFFICES ASSUME Init PROVE Honesty
    OBVIOUS
  <1>1. /\ disk \in [Paths -> {0, 1}] /\ clock = 1 /\ left = {} /\ rows = Empty /\ byID = Empty
        /\ \A p, q \in Paths : disk[p] # 0 /\ disk[q] # 0 => p = q
        /\ \A w \in Workers : work[w].pc = "idle"
    BY DEF Init, Idle
  <1>. QED
    BY <1>1, EmptyIs DEF Honesty, Versioned, Stamped, Tagged

-----------------------------------------------------------------------------
(* A step elsewhere leaves what memory and table say of a path. *)

SameAt(p) ==
    /\ p \in DOMAIN byPath' <=> p \in DOMAIN byPath
    /\ p \in DOMAIN byPath => byPath'[p] = byPath[p]
    /\ RowsOf(p)' = RowsOf(p)   /\ \A id \in RowsOf(p) : rows'[id] = rows[id]
    /\ KnownAs(p)' = KnownAs(p) /\ \A id \in KnownAs(p) : byID'[id] = byID[id]

LEMMA SameMeans ==
    ASSUME NEW p, SameAt(p), disk'[p] = disk[p]
    PROVE  /\ Absent(p)' <=> Absent(p)
           /\ Present(p)' <=> Present(p)
           /\ Sane(p)' <=> Sane(p)
           /\ Current(p)' <=> Current(p)
  <1>1. Absent(p)' <=> Absent(p)
    BY DEF SameAt, Absent
  <1>2. Present(p)' <=> Present(p)
    BY DEF SameAt, Present
  <1>3. Present(p) => byID'[byPath'[p]] = byID[byPath[p]]
    BY DEF SameAt, Present
  <1>. QED
    BY <1>1, <1>2, <1>3 DEF Sane, Current

LEMMA FitsKept ==
    ASSUME NEW p, SameAt(p), disk'[p] = disk[p], Pending(p) => Pending(p)',
           NEW w, work'[w] = work[w], Fits(w, p)
    PROVE  Fits(w, p)'
  <1>1. /\ Absent(p)' <=> Absent(p)
        /\ Present(p)' <=> Present(p)
        /\ Sane(p)' <=> Sane(p)
    BY SameMeans
  <1>2. Read(w)' = Read(w)
    BY DEF Read
  <1>3. Present(p) => byPath'[p] = byPath[p]
    BY DEF SameAt, Present
  <1>4. /\ work[w].pc \in {"set", "unmap"} => p \in DOMAIN byPath' /\ byPath'[p] = work[w].id
        /\ work[w].pc = "map" => p \notin DOMAIN byPath'
        /\ work[w].pc \in {"set", "map"} => RowsOf(p)' = {work[w].id} /\ rows'[work[w].id] = Read(w)
    BY DEF SameAt, Fits
  <1>5. RowsOf(p)' = RowsOf(p) /\ KnownAs(p)' = KnownAs(p)
    BY DEF SameAt
  <1>. QED
    BY <1>1, <1>2, <1>3, <1>4, <1>5 DEF Fits

LEMMA RestsKept ==
    ASSUME NEW p, SameAt(p), disk'[p] = disk[p], Pending(p) => Pending(p)',
           phase' = phase, p \in todo' <=> p \in todo, p \in seen' <=> p \in seen, Rests(p)
    PROVE  Rests(p)'
  BY SameMeans DEF Rests

LEMMA FollowsKept ==
    ASSUME NEW p, SameAt(p), disk'[p] = disk[p], Pending(p) => Pending(p)',
           phase' = phase, p \in todo' <=> p \in todo, p \in seen' <=> p \in seen,
           \A w \in Workers : \/ work'[w] = work[w]
                              \/ ~(Doing(w) /\ work[w].path = p) /\ ~(Doing(w) /\ work[w].path = p)',
           Follows(p)
    PROVE  Follows(p)'
  <1>1. ASSUME NEW w \in Workers, Doing(w)', work'[w].path = p PROVE Fits(w, p)'
    <2>1. work'[w] = work[w]
      BY <1>1
    <2>2. Fits(w, p)
      BY <1>1, <2>1 DEF Follows, Doing, At
    <2>. QED
      BY <2>1, <2>2, FitsKept
  <1>2. Busy(p) => Busy(p)'
    BY DEF Busy, Doing, At
  <1>3. ~Busy(p)' => Rests(p)'
    BY <1>2, RestsKept DEF Follows
  <1>. QED
    BY <1>1, <1>3 DEF Follows

LEMMA SameTables ==
    ASSUME UNCHANGED <<rows, byPath, byID>>, NEW p
    PROVE  SameAt(p)
  BY DEF SameAt, RowsOf, KnownAs

LEMMA Elsewhere ==
    ASSUME Sorted, NEW w \in Workers, Step(w) \/ Stat(w) \/ GetByPath(w),
           NEW p \in Paths, p # work[w].path
    PROVE  SameAt(p)
  <1>. DEFINE q  == work[w].path
              id == work[w].id
              r  == Read(w)
  <1>1. CASE Check(w) \/ Lookup(w) \/ ReadTags(w) \/ Stat(w) \/ GetByPath(w)
    BY <1>1, SameTables DEF Check, Lookup, ReadTags, Stat, GetByPath, table, maps
  <1>2. ASSUME work[w].pc \in {"update", "set", "map", "delete", "unmap"}
        PROVE  /\ id \in DOMAIN rows => rows[id].path # p
               /\ id \in DOMAIN byID => byID[id].path # p
    <2>1. id # 0 /\ work[w].pc \in Numbered
      BY <1>2, SortedGives DEF JobOK, Numbered, Tagged
    <2>. QED
      BY <2>1, IdIsMine DEF Named
  <1>3. ASSUME work[w].pc \in Tagged PROVE r.path = q
    BY <1>3, ReadIs
  <1>. HIDE DEF id, r, q
  <1>. p # q
    BY DEF q
  <1>4. CASE UpdateRow(w)
    <2>1. work[w].pc = "update" /\ UNCHANGED <<byPath, byID>>
          /\ rows' \in {rows, [rows EXCEPT ![id] = r]}
      BY <1>4 DEF UpdateRow, At, maps, id, r
    <2>2. r.path # p /\ (id \in DOMAIN rows => rows[id].path # p)
      BY <1>2, <1>3, <2>1 DEF Tagged
    <2>3. RowsOf(p)' = RowsOf(p) /\ \A i \in RowsOf(p) : rows'[i] = rows[i]
      BY <2>1, <2>2 DEF RowsOf
    <2>. QED
      BY <2>1, <2>3 DEF SameAt, KnownAs
  <1>5. CASE SetFields(w)
    <2>1. work[w].pc = "set" /\ UNCHANGED <<byPath, rows>>
          /\ byID' \in {byID, [byID EXCEPT ![id] = r]}
      BY <1>5 DEF SetFields, At, table, id, r
    <2>2. r.path # p /\ (id \in DOMAIN byID => byID[id].path # p)
      BY <1>2, <1>3, <2>1 DEF Tagged
    <2>3. KnownAs(p)' = KnownAs(p) /\ \A i \in KnownAs(p) : byID'[i] = byID[i]
      BY <2>1, <2>2 DEF KnownAs
    <2>. QED
      BY <2>1, <2>3 DEF SameAt, RowsOf
  <1>6. CASE InsertRow(w)
    <2>1. work[w].pc = "insert" /\ UNCHANGED <<byPath, byID>>
          /\ (rows' = rows \/ (lastId' = lastId + 1 /\ rows' = With(rows, lastId', r)))
      BY <1>6 DEF InsertRow, At, maps, table, r
    <2>2. CASE rows' = rows
      BY <2>1, <2>2, SameTables
    <2>3. CASE lastId' = lastId + 1 /\ rows' = With(rows, lastId', r)
      <3>1. r.path # p /\ lastId' \notin DOMAIN rows
        BY <1>3, <2>1, <2>3, SortedGives DEF Tagged, Tabled
      <3>2. /\ DOMAIN rows' = DOMAIN rows \union {lastId'} /\ rows'[lastId'] = r
            /\ \A i \in DOMAIN rows : i # lastId' => rows'[i] = rows[i]
        BY <2>3 DEF With
      <3>3. RowsOf(p)' = RowsOf(p) /\ \A i \in RowsOf(p) : rows'[i] = rows[i]
        BY <3>1, <3>2 DEF RowsOf
      <3>. QED
        BY <2>1, <3>3 DEF SameAt, KnownAs
    <2>. QED
      BY <2>1, <2>2, <2>3
  <1>7. CASE MapTrack(w)
    <2>1. work[w].pc = "map" /\ UNCHANGED rows
          /\ byPath' = With(byPath, q, id) /\ byID' = With(byID, id, r)
      BY <1>7 DEF MapTrack, At, table, id, r, q
    <2>2. r.path # p /\ (id \in DOMAIN byID => byID[id].path # p)
      BY <1>2, <1>3, <2>1 DEF Tagged
    <2>3. /\ DOMAIN byPath' = DOMAIN byPath \union {q}
          /\ \A x \in DOMAIN byPath : x # q => byPath'[x] = byPath[x]
      BY <2>1 DEF With
    <2>4. /\ DOMAIN byID' = DOMAIN byID \union {id} /\ byID'[id] = r
          /\ \A i \in DOMAIN byID : i # id => byID'[i] = byID[i]
      BY <2>1 DEF With
    <2>5. KnownAs(p)' = KnownAs(p) /\ \A i \in KnownAs(p) : byID'[i] = byID[i]
      BY <2>2, <2>4 DEF KnownAs
    <2>. QED
      BY <2>1, <2>3, <2>5 DEF SameAt, RowsOf
  <1>8. CASE DeleteRow(w)
    <2>1. work[w].pc = "delete" /\ UNCHANGED <<byPath, byID>>
          /\ (rows' = rows \/ rows' = Without(rows, id))
      BY <1>8 DEF DeleteRow, At, maps, id
    <2>2. CASE rows' = rows
      BY <2>1, <2>2, SameTables
    <2>3. CASE rows' = Without(rows, id)
      <3>1. DOMAIN rows' = DOMAIN rows \ {id} /\ \A i \in DOMAIN rows' : rows'[i] = rows[i]
        BY <2>3 DEF Without, Restrict
      <3>2. id \in DOMAIN rows => rows[id].path # p
        BY <1>2, <2>1
      <3>3. RowsOf(p)' = RowsOf(p) /\ \A i \in RowsOf(p) : rows'[i] = rows[i]
        BY <3>1, <3>2 DEF RowsOf
      <3>. QED
        BY <2>1, <3>3 DEF SameAt, KnownAs
    <2>. QED
      BY <2>1, <2>2, <2>3
  <1>9. CASE Unmap(w)
    <2>1. work[w].pc = "unmap" /\ UNCHANGED rows
          /\ byPath' = Without(byPath, q) /\ byID' = Without(byID, id)
      BY <1>9 DEF Unmap, At, table, id, q
    <2>2. id \in DOMAIN byID => byID[id].path # p
      BY <1>2, <2>1
    <2>3. DOMAIN byPath' = DOMAIN byPath \ {q} /\ \A x \in DOMAIN byPath' : byPath'[x] = byPath[x]
      BY <2>1 DEF Without, Restrict
    <2>4. DOMAIN byID' = DOMAIN byID \ {id} /\ \A i \in DOMAIN byID' : byID'[i] = byID[i]
      BY <2>1 DEF Without, Restrict
    <2>5. KnownAs(p)' = KnownAs(p) /\ \A i \in KnownAs(p) : byID'[i] = byID[i]
      BY <2>2, <2>4 DEF KnownAs
    <2>. QED
      BY <2>1, <2>3, <2>5 DEF SameAt, RowsOf
  <1>. QED
    BY <1>1, <1>4, <1>5, <1>6, <1>7, <1>8, <1>9 DEF Step

-----------------------------------------------------------------------------
(* What a goroutine does at its own path, when nobody else is at it. *)

(* w is at p, as the invariant has it, and the code promises to follow p.  *)
Here(w, p) ==
    /\ Sorted /\ Honesty /\ w \in Workers /\ p \in Paths
    /\ Doing(w) /\ work[w].path = p /\ Fits(w, p)
    /\ p \notin excused'
    /\ \A v \in Workers \ {w} : ~(Doing(v) /\ work[v].path = p)

LEMMA HereGives ==
    ASSUME NEW w, NEW p, Here(w, p), Step(w) \/ Stat(w) \/ GetByPath(w)
    PROVE  /\ w \in Workers /\ p \in Paths /\ Sorted /\ Honesty /\ Fits(w, p)
           /\ work[w].path = p /\ DOMAIN work = Workers /\ Tabled /\ JobOK(w) /\ Phases
           /\ Turn(w) /\ disk[p] \in Versions /\ lastId \in Nat /\ excused' = excused
           /\ UNCHANGED <<disk, events, timers, phase, todo, seen>>
           /\ \A v \in Workers \ {w} : work'[v] = work[v]
           /\ Pending(p)' = Pending(p)
           /\ phase # "down" /\ (phase = "scan" => w = Scan /\ ~Pending(p))
           /\ work[w].pc \in Stamped => work[w].stamp # 0
  <1>1. /\ w \in Workers /\ p \in Paths /\ Sorted /\ Honesty /\ Fits(w, p) /\ work[w].path = p
        /\ Doing(w)
    BY DEF Here
  <1>2. Turn(w) /\ Others
    BY <1>1, JobSteps DEF Stepped, Turn
  <1>3. DOMAIN work = Workers /\ Tabled /\ JobOK(w) /\ Phases /\ disk[p] \in Versions /\ lastId \in Nat
    BY <1>1, SortedIs, SortedGives
  <1>4. UNCHANGED <<disk, events, timers, phase, todo, seen>> /\ Pending(p)' = Pending(p)
    BY <1>2 DEF Others, Pending
  <1>5. /\ phase # "down"
        /\ phase = "scan" => w = Scan /\ ~Pending(p)
    BY <1>1, <1>3 DEF Phases, Doing, Workers, Pending
  <1>6. excused' = excused
    BY <1>1, <1>2 DEF Here, Turn
  <1>7. work[w].pc \in Stamped => work[w].stamp # 0
    BY <1>1, SortedIs DEF Honesty, Was, Framed, Versions
  <1>. QED
    BY <1>1, <1>2, <1>3, <1>4, <1>5, <1>6, <1>7 DEF Turn

(* After the step, w alone has to fit, or nobody.                          *)
LEMMA HereFollows ==
    ASSUME NEW w, NEW p, Here(w, p), Step(w) \/ Stat(w) \/ GetByPath(w),
           Doing(w)' => Fits(w, p)', ~Doing(w)' => Rests(p)'
    PROVE  Follows(p)'
  <1>1. /\ w \in Workers /\ work[w].path = p /\ Turn(w)
        /\ \A v \in Workers \ {w} : work'[v] = work[v]
    BY HereGives
  <1>2. \A v \in Workers : Doing(v)' /\ work'[v].path = p => v = w
    BY <1>1 DEF Here, Doing, At
  <1>3. Doing(w)' => work'[w].path = p
    BY <1>1 DEF Turn
  <1>. QED
    BY <1>1, <1>2, <1>3 DEF Follows, Busy

LEMMA CheckFollows ==
    ASSUME NEW w, NEW p, Here(w, p), Check(w) PROVE Follows(p)'
  <1>1. /\ w \in Workers /\ Fits(w, p) /\ Phases /\ work[w].pc = "check"
        /\ UNCHANGED <<disk, rows, byPath, byID, phase, todo, seen>> /\ Pending(p)' = Pending(p)
        /\ phase # "down" /\ (phase = "scan" => w = Scan /\ ~Pending(p))
        /\ phase \in {"down", "scan", "watch"} /\ work[w].path = p /\ DOMAIN work = Workers
    BY HereGives, SortedIs DEF Check, Step, At, table, maps, Framed
  <1>2. SameAt(p) /\ (Sane(p)' <=> Sane(p)) /\ Sane(p) /\ (disk[p] # 0 \/ Pending(p))
    BY <1>1, SameTables, SameMeans DEF Fits
  <1>3. CASE work'[w] = [pc |-> "lookup", path |-> p, stamp |-> disk[p]] /\ disk[p] # 0
    <2>1. work'[w].pc = "lookup" /\ work'[w].stamp = disk[p] /\ Doing(w)'
      BY <1>3 DEF Doing, At
    <2>2. Fits(w, p)'
      BY <1>1, <1>2, <2>1 DEF Fits, Stamped
    <2>. QED
      BY <2>1, <2>2, HereFollows DEF Step
  <1>4. CASE work'[w] = Idle /\ disk[p] = 0
    <2>1. Pending(p) /\ phase = "watch" /\ ~Doing(w)'
      BY <1>1, <1>2, <1>4, IdleJob
    <2>2. Rests(p)'
      BY <1>1, <1>2, <2>1 DEF Rests
    <2>. QED
      BY <2>1, <2>2, HereFollows DEF Step
  <1>5. ~GiveUp(w)
    BY <1>1 DEF Here, GiveUp
  <1>. QED
    BY <1>1, <1>3, <1>4, <1>5, Began DEF Check

LEMMA LookupFollows ==
    ASSUME NEW w, NEW p, Here(w, p), Lookup(w) PROVE Follows(p)'
  <1>. DEFINE id == IF p \in DOMAIN byPath THEN byPath[p] ELSE 0
  <1>1. /\ w \in Workers /\ Fits(w, p) /\ Phases /\ Tabled /\ work[w].pc = "lookup"
        /\ UNCHANGED <<disk, rows, byPath, byID, phase, todo, seen>> /\ Pending(p)' = Pending(p)
        /\ phase # "down" /\ (phase = "scan" => w = Scan /\ ~Pending(p))
        /\ work[w].path = p /\ DOMAIN work = Workers
        /\ work[w].stamp # 0 /\ lastId \in Nat /\ Doing(w)
    BY HereGives DEF Lookup, Step, At, table, maps, Stamped, Here
  <1>2. /\ SameAt(p) /\ Sane(p) /\ (work[w].stamp = disk[p] \/ Pending(p))
        /\ Absent(p)' <=> Absent(p)
        /\ Present(p)' <=> Present(p)
        /\ Sane(p)' <=> Sane(p)
        /\ Current(p)' <=> Current(p)
    BY <1>1, SameTables, SameMeans DEF Fits, Stamped
  <1>3. p \in DOMAIN byPath => id = byPath[p] /\ id # 0 /\ byPath'[p] = id
    BY <1>1 DEF Tabled
  <1>4. p \notin DOMAIN byPath => id = 0
    OBVIOUS
  <1>5. /\ p \in DOMAIN byPath => Present(p)
        /\ p \notin DOMAIN byPath => Absent(p)
    BY <1>2 DEF Sane, Absent, Present
  <1>6. \/ work'[w] = Idle /\ id # 0 /\ byID[id].stamp = work[w].stamp
        \/ work'[w] = [pc |-> "tags", path |-> p, stamp |-> work[w].stamp, id |-> id]
    BY <1>1, Began DEF Lookup, Return
  <1>. HIDE DEF id
  <1>7. CASE work'[w] = [pc |-> "tags", path |-> p, stamp |-> work[w].stamp, id |-> id]
    <2>1. work'[w].pc = "tags" /\ work'[w].stamp = work[w].stamp /\ work'[w].id = id /\ Doing(w)'
      BY <1>7 DEF Doing, At
    <2>2. Fits(w, p)'
      BY <1>1, <1>2, <1>3, <1>4, <1>5, <2>1 DEF Fits, Stamped
    <2>. QED
      BY <2>1, <2>2, HereFollows DEF Step
  <1>8. CASE work'[w] = Idle /\ id # 0 /\ byID[id].stamp = work[w].stamp
    <2>1. ~Doing(w)' /\ Present(p) /\ byID[byPath[p]].stamp = work[w].stamp
      BY <1>3, <1>4, <1>5, <1>8, IdleJob
    <2>2. Pending(p) \/ Current(p)
      BY <1>1, <1>2, <2>1 DEF Current
    <2>3. phase = "scan" => p \in seen /\ disk[p] # 0
      BY <1>1, <1>2 DEF Phases, Doing
    <2>4. Rests(p)'
      BY <1>1, <1>2, <2>2, <2>3 DEF Rests
    <2>. QED
      BY <2>1, <2>4, HereFollows DEF Step
  <1>. QED
    BY <1>6, <1>7, <1>8

LEMMA ReadTagsFollows ==
    ASSUME NEW w, NEW p, Here(w, p), ReadTags(w) PROVE Follows(p)'
  <1>1. /\ w \in Workers /\ Fits(w, p) /\ work[w].pc = "tags"
        /\ UNCHANGED <<disk, rows, byPath, byID>> /\ Pending(p)' = Pending(p)
        /\ work[w].path = p /\ DOMAIN work = Workers
    BY HereGives DEF ReadTags, Step, At, table, maps
  <1>2. /\ SameAt(p) /\ (work[w].stamp = disk[p] \/ Pending(p))
        /\ IF work[w].id = 0 THEN Absent(p) ELSE Present(p) /\ work[w].id = byPath[p]
        /\ Absent(p)' <=> Absent(p)
        /\ Present(p)' <=> Present(p)
    BY <1>1, SameTables, SameMeans DEF Fits, Stamped
  <1>3. \E tags : work'[w] = [pc |-> IF work[w].id # 0 THEN "update" ELSE "insert", path |-> p,
                              stamp |-> work[w].stamp, id |-> work[w].id, tags |-> tags]
    BY <1>1, Began DEF ReadTags
  <1>4. /\ work'[w].pc = (IF work[w].id # 0 THEN "update" ELSE "insert")
        /\ work'[w].stamp = work[w].stamp /\ work'[w].id = work[w].id
    BY <1>3
  <1>5. Fits(w, p)'
    BY <1>1, <1>2, <1>4 DEF Fits, Stamped
  <1>6. Doing(w)'
    BY <1>4 DEF Doing, At
  <1>. QED
    BY <1>5, <1>6, HereFollows DEF Step

LEMMA UpdateRowFollows ==
    ASSUME NEW w, NEW p, Here(w, p), UpdateRow(w) PROVE Follows(p)'
  <1>. DEFINE id == work[w].id
              r  == Read(w)
  <1>1. /\ w \in Workers /\ Fits(w, p) /\ Sorted /\ work[w].pc = "update"
        /\ UNCHANGED <<disk, byPath, byID>> /\ Pending(p)' = Pending(p)
        /\ work[w].path = p /\ DOMAIN work = Workers
    BY HereGives DEF UpdateRow, Step, At, maps
  <1>2. /\ p \in DOMAIN byPath /\ byPath[p] = id /\ RowsOf(p) = {id} /\ KnownAs(p) = {id}
        /\ work[w].stamp = disk[p] \/ Pending(p)
    BY <1>1 DEF Fits, Present, Stamped
  <1>3. r.path = p /\ DOMAIN work[w] = {"pc", "path", "stamp", "id", "tags"}
    BY <1>1, ReadIs DEF Tagged
  <1>4. ~GiveUp(w)
    BY <1>1 DEF Here, GiveUp
  <1>5. /\ rows' = IF id \in DOMAIN rows THEN [rows EXCEPT ![id] = r] ELSE rows
        /\ Begin(w, [work[w] EXCEPT !.pc = "set"])
    BY <1>4 DEF UpdateRow
  <1>6. work'[w] = [work[w] EXCEPT !.pc = "set"]
    BY <1>1, <1>5, Began
  <1>7. /\ work'[w].pc = "set" /\ work'[w].stamp = work[w].stamp /\ work'[w].id = id
        /\ work'[w].path = p /\ work'[w].tags = work[w].tags
    BY <1>1, <1>3, <1>6
  <1>8. Read(w)' = r /\ Doing(w)'
    BY <1>1, <1>7 DEF Read, Doing, At
  <1>. HIDE DEF id, r
  <1>9. id \in DOMAIN rows
    BY <1>2 DEF RowsOf
  <1>10. RowsOf(p)' = {id} /\ rows'[id] = r
    BY <1>2, <1>3, <1>5, <1>9 DEF RowsOf
  <1>11. KnownAs(p)' = {id}
    BY <1>1, <1>2 DEF KnownAs
  <1>12. Fits(w, p)'
    BY <1>1, <1>2, <1>7, <1>8, <1>10, <1>11 DEF Fits, Stamped
  <1>. QED
    BY <1>8, <1>12, HereFollows DEF Step

(* Where a goroutine ends that has set or mapped the track as it read it.  *)
LEMMA Tracked ==
    ASSUME NEW w, NEW p, Here(w, p), SetFields(w) \/ MapTrack(w),
           p \in DOMAIN byPath', byPath'[p] = work[w].id,
           RowsOf(p)' = {work[w].id}, KnownAs(p)' = {work[w].id},
           rows'[work[w].id] = Read(w), byID'[work[w].id] = Read(w)
    PROVE  Follows(p)'
  <1>1. /\ w \in Workers /\ Fits(w, p) /\ Phases /\ work[w].pc \in {"set", "map"}
        /\ UNCHANGED <<disk, phase, todo, seen>> /\ Pending(p)' = Pending(p)
        /\ phase # "down" /\ (phase = "scan" => w = Scan /\ ~Pending(p))
        /\ work[w].path = p /\ DOMAIN work = Workers
        /\ work[w].stamp # 0 /\ Doing(w)
    BY HereGives DEF SetFields, MapTrack, Step, At, Stamped, Here
  <1>2. work'[w] = Idle /\ ~Doing(w)'
    BY <1>1, Began, IdleJob DEF SetFields, MapTrack, Return
  <1>3. work[w].stamp = disk[p] \/ Pending(p)
    BY <1>1 DEF Fits, Stamped
  <1>4. Present(p)' /\ byID'[byPath'[p]].stamp = work[w].stamp
    BY DEF Present, Read
  <1>5. work[w].stamp = disk[p] => Current(p)' /\ disk[p] # 0
    BY <1>1, <1>4 DEF Current
  <1>6. phase = "scan" => p \in seen
    BY <1>1 DEF Phases, Doing
  <1>7. Rests(p)'
    BY <1>1, <1>3, <1>4, <1>5, <1>6 DEF Rests, Sane
  <1>. QED
    BY <1>2, <1>7, HereFollows DEF Step

LEMMA SetFieldsFollows ==
    ASSUME NEW w, NEW p, Here(w, p), SetFields(w) PROVE Follows(p)'
  <1>. DEFINE id == work[w].id
              r  == Read(w)
  <1>1. /\ w \in Workers /\ Fits(w, p) /\ Sorted /\ work[w].pc = "set" /\ work[w].path = p
        /\ UNCHANGED <<rows, byPath>>
    BY HereGives DEF SetFields, Step, At, table
  <1>2. /\ p \in DOMAIN byPath /\ byPath[p] = id /\ RowsOf(p) = {id} /\ KnownAs(p) = {id}
        /\ rows[id] = r
    BY <1>1 DEF Fits
  <1>3. r.path = p
    BY <1>1, ReadIs DEF Tagged
  <1>4. byID' = IF id \in DOMAIN byID THEN [byID EXCEPT ![id] = r] ELSE byID
    BY DEF SetFields
  <1>. HIDE DEF id, r
  <1>5. id \in DOMAIN byID
    BY <1>2 DEF KnownAs
  <1>6. KnownAs(p)' = {id} /\ byID'[id] = r
    BY <1>2, <1>3, <1>4, <1>5 DEF KnownAs
  <1>7. RowsOf(p)' = {id} /\ rows'[id] = r
    BY <1>1, <1>2 DEF RowsOf
  <1>. QED
    BY <1>1, <1>2, <1>6, <1>7, Tracked DEF id, r

LEMMA MapTrackFollows ==
    ASSUME NEW w, NEW p, Here(w, p), MapTrack(w) PROVE Follows(p)'
  <1>. DEFINE id == work[w].id
              r  == Read(w)
  <1>1. /\ w \in Workers /\ Fits(w, p) /\ Sorted /\ work[w].pc = "map" /\ work[w].path = p
        /\ UNCHANGED rows
    BY HereGives DEF MapTrack, Step, At, table
  <1>2. KnownAs(p) = {} /\ RowsOf(p) = {id} /\ rows[id] = r
    BY <1>1 DEF Fits
  <1>3. r.path = p
    BY <1>1, ReadIs DEF Tagged
  <1>4. byPath' = With(byPath, p, id) /\ byID' = With(byID, id, r)
    BY <1>1 DEF MapTrack
  <1>. HIDE DEF id, r
  <1>5. p \in DOMAIN byPath' /\ byPath'[p] = id
    BY <1>4 DEF With
  <1>6. /\ DOMAIN byID' = DOMAIN byID \union {id} /\ byID'[id] = r
        /\ \A i \in DOMAIN byID : i # id => byID'[i] = byID[i]
    BY <1>4 DEF With
  <1>7. KnownAs(p)' = {id}
    BY <1>2, <1>3, <1>6 DEF KnownAs
  <1>8. RowsOf(p)' = {id} /\ rows'[id] = r
    BY <1>1, <1>2 DEF RowsOf
  <1>. QED
    BY <1>5, <1>6, <1>7, <1>8, Tracked DEF id, r

LEMMA InsertRowFollows ==
    ASSUME NEW w, NEW p, Here(w, p), InsertRow(w) PROVE Follows(p)'
  <1>. DEFINE r == Read(w)
  <1>1. /\ w \in Workers /\ Fits(w, p) /\ Sorted /\ Tabled /\ work[w].pc = "insert"
        /\ UNCHANGED <<disk, byPath, byID>> /\ Pending(p)' = Pending(p)
        /\ work[w].path = p /\ DOMAIN work = Workers /\ lastId \in Nat
    BY HereGives DEF InsertRow, Step, At, maps
  <1>2. Absent(p) /\ (work[w].stamp = disk[p] \/ Pending(p))
    BY <1>1 DEF Fits, Stamped
  <1>3. r.path = p /\ DOMAIN work[w] = {"pc", "path", "stamp", "id", "tags"}
    BY <1>1, ReadIs DEF Tagged
  <1>4. ~GiveUp(w) /\ ~Taken(p)
    BY <1>1, <1>2 DEF Here, GiveUp, Absent, RowsOf, Taken
  <1>5. /\ rows' = With(rows, lastId', r) /\ lastId' = lastId + 1
        /\ Begin(w, [work[w] EXCEPT !.pc = "map", !.id = lastId'])
    BY <1>1, <1>4 DEF InsertRow
  <1>6. work'[w] = [work[w] EXCEPT !.pc = "map", !.id = lastId']
    BY <1>1, <1>5, Began
  <1>7. /\ work'[w].pc = "map" /\ work'[w].stamp = work[w].stamp /\ work'[w].id = lastId'
        /\ work'[w].path = p /\ work'[w].tags = work[w].tags
    BY <1>1, <1>3, <1>6
  <1>8. Read(w)' = r /\ Doing(w)'
    BY <1>1, <1>7 DEF Read, Doing, At
  <1>. HIDE DEF r
  <1>9. /\ DOMAIN rows' = DOMAIN rows \union {lastId'} /\ rows'[lastId'] = r
        /\ \A i \in DOMAIN rows : i # lastId' => rows'[i] = rows[i]
    BY <1>5 DEF With
  <1>10. lastId' \notin DOMAIN rows
    BY <1>1, <1>5 DEF Tabled
  <1>11. RowsOf(p)' = {lastId'} /\ rows'[lastId'] = r
    BY <1>2, <1>3, <1>9, <1>10 DEF RowsOf, Absent
  <1>12. KnownAs(p)' = {} /\ p \notin DOMAIN byPath'
    BY <1>1, <1>2 DEF KnownAs, Absent
  <1>13. Fits(w, p)'
    BY <1>1, <1>2, <1>7, <1>8, <1>11, <1>12 DEF Fits, Stamped
  <1>. QED
    BY <1>8, <1>13, HereFollows DEF Step

LEMMA DeleteRowFollows ==
    ASSUME NEW w, NEW p, Here(w, p), DeleteRow(w) PROVE Follows(p)'
  <1>. DEFINE id == work[w].id
  <1>1. /\ w \in Workers /\ Fits(w, p) /\ JobOK(w) /\ work[w].pc = "delete"
        /\ UNCHANGED <<disk, byPath, byID>> /\ Pending(p)' = Pending(p)
        /\ work[w].path = p /\ DOMAIN work = Workers
    BY HereGives DEF DeleteRow, Step, At, maps
  <1>2. /\ p \in DOMAIN byPath /\ byPath[p] = id /\ RowsOf(p) = {id} /\ KnownAs(p) = {id}
        /\ disk[p] = 0 \/ Pending(p)
    BY <1>1 DEF Fits, Present
  <1>3. DOMAIN work[w] = {"pc", "path", "id"}
    BY <1>1 DEF JobOK
  <1>4. ~GiveUp(w)
    BY <1>1 DEF Here, GiveUp
  <1>5. rows' = Without(rows, id) /\ Begin(w, [work[w] EXCEPT !.pc = "unmap"])
    BY <1>4 DEF DeleteRow
  <1>6. work'[w] = [work[w] EXCEPT !.pc = "unmap"]
    BY <1>1, <1>5, Began
  <1>7. work'[w].pc = "unmap" /\ work'[w].id = id /\ work'[w].path = p
    BY <1>1, <1>3, <1>6
  <1>. HIDE DEF id
  <1>8. DOMAIN rows' = DOMAIN rows \ {id} /\ \A i \in DOMAIN rows' : rows'[i] = rows[i]
    BY <1>5 DEF Without, Restrict
  <1>9. RowsOf(p)' = {}
    BY <1>2, <1>8 DEF RowsOf
  <1>10. KnownAs(p)' = {id}
    BY <1>1, <1>2 DEF KnownAs
  <1>11. Fits(w, p)'
    BY <1>1, <1>2, <1>7, <1>9, <1>10 DEF Fits, Stamped
  <1>12. Doing(w)'
    BY <1>7 DEF Doing, At
  <1>. QED
    BY <1>11, <1>12, HereFollows DEF Step

LEMMA UnmapFollows ==
    ASSUME NEW w, NEW p, Here(w, p), Unmap(w) PROVE Follows(p)'
  <1>. DEFINE id == work[w].id
  <1>1. /\ w \in Workers /\ Fits(w, p) /\ Phases /\ work[w].pc = "unmap"
        /\ UNCHANGED <<disk, rows, phase, todo, seen>> /\ Pending(p)' = Pending(p)
        /\ phase # "down" /\ (phase = "scan" => w = Scan /\ ~Pending(p))
        /\ work[w].path = p /\ DOMAIN work = Workers /\ Doing(w)
    BY HereGives DEF Unmap, Step, At, table, Here
  <1>2. KnownAs(p) = {id} /\ RowsOf(p) = {} /\ (disk[p] = 0 \/ Pending(p))
    BY <1>1 DEF Fits
  <1>3. byPath' = Without(byPath, p) /\ byID' = Without(byID, id) /\ work'[w] = Idle
    BY <1>1, Began DEF Unmap, Return
  <1>. HIDE DEF id
  <1>4. p \notin DOMAIN byPath'
    BY <1>3 DEF Without, Restrict
  <1>5. DOMAIN byID' = DOMAIN byID \ {id} /\ \A i \in DOMAIN byID' : byID'[i] = byID[i]
    BY <1>3 DEF Without, Restrict
  <1>6. KnownAs(p)' = {} /\ RowsOf(p)' = {}
    BY <1>1, <1>2, <1>5 DEF KnownAs, RowsOf
  <1>7. Absent(p)'
    BY <1>4, <1>6 DEF Absent
  <1>8. disk[p] = 0 => Current(p)'
    BY <1>1, <1>7 DEF Current
  <1>9. phase = "scan" => p \notin seen
    BY <1>1 DEF Phases, Doing
  <1>10. Rests(p)'
    BY <1>1, <1>2, <1>7, <1>8, <1>9 DEF Rests, Sane
  <1>. QED
    BY <1>3, <1>10, IdleJob, HereFollows DEF Step

LEMMA StatFollows ==
    ASSUME NEW w, NEW p, Here(w, p), Stat(w) PROVE Follows(p)'
  <1>1. /\ w \in Workers /\ Fits(w, p) /\ work[w].pc = "stat"
        /\ UNCHANGED <<disk, rows, byPath, byID>> /\ Pending(p)' = Pending(p)
        /\ work[w].path = p /\ DOMAIN work = Workers
    BY HereGives DEF Stat, At, table, maps
  <1>2. SameAt(p) /\ (Sane(p)' <=> Sane(p)) /\ Sane(p)
    BY <1>1, SameTables, SameMeans DEF Fits
  <1>3. ~GiveUp(w)
    BY <1>1 DEF Here, GiveUp
  <1>4. \/ work'[w] = [pc |-> "find", path |-> p] /\ disk[p] = 0
        \/ work'[w] = [pc |-> "check", path |-> p] /\ disk[p] # 0
    <2>1. PICK fails \in BOOLEAN :
             /\ IF fails /\ disk[p] = 0 THEN GiveUp(w) ELSE UNCHANGED excused
             /\ Begin(w, [pc |-> IF Gone(w, fails) THEN "find" ELSE "check", path |-> p])
      BY <1>1 DEF Stat
    <2>2. work'[w] = [pc |-> IF Gone(w, fails) THEN "find" ELSE "check", path |-> p]
      BY <1>1, <2>1, Began
    <2>3. Gone(w, fails) <=> disk[p] = 0
      BY <1>1, <1>3, <2>1 DEF Gone
    <2>. QED
      BY <2>2, <2>3
  <1>5. Doing(w)'
    BY <1>4 DEF Doing, At
  <1>6. Fits(w, p)'
    BY <1>1, <1>2, <1>4 DEF Fits, Stamped
  <1>. QED
    BY <1>5, <1>6, HereFollows

LEMMA GetByPathFollows ==
    ASSUME NEW w, NEW p, Here(w, p), GetByPath(w) PROVE Follows(p)'
  <1>1. /\ w \in Workers /\ Fits(w, p) /\ Phases /\ work[w].pc = "find"
        /\ UNCHANGED <<disk, rows, byPath, byID, phase, todo, seen>> /\ Pending(p)' = Pending(p)
        /\ phase # "down" /\ (phase = "scan" => w = Scan /\ ~Pending(p))
        /\ work[w].path = p /\ DOMAIN work = Workers /\ Doing(w)
    BY HereGives DEF GetByPath, At, table, maps, Here
  <1>2. /\ SameAt(p) /\ Sane(p) /\ (disk[p] = 0 \/ Pending(p))
        /\ Absent(p)' <=> Absent(p)
        /\ Present(p)' <=> Present(p)
        /\ Sane(p)' <=> Sane(p)
        /\ Current(p)' <=> Current(p)
    BY <1>1, SameTables, SameMeans DEF Fits
  <1>3. CASE p \in DOMAIN byPath
    <2>1. work'[w] = [pc |-> "delete", path |-> p, id |-> byPath[p]]
      BY <1>1, <1>3, Began DEF GetByPath
    <2>2. work'[w].pc = "delete" /\ work'[w].id = byPath[p] /\ Doing(w)'
      BY <2>1 DEF Doing, At
    <2>3. Present(p)
      BY <1>2, <1>3 DEF Sane, Absent
    <2>4. Fits(w, p)'
      BY <1>1, <1>2, <2>2, <2>3 DEF Fits, Stamped
    <2>. QED
      BY <2>2, <2>4, HereFollows
  <1>4. CASE p \notin DOMAIN byPath
    <2>1. work'[w] = Idle /\ ~Doing(w)'
      BY <1>1, <1>4, Began, IdleJob DEF GetByPath, Return
    <2>2. Absent(p)
      BY <1>2, <1>4 DEF Sane, Present
    <2>3. phase # "scan"
      BY <1>1 DEF Phases, Doing
    <2>4. disk[p] = 0 => Current(p)
      BY <2>2 DEF Current
    <2>5. Rests(p)'
      BY <1>1, <1>2, <2>3, <2>4 DEF Rests
    <2>. QED
      BY <2>1, <2>5, HereFollows
  <1>. QED
    BY <1>3, <1>4

-----------------------------------------------------------------------------
(* Every step keeps what it follows. *)

LEMMA TurnFollowing ==
    ASSUME Sorted, Guarded, Honesty, Following, NEW w \in Workers, Step(w) \/ Stat(w) \/ GetByPath(w)
    PROVE  Following'
  <1>1. /\ Turn(w) /\ Others /\ Doing(w) /\ excused \subseteq excused'
        /\ \A v \in Workers \ {w} : work'[v] = work[v]
        /\ Doing(w)' => work'[w].path = work[w].path
    BY JobSteps DEF Stepped, Turn
  <1>2. phase # "down"
    BY <1>1, SortedIs DEF Phases, Doing, Workers
  <1>. SUFFICES ASSUME NEW p \in Paths, p \notin excused' PROVE Follows(p)'
    BY DEF Following
  <1>3. Follows(p) /\ p \notin excused
    BY <1>1, <1>2 DEF Following
  <1>4. CASE p # work[w].path
    <2>1. SameAt(p)
      BY <1>4, Elsewhere
    <2>2. /\ disk'[p] = disk[p] /\ (Pending(p) => Pending(p)') /\ UNCHANGED <<phase, todo, seen>>
      BY <1>1 DEF Others, Pending
    <2>3. \A v \in Workers : \/ work'[v] = work[v]
                             \/ ~(Doing(v) /\ work[v].path = p) /\ ~(Doing(v) /\ work[v].path = p)'
      BY <1>1, <1>4
    <2>. QED
      BY <1>3, <2>1, <2>2, <2>3, FollowsKept
  <1>5. CASE p = work[w].path
    <2>1. Fits(w, p)
      BY <1>1, <1>3, <1>5 DEF Follows
    <2>2. \A v \in Workers \ {w} : ~(Doing(v) /\ work[v].path = p)
      BY <1>1, <1>3, <1>5, SortedIs DEF Guarded, Alone, Framed
    <2>3. Here(w, p)
      BY <1>1, <1>5, <2>1, <2>2 DEF Here
    <2>. QED
      BY <2>3, CheckFollows, LookupFollows, ReadTagsFollows, UpdateRowFollows, SetFieldsFollows,
         InsertRowFollows, MapTrackFollows, DeleteRowFollows, UnmapFollows, StatFollows,
         GetByPathFollows DEF Step
  <1>. QED
    BY <1>4, <1>5

(* A file changes under whoever is at its path: the event is to come.      *)
LEMMA FileFollows ==
    ASSUME NEW p, SameAt(p), Pending(p)', phase = "watch", UNCHANGED <<phase, work, todo, seen>>, Follows(p)
    PROVE  Follows(p)'
  <1>1. /\ Absent(p)' <=> Absent(p)
        /\ Present(p)' <=> Present(p)
        /\ Sane(p)' <=> Sane(p)
    BY DEF SameAt, Absent, Present, Sane
  <1>2. ASSUME NEW w, Fits(w, p) PROVE Fits(w, p)'
    <2>1. Read(w)' = Read(w)
      BY DEF Read
    <2>2. Present(p) => byPath'[p] = byPath[p]
      BY DEF SameAt, Present
    <2>3. /\ work[w].pc \in {"set", "unmap"} => p \in DOMAIN byPath' /\ byPath'[p] = work[w].id
          /\ work[w].pc = "map" => p \notin DOMAIN byPath'
          /\ work[w].pc \in {"set", "map"} => RowsOf(p)' = {work[w].id} /\ rows'[work[w].id] = Read(w)
      BY <1>2 DEF SameAt, Fits
    <2>4. RowsOf(p)' = RowsOf(p) /\ KnownAs(p)' = KnownAs(p)
      BY DEF SameAt
    <2>. QED
      BY <1>1, <1>2, <2>1, <2>2, <2>3, <2>4 DEF Fits
  <1>3. Rests(p) => Rests(p)'
    BY <1>1 DEF Rests
  <1>4. Busy(p)' <=> Busy(p)
    BY DEF Busy, Doing, At
  <1>5. \A w \in Workers : Doing(w)' /\ work'[w].path = p => Fits(w, p)'
    BY <1>2 DEF Follows, Doing, At
  <1>. QED
    BY <1>3, <1>4, <1>5 DEF Follows

LEMMA FilesFollowing == ASSUME Sorted, Following, FileStep PROVE Following'
  <1>1. Touches /\ Phases /\ Framed
    BY FilesSorted, SortedIs
  <1>2. /\ UNCHANGED <<rows, byPath, byID, phase, todo, seen, timers, work>>
        /\ excused \subseteq excused' /\ events \subseteq events'
    BY <1>1 DEF Touches
  <1>. SUFFICES ASSUME phase # "down", NEW p \in Paths, p \notin excused' PROVE Follows(p)'
    BY <1>2 DEF Following
  <1>3. Follows(p) /\ SameAt(p)
    BY <1>2, SameTables DEF Following
  <1>4. CASE disk'[p] = disk[p]
    <2>1. Pending(p) => Pending(p)'
      BY <1>2 DEF Pending
    <2>. QED
      BY <1>2, <1>3, <1>4, <2>1, FollowsKept
  <1>5. CASE disk'[p] # disk[p]
    <2>1. p \in events'
      BY <1>1, <1>5 DEF Touches
    <2>2. phase = "watch"
      BY <1>1, <2>1 DEF Touches, Phases, Framed
    <2>3. Pending(p)'
      BY <2>1 DEF Pending
    <2>. QED
      BY <1>2, <1>3, <2>2, <2>3, FileFollows
  <1>. QED
    BY <1>4, <1>5

(* Steps at which nothing of a followed path changes.                      *)
LEMMA QuietFollowing ==
    ASSUME Sorted, Following,
           \/ Overflow \/ HandleNewDir \/ \E p \in Paths : Schedule(p)
           \/ \E S \in {Paths, Inside} : Unreadable(S) \/ UNCHANGED vars
    PROVE  Following'
  <1>1. /\ UNCHANGED <<disk, rows, byPath, byID, phase, seen, work>> /\ excused \subseteq excused'
    BY DEF Overflow, HandleNewDir, Schedule, Unreadable, files, table, maps, scan, past, vars
  <1>2. \A p \in Paths \ excused' : p \in todo' <=> p \in todo
    BY DEF Overflow, HandleNewDir, Schedule, Unreadable, scan, vars
  <1>3. \A p \in Paths \ excused' : Pending(p) => Pending(p)'
    BY DEF Overflow, HandleNewDir, Schedule, Unreadable, scan, watch, vars, Pending
  <1>. SUFFICES ASSUME phase # "down", NEW p \in Paths, p \notin excused' PROVE Follows(p)'
    BY <1>1 DEF Following
  <1>4. Follows(p) /\ SameAt(p) /\ (Pending(p) => Pending(p)') /\ (p \in todo' <=> p \in todo)
    BY <1>1, <1>2, <1>3, SameTables DEF Following
  <1>. QED
    BY <1>1, <1>4, FollowsKept

LEMMA LoadFollowing == ASSUME Sorted, Load PROVE Following'
  <1>1. /\ phase = "down" /\ phase' = "scan" /\ UNCHANGED <<disk, rows, work>>
    BY DEF Load, files, table
  <1>2. Tabled /\ \A w \in Workers : work[w].pc = "idle"
    BY <1>1, SortedIs DEF Phases, Workers, At
  <1>. SUFFICES ASSUME NEW p \in Paths, p \notin excused' PROVE Follows(p)'
    BY DEF Following
  <1>3. /\ todo' = Paths /\ byID' = rows
        /\ byPath' = [q \in {rows[id].path : id \in DOMAIN rows} |->
                           CHOOSE id \in DOMAIN rows : rows[id].path = q]
    BY DEF Load
  <1>4. RowsOf(p)' = RowsOf(p) /\ KnownAs(p)' = RowsOf(p)
    BY <1>1, <1>3 DEF RowsOf, KnownAs
  <1>5. CASE RowsOf(p) = {}
    <2>1. p \notin DOMAIN byPath'
      BY <1>3, <1>5 DEF RowsOf
    <2>2. Absent(p)'
      BY <1>4, <1>5, <2>1 DEF Absent
    <2>. QED
      BY <1>1, <1>2, <1>3, <2>2 DEF Follows, Rests, Sane, Doing, At
  <1>6. CASE RowsOf(p) # {}
    <2>1. PICK id \in DOMAIN rows : rows[id].path = p
      BY <1>6 DEF RowsOf
    <2>2. RowsOf(p) = {id}
      BY <1>2, <2>1 DEF RowsOf, Tabled
    <2>3. p \in DOMAIN byPath' /\ byPath'[p] \in DOMAIN rows /\ rows[byPath'[p]].path = p
      BY <1>3, <2>1
    <2>4. byPath'[p] = id
      BY <2>2, <2>3 DEF RowsOf
    <2>5. Present(p)'
      BY <1>1, <1>3, <1>4, <2>2, <2>3, <2>4 DEF Present
    <2>. QED
      BY <1>1, <1>2, <1>3, <2>5 DEF Follows, Rests, Sane, Doing, At
  <1>. QED
    BY <1>5, <1>6

LEMMA AddRecursiveFollowing == ASSUME Sorted, Following, AddRecursive PROVE Following'
  <1>1. /\ phase = "scan" /\ At(Scan, "idle") /\ todo = {} /\ DOMAIN byPath \ seen = {}
        /\ phase' = "watch" /\ UNCHANGED <<disk, rows, byPath, byID, work, excused, events, timers>>
    BY DEF AddRecursive, ScanIdle, Unseen, files, table, maps, past
  <1>2. \A w \in Workers : work[w].pc = "idle"
    BY <1>1, SortedIs DEF Phases, Workers, At
  <1>. SUFFICES ASSUME NEW p \in Paths, p \notin excused' PROVE Follows(p)'
    BY DEF Following
  <1>3. Rests(p) /\ SameAt(p)
    BY <1>1, <1>2, SameTables DEF Following, Follows, Busy, Doing, At
  <1>4. (Sane(p)' <=> Sane(p)) /\ (Current(p)' <=> Current(p))
    BY <1>1, <1>3, SameMeans
  <1>5. Current(p)
    BY <1>1, <1>3 DEF Rests, Sane, Present, Current
  <1>6. Rests(p)'
    BY <1>1, <1>3, <1>4, <1>5 DEF Rests
  <1>. QED
    BY <1>1, <1>2, <1>6 DEF Follows, Doing, At

LEMMA ScanFollowing ==
    ASSUME Sorted, Following, NEW q \in Paths, Visit(q) \/ ReconcileRemoved(q)
    PROVE  Following'
  <1>1. /\ phase = "scan" /\ At(Scan, "idle") /\ UNCHANGED <<disk, rows, byPath, byID, phase, events, timers, excused>>
        /\ todo' \subseteq todo /\ todo \subseteq todo' \union {q}
        /\ seen \subseteq seen' /\ seen' \subseteq seen \union {q}
    BY DEF Visit, ReconcileRemoved, ScanIdle, files, table, maps, watch, past, scan
  <1>2. /\ \A w \in Workers : work[w].pc = "idle"
        /\ DOMAIN work = Workers /\ Scan \in Workers /\ Phases
    BY <1>1, SortedIs DEF Phases, Workers, At
  <1>3. \A w \in Workers : \/ work'[w] = work[w]
                           \/ w = Scan /\ work'[w].path = q
    BY <1>2 DEF Visit, ReconcileRemoved, Begin
  <1>. SUFFICES ASSUME NEW p \in Paths, p \notin excused' PROVE Follows(p)'
    BY DEF Following
  <1>4. Follows(p) /\ Rests(p) /\ SameAt(p) /\ (Pending(p)' <=> Pending(p))
    BY <1>1, <1>2, SameTables DEF Following, Follows, Busy, Doing, At, Pending
  <1>5. CASE p # q
    <2>1. \A w \in Workers : \/ work'[w] = work[w]
                             \/ ~(Doing(w) /\ work[w].path = p) /\ ~(Doing(w) /\ work[w].path = p)'
      BY <1>2, <1>3, <1>5 DEF Doing, At
    <2>. QED
      BY <1>1, <1>4, <1>5, <2>1, FollowsKept
  <1>6. CASE p = q
    <2>0. /\ Absent(p)' <=> Absent(p)
          /\ Present(p)' <=> Present(p)
          /\ Sane(p)' <=> Sane(p)
      BY <1>1, <1>4, SameMeans
    <2>1. CASE Visit(q)
      <3>1. q \in todo /\ todo' = todo \ {q} /\ q \notin seen
        BY <1>2, <2>1 DEF Visit, Phases
      <3>2. CASE disk[q] # 0
        <4>1. Begin(Scan, [pc |-> "check", path |-> q])
          BY <2>1, <3>2 DEF Visit
        <4>2. work'[Scan] = [pc |-> "check", path |-> q] /\ \A w \in Workers \ {Scan} : work'[w] = work[w]
          BY <1>2, <4>1, Began
        <4>3. Fits(Scan, p)'
          BY <1>1, <1>4, <1>6, <2>0, <3>2, <4>2 DEF Fits, Rests, Stamped
        <4>4. Busy(p)'
          BY <1>2, <1>6, <4>2 DEF Busy, Doing, At
        <4>. QED
          BY <1>2, <4>2, <4>3, <4>4 DEF Follows, Doing, At
      <3>3. CASE disk[q] = 0
        <4>1. UNCHANGED <<seen, work>>
          BY <2>1, <3>3 DEF Visit
        <4>2. Rests(p)'
          BY <1>1, <1>4, <1>6, <2>0, <3>1, <3>3, <4>1 DEF Rests
        <4>. QED
          BY <1>2, <4>1, <4>2 DEF Follows, Doing, At
      <3>. QED
        BY <3>2, <3>3
    <2>2. CASE ReconcileRemoved(q)
      <3>1. /\ todo = {} /\ q \in DOMAIN byPath /\ q \notin seen
            /\ Begin(Scan, [pc |-> "delete", path |-> q, id |-> byPath[q]])
        BY <2>2 DEF ReconcileRemoved, Unseen
      <3>2. /\ work'[Scan] = [pc |-> "delete", path |-> q, id |-> byPath[q]]
            /\ \A w \in Workers \ {Scan} : work'[w] = work[w]
        BY <1>2, <3>1, Began
      <3>3. Present(p) /\ disk[p] = 0
        BY <1>1, <1>4, <1>6, <3>1 DEF Rests, Sane, Absent
      <3>4. work'[Scan].pc = "delete" /\ work'[Scan].id = byPath'[p] /\ disk'[p] = 0
        BY <1>1, <1>6, <3>2, <3>3
      <3>5. Fits(Scan, p)'
        BY <2>0, <3>3, <3>4 DEF Fits, Stamped
      <3>6. Busy(p)'
        BY <1>2, <1>6, <3>2 DEF Busy, Doing, At
      <3>. QED
        BY <1>2, <3>2, <3>5, <3>6 DEF Follows, Doing, At
    <2>. QED
      BY <2>1, <2>2
  <1>. QED
    BY <1>5, <1>6

LEMMA FireFollowing ==
    ASSUME Sorted, Following, NEW q \in Paths, NEW c \in Callbacks, Fire(q, c)
    PROVE  Following'
  <1>1. /\ q \in timers /\ timers' = timers \ {q} /\ At(c, "idle")
        /\ Begin(c, [pc |-> "stat", path |-> q])
        /\ excused' = IF \E d \in Callbacks : ~At(d, "idle") /\ work[d].path = q
                      THEN excused \union {q} ELSE excused
        /\ UNCHANGED <<disk, rows, byPath, byID, phase, todo, seen, events>>
    BY DEF Fire, files, table, maps, scan
  <1>2. /\ phase = "watch" /\ At(Scan, "idle") /\ DOMAIN work = Workers /\ c \in Workers
    BY <1>1, SortedIs DEF Phases, Workers
  <1>3. work'[c] = [pc |-> "stat", path |-> q] /\ \A v \in Workers \ {c} : work'[v] = work[v]
    BY <1>1, <1>2, Began
  <1>. SUFFICES ASSUME NEW p \in Paths, p \notin excused' PROVE Follows(p)'
    BY DEF Following
  <1>4. Follows(p) /\ SameAt(p)
    BY <1>1, <1>2, SameTables DEF Following
  <1>5. CASE p # q
    <2>1. \A w \in Workers : \/ work'[w] = work[w]
                             \/ ~(Doing(w) /\ work[w].path = p) /\ ~(Doing(w) /\ work[w].path = p)'
      BY <1>1, <1>3, <1>5 DEF Doing, At
    <2>2. Pending(p) => Pending(p)'
      BY <1>1, <1>5 DEF Pending
    <2>. QED
      BY <1>1, <1>4, <2>1, <2>2, FollowsKept
  <1>6. CASE p = q
    <2>1. ~Busy(p)
      BY <1>1, <1>2, <1>6 DEF Busy, Doing, Workers
    <2>2. Sane(p)'
      BY <1>1, <1>4, <2>1, SameMeans DEF Follows, Rests
    <2>3. Fits(c, p)'
      BY <1>3, <2>2 DEF Fits, Stamped
    <2>4. \A w \in Workers : Doing(w)' /\ work'[w].path = p => w = c
      BY <1>3, <2>1 DEF Busy, Doing, At
    <2>5. Busy(p)'
      BY <1>2, <1>3, <1>6 DEF Busy, Doing, At
    <2>. QED
      BY <2>3, <2>4, <2>5 DEF Follows
  <1>. QED
    BY <1>5, <1>6

LEMMA FollowingNext == ASSUME Sorted, Guarded, Honesty, Following, [Next]_vars PROVE Following'
  <1>1. Crash => Following'
    BY DEF Crash, Following
  <1>2. Callbacks \subseteq Workers
    BY DEF Workers
  <1>3. CASE UNCHANGED vars
    <2>1. \E S \in {Paths, Inside} : Unreadable(S) \/ UNCHANGED vars
      BY <1>3
    <2>. QED
      BY <2>1, QuietFollowing
  <1>4. CASE Next
    BY <1>1, <1>2, <1>4, LibraryCases, TurnFollowing, FilesFollowing, QuietFollowing, LoadFollowing,
       AddRecursiveFollowing, ScanFollowing, FireFollowing
  <1>. QED
    BY <1>3, <1>4

(* The inductive invariant of the library. *)
Follow == Sorted /\ Guarded /\ Honesty /\ Following

LEMMA AlwaysFollowing == Spec => []Follow
  <1>1. Init => Follow
    BY SortedInit, GuardedInit, HonestInit DEF Follow, Following, Init
  <1>2. Follow /\ [Next]_vars => Follow'
    BY SortedNext, GuardedNext, HonestNext, FollowingNext DEF Follow
  <1>. QED
    BY <1>1, <1>2, PTL DEF Spec

(* QuietIsFaithful of Library: once no event, timer or callback is left,   *)
(* memory and table hold exactly the files there are, each with its size,  *)
(* time and tags (or without tags, if it could not be read), whatever      *)
(* changed while who was reading.                                          *)
THEOREM AlwaysFaithful == Spec => []QuietIsFaithful
  <1>1. ASSUME Follow, Quiet, NEW p \in Paths \ excused
        PROVE  IF disk[p] = 0
               THEN p \notin DOMAIN byPath /\ ~Taken(p)
               ELSE /\ p \in DOMAIN byPath
                    /\ {id \in DOMAIN byID : byID[id].path = p} = {byPath[p]}
                    /\ byPath[p] \in DOMAIN rows
                    /\ \E tags \in TagsOf(p) :
                         {byID[byPath[p]], rows[byPath[p]]}
                             = {[path |-> p, stamp |-> disk[p], tags |-> tags]}
    <2>1. Follows(p) /\ ~Busy(p) /\ ~Pending(p) /\ phase = "watch" /\ Tabled
      BY <1>1, SortedIs DEF Follow, Following, Quiet, Busy, Doing, Pending
    <2>2. Current(p)
      BY <2>1 DEF Follows, Rests
    <2>3. CASE disk[p] = 0
      BY <2>2, <2>3 DEF Current, Absent, RowsOf, Taken
    <2>4. CASE disk[p] # 0
      <3>. DEFINE t == byID[byPath[p]]
      <3>1. /\ p \in DOMAIN byPath /\ RowsOf(p) = {byPath[p]} /\ KnownAs(p) = {byPath[p]}
            /\ rows[byPath[p]] = t /\ t.stamp = disk[p]
        BY <2>2, <2>4 DEF Current, Present
      <3>2. byPath[p] \in DOMAIN byID /\ t.path = p /\ byPath[p] \in DOMAIN rows
        BY <3>1 DEF RowsOf, KnownAs
      <3>3. t \in Track /\ Honest(t)
        BY <1>1, <2>1, <3>2 DEF Follow, Honesty, Tabled
      <3>4. t.tags \in TagsOf(p)
        BY <3>1, <3>2, <3>3 DEF Honest
      <3>. HIDE DEF t
      <3>5. t = [path |-> p, stamp |-> disk[p], tags |-> t.tags]
        BY <3>1, <3>2, <3>3, <3>4 DEF Track
      <3>. QED
        BY <2>4, <3>1, <3>2, <3>4, <3>5 DEF t, KnownAs
    <2>. QED
      BY <2>3, <2>4
  <1>2. Follow => QuietIsFaithful
    BY <1>1 DEF QuietIsFaithful
  <1>. QED
    BY <1>2, AlwaysFollowing, PTL
=============================================================================
