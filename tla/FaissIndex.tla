----------------------------- MODULE FaissIndex -----------------------------
(***************************************************************************)
(* One school's face index (the VectorIndex port, FAISS adapter): three    *)
(* files in an index store, rewritten whole by enrolments and erasures     *)
(* under a per-school write lock, read without the lock by the searches of *)
(* every worker process, each with a cache keyed by the version in the     *)
(* meta file.                                                              *)
(*                                                                         *)
(* Actors, interleaving at each file read or written and at each await:    *)
(*   - Writers: requests in FaissPerSchoolVectorIndex.upsert or delete;    *)
(*   - Readers: processes, each with one search and one cache entry.       *)
(* A face is one embedding: whose it is, which enrolment computed it and   *)
(* with which model. A search returns every row it is shown: top_k and the *)
(* scores are left out, so what it may not return is what matters here.    *)
(***************************************************************************)
EXTENDS Integers, Sequences, FiniteSets

CONSTANTS
  Students,
  Writers,         \* concurrent upsert and delete requests
  Readers,         \* processes that search
  HomeOf,          \* the readers that share a process with each writer
  MetaFirst,       \* TRUE: SupabaseIndexStore; FALSE: LocalFsIndexStore
  MaxPhotos,       \* bound: embeddings of one upsert
  MaxWrites,       \* bound: requests
  MaxFaults,       \* bound: saves that break off, unlogged losses of the lock
  MaxBlips,        \* bound: downloads that fail (_download answers None)
  MaxLeaseLosses,  \* bound: Redis lock leases outlived by their holder
  MaxUpgrades      \* bound: deployments with a new embedding model

NoOne == "no one"

ASSUME FaissAssumption ==
  /\ HomeOf \in [Writers -> SUBSET Readers]
  /\ MetaFirst \in BOOLEAN
  /\ {MaxPhotos, MaxWrites, MaxFaults, MaxBlips, MaxLeaseLosses, MaxUpgrades}
       \subseteq Nat
  /\ Writers \cap Readers = {} /\ NoOne \notin Writers

Unknown == -1        \* of a student whose last write broke off in its save

Faces == [of : Students, enrolment : 1..MaxWrites, model : 0..MaxUpgrades]
Metas == [version : 0..MaxWrites, model : 0..MaxUpgrades]   \* version 0: no file
Blobs == [index : Seq(Faces), idMap : Seq(Students), meta : Metas]

\* no files, and what a load that finds none answers
Absent == [index |-> <<>>, idMap |-> <<>>, meta |-> [version |-> 0, model |-> 0]]

Operations == [kind : {"upsert", "delete"}, student : Students,
               photos : 1..MaxPhotos, enrolment : 1..MaxWrites]
NoRequest  == [kind |-> "none"]

VARIABLES
  files,     \* the store's three files
  embedder,  \* the configured embedder_version
  lock,      \* holder of the school's write lock
  logged,    \* faiss_write_lock_lease_lost or _release_failed has been logged
  wpc, req,  \* each writer's place and request
  rpc,       \* each reader's place
  seen,      \* the version read_meta answered to each search
  cache,     \* each reader's cache entry (Absent: none)
  step,      \* files read or written so far in a load or a save, plus one
  buf,       \* what each load has read
  hits,      \* rows of the last answer: a face and the name it was given
  stable,    \* history: students no write has touched since a search began
  last,      \* history: enrolment of the last write that wrote its meta file
             \* or answered, 0 if a delete
  writes, faults, blips, losses, upgrades

writerVars == <<wpc, req>>
searchVars == <<rpc, seen, cache, hits>>
boundVars  == <<faults, blips, losses, upgrades>>
vars == <<files, embedder, lock, logged, writerVars, searchVars, step, buf,
          stable, last, writes, boundVars>>

-----------------------------------------------------------------------------
\* The arithmetic of a rewrite.

\* Row i of the index goes by the name at row i of the id map. A search with a
\* hit past the end of the id map fails; one without it answers.
Rows(blob) ==
  {[face |-> blob.index[i], name |-> blob.idMap[i]] :
     i \in 1..Len(blob.index) \cap 1..Len(blob.idMap)}

Mismatched(blob) == Len(blob.index) # Len(blob.idMap)

\* Mutant: one student has one row.
WithoutFirst(seq, names, s) ==
  LET named == {i \in 1..Len(names) : names[i] = s}
      first == CHOOSE i \in named : \A j \in named : i <= j
  IN  IF named = {} THEN seq
      ELSE [i \in 1..(Len(seq) - 1) |-> seq[IF i < first THEN i ELSE i + 1]]

\* The rows of seq whose name is not s, in their order.
Without(seq, names, s) ==
  LET kept == {i \in 1..Len(names) : names[i] # s}
      Row(j) == CHOOSE i \in kept : Cardinality(kept \cap 1..i) = j
  IN  [j \in 1..Cardinality(kept) |-> seq[Row(j)]]

\* Mutant: the version is bumped twice.
VersionAgain(w) == buf[w].meta.version + 2
\* Mutant: a delete keeps the version.
VersionOfUpserts(w) ==
  buf[w].meta.version + (IF req[w].kind = "upsert" THEN 1 ELSE 0)

\* _serialize: the version of the rewritten triple (0 stands for no meta file).
NextVersion(w) == buf[w].meta.version + 1

\* What _apply_upsert or _apply_delete makes of the loaded triple.
Rebuilt(w) ==
  LET r    == req[w]
      face == [of |-> r.student, enrolment |-> r.enrolment, model |-> embedder]
      n    == IF r.kind = "upsert" THEN r.photos ELSE 0
  IN  [index |-> Without(buf[w].index, buf[w].idMap, r.student)
                   \o [i \in 1..n |-> face],
       idMap |-> Without(buf[w].idMap, buf[w].idMap, r.student)
                   \o [i \in 1..n |-> r.student],
       meta  |-> [version |-> NextVersion(w), model |-> embedder]]

Listed(w) == \E i \in 1..Len(buf[w].idMap) : buf[w].idMap[i] = req[w].student

LoadOrder == IF MetaFirst THEN <<"meta", "index", "idMap">>
                          ELSE <<"index", "idMap", "meta">>
SaveOrder == <<"index", "idMap", "meta">>

Writing(w) == wpc[w] \in {"load", "save", "finish"}

\* Some of its files are written and some are not.
Torn(w) == wpc[w] = "save" /\ step[w] > 1

\* What the student's faces come from once all three are.
Outcome(w) == IF req[w].kind = "upsert" THEN req[w].enrolment ELSE 0

-----------------------------------------------------------------------------
Init ==
  /\ files = Absent /\ embedder = 0
  /\ lock = NoOne /\ logged = FALSE
  /\ wpc = [w \in Writers |-> "idle"]
  /\ req = [w \in Writers |-> NoRequest]
  /\ rpc = [r \in Readers |-> "idle"]
  /\ seen = [r \in Readers |-> 0]
  /\ cache = [r \in Readers |-> Absent]
  /\ step = [p \in Writers \cup Readers |-> 1]
  /\ buf = [p \in Writers \cup Readers |-> Absent]
  /\ hits = [r \in Readers |-> {}]
  /\ stable = [r \in Readers |-> {}]
  /\ last = [s \in Students |-> 0]
  /\ writes = 0 /\ faults = 0 /\ blips = 0 /\ losses = 0 /\ upgrades = 0

-----------------------------------------------------------------------------
\* IndexStore.load, one file at a time. A missing file, or in Supabase any
\* failed download, answers Absent for the whole triple.

Load(p) ==
  /\ step[p] <= 3
  /\ \/ /\ step[p] = 1 => files.meta.version > 0
        /\ LET file == LoadOrder[step[p]]
           IN  buf' = [buf EXCEPT ![p] = [@ EXCEPT ![file] = files[file]]]
        /\ step' = [step EXCEPT ![p] = @ + 1]
        /\ UNCHANGED blips
     \/ /\ step[p] = 1 /\ files.meta.version = 0
        /\ buf' = [buf EXCEPT ![p] = Absent] /\ step' = [step EXCEPT ![p] = 4]
        /\ UNCHANGED blips
     \/ /\ MetaFirst /\ blips < MaxBlips
        /\ buf' = [buf EXCEPT ![p] = Absent] /\ step' = [step EXCEPT ![p] = 4]
        /\ blips' = blips + 1

-----------------------------------------------------------------------------
\* A write: acquire the lock, load, rebuild, save, invalidate, release.

Request(w) ==
  /\ wpc[w] = "idle" /\ writes < MaxWrites
  /\ \E o \in Operations :
       /\ o.enrolment = writes + 1
       /\ o.kind = "delete" => o.photos = 1
       /\ req' = [req EXCEPT ![w] = o]
  /\ wpc' = [wpc EXCEPT ![w] = "wait"]
  /\ writes' = writes + 1
  /\ UNCHANGED <<files, embedder, lock, logged, searchVars, step, buf, stable,
                 last, boundVars>>

\* Mutant: the lock is taken without looking.
AcquireAnyway(w) ==
  /\ wpc[w] = "wait"
  /\ lock' = w
  /\ wpc' = [wpc EXCEPT ![w] = "load"]
  /\ stable' = [r \in Readers |-> stable[r] \ {req[w].student}]
  /\ UNCHANGED <<files, embedder, logged, req, searchVars, step, buf, last,
                 writes, boundVars>>

Acquire(w) ==
  /\ wpc[w] = "wait" /\ lock = NoOne
  /\ lock' = w
  /\ wpc' = [wpc EXCEPT ![w] = "load"]
  /\ stable' = [r \in Readers |-> stable[r] \ {req[w].student}]
  /\ UNCHANGED <<files, embedder, logged, req, searchVars, step, buf, last, writes,
                 boundVars>>

\* blocking_timeout passes, or Redis does not answer: the request fails before
\* it touches anything.
AcquireFails(w) ==
  /\ wpc[w] = "wait"
  /\ wpc' = [wpc EXCEPT ![w] = "idle"]
  /\ req' = [req EXCEPT ![w] = NoRequest]
  /\ UNCHANGED <<files, embedder, lock, logged, searchVars, step, buf,
                 stable, last, writes, boundVars>>

LoadFiles(w) ==
  /\ wpc[w] = "load"
  /\ Load(w)
  /\ UNCHANGED <<files, embedder, lock, logged, writerVars, searchVars, stable,
                 last, writes, faults, losses, upgrades>>

\* The request ends. The token-checked release leaves another's lock alone, and
\* a release that fails, or never comes, leaves its own until the lease ends.
Leave(w) ==
  /\ lock' \in {lock, IF lock = w THEN NoOne ELSE lock}
  /\ buf' = [buf EXCEPT ![w] = Absent] /\ step' = [step EXCEPT ![w] = 1]
  /\ wpc' = [wpc EXCEPT ![w] = "idle"]
  /\ req' = [req EXCEPT ![w] = NoRequest]

\* Mutant: the release swallows LockNotOwnedError with every other error.
ReleaseQuietly(w) == Leave(w) /\ UNCHANGED logged

\* __aexit__: the release answers and a lease that was lost is logged, or the
\* release fails (done or not) and that is logged, whosever the lock is by now.
Release(w) ==
  /\ Leave(w)
  /\ \/ lock' # w /\ logged' = (logged \/ lock # w)
     \/ logged' = TRUE

Rebuild(w) ==
  /\ wpc[w] = "load" /\ step[w] = 4
  /\ ~ Mismatched(buf[w])
  /\ req[w].kind = "upsert" \/ Listed(w)
  /\ wpc' = [wpc EXCEPT ![w] = "save"]
  /\ step' = [step EXCEPT ![w] = 1]
  /\ UNCHANGED <<files, embedder, lock, logged, req, searchVars, buf, stable,
                 last, writes, boundVars>>

\* "corrupt index": the request fails.
RefuseCorrupt(w) ==
  /\ wpc[w] = "load" /\ step[w] = 4 /\ Mismatched(buf[w])
  /\ Release(w)
  /\ UNCHANGED <<files, embedder, searchVars, stable, last, writes,
                 boundVars>>

\* Deleting a student the index does not name succeeds without a write.
NothingToDelete(w) ==
  /\ wpc[w] = "load" /\ step[w] = 4 /\ ~ Mismatched(buf[w])
  /\ req[w].kind = "delete" /\ ~ Listed(w)
  /\ last' = [last EXCEPT ![req[w].student] = 0]
  /\ Release(w)
  /\ UNCHANGED <<files, embedder, searchVars, stable, writes,
                 boundVars>>

\* IndexStore.save, one file at a time, meta last.
SaveFile(w) ==
  /\ wpc[w] = "save"
  /\ LET file == SaveOrder[step[w]]
     IN  files' = [files EXCEPT ![file] = Rebuilt(w)[file]]
  /\ IF step[w] = 3
       THEN wpc' = [wpc EXCEPT ![w] = "finish"] /\ UNCHANGED step
       ELSE step' = [step EXCEPT ![w] = @ + 1] /\ UNCHANGED wpc
  /\ UNCHANGED <<embedder, lock, logged, req, searchVars, buf, stable, last,
                 writes, boundVars>>

Finish(w) ==
  /\ wpc[w] = "finish"
  /\ cache' = [r \in Readers |-> IF r \in HomeOf[w] THEN Absent ELSE cache[r]]
  /\ last' = [last EXCEPT ![req[w].student] = Outcome(w)]
  /\ Release(w)
  /\ UNCHANGED <<files, embedder, rpc, seen, hits, stable, writes,
                 boundVars>>

\* An exception (a store that fails), or the death of the process, which logs
\* nothing: the files stay as they are.
GiveUp(w) ==
  /\ Writing(w)
  /\ \/ Release(w) /\ faults' = faults + (IF Torn(w) THEN 1 ELSE 0)
     \/ /\ Leave(w) /\ UNCHANGED logged
        /\ faults' = faults + (IF Torn(w) \/ lock # w THEN 1 ELSE 0)
  /\ faults' <= MaxFaults
  /\ last' = [last EXCEPT ![req[w].student] =
                IF wpc[w] = "finish" THEN Outcome(w)
                                     ELSE IF Torn(w) THEN Unknown ELSE @]
  /\ UNCHANGED <<files, embedder, searchVars, stable, writes, blips,
                 losses, upgrades>>

\* The Redis lock's timeout passes under a live holder.
LoseLease(w) ==
  /\ lock = w /\ Writing(w) /\ losses < MaxLeaseLosses
  /\ lock' = NoOne
  /\ losses' = losses + 1
  /\ UNCHANGED <<files, embedder, logged, writerVars, searchVars, step, buf,
                 stable, last, writes, faults, blips, upgrades>>

\* Mutant: the lock is taken without a timeout.
NeverLapse(w) == FALSE /\ UNCHANGED vars

\* The timeout of a lock that nobody released.
Lapse(w) ==
  /\ lock = w /\ ~ Writing(w)
  /\ lock' = NoOne
  /\ UNCHANGED <<files, embedder, logged, writerVars, searchVars, step, buf,
                 stable, last, writes, boundVars>>

-----------------------------------------------------------------------------
\* A search: read the meta file, look in the cache, load on a stale version.

BeginSearch(r) ==
  /\ rpc[r] = "idle"
  /\ hits' = [hits EXCEPT ![r] = {}]
  /\ stable' = [stable EXCEPT ![r] =
                  {s \in Students : \A w \in Writers :
                                      Writing(w) => req[w].student # s}]
  /\ \/ /\ files.meta.version > 0 /\ files.meta.model = embedder
        /\ seen' = [seen EXCEPT ![r] = files.meta.version]
        /\ rpc' = [rpc EXCEPT ![r] = "lookup"]
        /\ UNCHANGED blips
     \/ \* no index yet, or EmbeddingVersionMismatch
        /\ files.meta.version = 0 \/ files.meta.model # embedder
        /\ UNCHANGED <<seen, rpc, blips>>
     \/ /\ MetaFirst /\ blips < MaxBlips
        /\ blips' = blips + 1
        /\ UNCHANGED <<seen, rpc>>
  /\ UNCHANGED <<files, embedder, lock, logged, writerVars, cache, step, buf,
                 last, writes, faults, losses, upgrades>>

\* Mutant: a cache hit is served whatever its version.
LookUpAnyVersion(r) ==
  /\ rpc[r] = "lookup"
  /\ IF cache[r].meta.version > 0
       THEN /\ hits' = [hits EXCEPT ![r] = Rows(cache[r])]
            /\ rpc' = [rpc EXCEPT ![r] = "idle"]
       ELSE /\ rpc' = [rpc EXCEPT ![r] = "load"]
            /\ UNCHANGED hits
  /\ seen' = [seen EXCEPT ![r] = 0]
  /\ UNCHANGED <<files, embedder, lock, logged, writerVars, cache, step, buf,
                 stable, last, writes, boundVars>>

LookUp(r) ==
  /\ rpc[r] = "lookup"
  /\ IF cache[r].meta.version = seen[r]
       THEN /\ hits' = [hits EXCEPT ![r] = Rows(cache[r])]
            /\ rpc' = [rpc EXCEPT ![r] = "idle"]
       ELSE /\ rpc' = [rpc EXCEPT ![r] = "load"]
            /\ UNCHANGED hits
  /\ seen' = [seen EXCEPT ![r] = 0]
  /\ UNCHANGED <<files, embedder, lock, logged, writerVars, cache, step, buf,
                 stable, last, writes, boundVars>>

Reload(r) ==
  /\ rpc[r] = "load"
  /\ Load(r)
  /\ UNCHANGED <<files, embedder, lock, logged, writerVars, searchVars, stable,
                 last, writes, faults, losses, upgrades>>

\* Cache what was loaded and search it; nothing if it is absent or stale.
Answer(r) ==
  /\ rpc[r] = "load" /\ step[r] = 4
  /\ IF buf[r].meta.version > 0 /\ buf[r].meta.model = embedder
       THEN /\ cache' = [cache EXCEPT ![r] = buf[r]]
            /\ hits' = [hits EXCEPT ![r] = Rows(buf[r])]
       ELSE UNCHANGED <<cache, hits>>
  /\ rpc' = [rpc EXCEPT ![r] = "idle"]
  /\ buf' = [buf EXCEPT ![r] = Absent] /\ step' = [step EXCEPT ![r] = 1]
  /\ UNCHANGED <<files, embedder, lock, logged, writerVars, seen, stable,
                 last, writes, boundVars>>

\* The cache drops its least recently used school, or its process restarts.
Evict(r) ==
  /\ cache[r] # Absent
  /\ cache' = [cache EXCEPT ![r] = Absent]
  /\ UNCHANGED <<files, embedder, lock, logged, writerVars, rpc, seen, hits,
                 step, buf, stable, last, writes, boundVars>>

\* A deployment with a new embedder: every process restarts.
Upgrade ==
  /\ upgrades < MaxUpgrades
  /\ \A w \in Writers : wpc[w] = "idle"
  /\ \A r \in Readers : rpc[r] = "idle"
  /\ embedder' = embedder + 1
  /\ upgrades' = upgrades + 1
  /\ cache' = [r \in Readers |-> Absent]
  /\ hits' = [r \in Readers |-> {}]
  /\ UNCHANGED <<files, lock, logged, writerVars, rpc, seen, step, buf, stable,
                 last, writes, faults, blips, losses>>

Write(w) ==
  \/ Acquire(w) \/ LoadFiles(w) \/ Rebuild(w) \/ RefuseCorrupt(w)
  \/ NothingToDelete(w) \/ SaveFile(w) \/ Finish(w)

Search(r) == LookUp(r) \/ Reload(r) \/ Answer(r)

Next ==
  \/ \E w \in Writers : Request(w) \/ Write(w) \/ AcquireFails(w)
                          \/ GiveUp(w) \/ LoseLease(w) \/ Lapse(w)
  \/ \E r \in Readers : BeginSearch(r) \/ Search(r) \/ Evict(r)
  \/ Upgrade

Spec == Init /\ [][Next]_vars

\* A live process goes on with its request (the lock queues its waiters), the
\* bounded requests themselves need not come. Redis ends a lease by its clock.
Fairness ==
  \A w \in Writers :
    SF_vars(Acquire(w)) /\ WF_vars(Write(w)) /\ WF_vars(Lapse(w))

FairSpec == Spec /\ Fairness

-----------------------------------------------------------------------------
\* Properties.

\* The type of every variable.
TypeOK ==
  /\ files \in Blobs /\ embedder \in 0..MaxUpgrades
  /\ lock \in Writers \cup {NoOne} /\ logged \in BOOLEAN
  /\ wpc \in [Writers -> {"idle", "wait", "load", "save", "finish"}]
  /\ req \in [Writers -> Operations \cup {NoRequest}]
  /\ rpc \in [Readers -> {"idle", "lookup", "load"}]
  /\ seen \in [Readers -> 0..MaxWrites]
  /\ cache \in [Readers -> Blobs]
  /\ step \in [Writers \cup Readers -> 1..4]
  /\ buf \in [Writers \cup Readers -> Blobs]
  /\ hits \in [Readers -> SUBSET [face : Faces, name : Students]]
  /\ stable \in [Readers -> SUBSET Students]
  /\ last \in [Students -> -1..MaxWrites]
  /\ writes \in 0..MaxWrites /\ faults \in 0..MaxFaults
  /\ blips \in 0..MaxBlips /\ losses \in 0..MaxLeaseLosses
  /\ upgrades \in 0..MaxUpgrades

\* Nothing of the index's rows is right unless this is: the roster the files
\* (or, while they are half rewritten, the triple they are rewritten from)
\* stand for. -1: a name with another's face, or with faces of two enrolments.
EnrolmentIn(blob, s) ==
  LET own == {row.face : row \in {q \in Rows(blob) : q.name = s}}
  IN  CASE own = {} -> 0
        [] own # {} /\ \E e \in 1..MaxWrites :
                          \A f \in own : f.of = s /\ f.enrolment = e
           -> (CHOOSE f \in own : TRUE).enrolment
        [] OTHER -> -1

Rewriting == {w \in Writers : Torn(w)}

Committed == IF Rewriting = {} THEN files
             ELSE buf[CHOOSE w \in Rewriting : TRUE]

\* Every write takes effect at once, when the meta file is written, on one
\* student only (FR-E3, "atomically replaces"), whatever the interleaving of
\* several replicas: the files implement the roster.
Roster == INSTANCE FaceRoster
            WITH roster <- [s \in Students |-> EnrolmentIn(Committed, s)],
                 Enrolments <- 1..MaxWrites
ImplementsRoster == Roster!Spec

\* A search that no write overlaps answers exactly the faces of the last
\* finished writes, each under its own name: no cache entry filled during an
\* earlier write outlives it (the read path re-checks meta.version).
QuietSearchesAreExact ==
  \A r \in Readers :
    rpc[r] = "idle" /\ stable[r] = Students
      => /\ \A h \in hits[r] : h.face.of = h.name
                               /\ h.face.enrolment = last[h.name]
         /\ \A s \in Students : last[s] # 0 => \E h \in hits[r] : h.name = s

\* Once a delete has answered, no later search names the student (until an
\* upsert of that student begins), even one that overlaps the writes of other
\* students or finds what a dead request left half written.
ErasedStayErased ==
  \A r \in Readers, s \in Students :
    s \in stable[r] /\ last[s] = 0 => \A h \in hits[r] : h.name # s

\* Once a delete has written its files, the student's embeddings are out of the
\* index file itself, until the student is enrolled again, whatever requests
\* fail or die before or after their saves (one that breaks off between two
\* files may leave a face under another name, which no delete finds).
ErasedFacesAreGone ==
  \A s \in Students :
    /\ faults = 0 /\ last[s] = 0
    /\ \A w \in Writers : Writing(w) => req[w].student # s
    => \A i \in 1..Len(files.index) : files.index[i].of # s

\* A finished write is lost only to an outlived lease, and then the lock's
\* provider has logged (faiss_write_lock_lease_lost, or a release that failed,
\* which hides the former) before the index is at rest; saves broken off,
\* processes that die without their lease and failed downloads apart.
LostWritesAreLogged ==
  /\ \A w \in Writers : ~ Writing(w)
  /\ ~ logged /\ faults = 0 /\ blips = 0
  => \A s \in Students : last[s] = EnrolmentIn(files, s)

\* The version in the meta file, the key of every cache, never goes back.
VersionsOnlyGrow == [][files'.meta.version >= files.meta.version]_vars

\* Every request gets an answer: no failure of another leaves the lock taken.
RequestsEnd == \A w \in Writers : wpc[w] = "wait" ~> wpc[w] = "idle"

=============================================================================
