-------------------------- MODULE FaissIndexProofs --------------------------
(***************************************************************************)
(* Theorems about FaissIndex: every variable keeps its type; the write     *)
(* lock excludes other writers unless a lease is lost, and then the        *)
(* version in the meta file, by which every cache decides whether it is    *)
(* current, never goes back.                                               *)
(***************************************************************************)
EXTENDS FaissIndex, FiniteSetTheorems, NaturalsInduction, WellFoundedInduction, TLAPS

FileNames == {"index", "idMap", "meta"}

\* A triple of files, of which only the version matters here.
Versioned(blob) ==
  /\ blob = [f \in FileNames |-> blob[f]]
  /\ blob["meta"].version \in Nat

\* Which writers have read the meta file: they load it first in Supabase, last
\* on a local file system.
HasMeta(w) ==
  \/ wpc[w] = "load" /\ step[w] = 4
  \/ wpc[w] = "load" /\ MetaFirst /\ step[w] > 1
  \/ wpc[w] = "save"

Shapes ==
  /\ Versioned(files)
  /\ \A p \in Writers \cup Readers : step[p] \in 1..4
  /\ buf = [p \in Writers \cup Readers |-> buf[p]]
  /\ step = [p \in Writers \cup Readers |-> step[p]]
  /\ wpc = [w \in Writers |-> wpc[w]]
  /\ \A p \in Writers \cup Readers : Versioned(buf[p])
  /\ \A w \in Writers : wpc[w] = "save" => step[w] \in 1..3
  /\ \A w \in Writers : wpc[w] \in {"idle", "wait"} => step[w] = 1

NoSlips == blips \in Nat /\ losses \in Nat

\* Whoever is between acquire and release holds the lock.
WritersHoldLock == \A w \in Writers : Writing(w) => lock = w

\* What a writer has read is what it is about to replace.
RewritesNewest ==
  \A w \in Writers : HasMeta(w) => buf[w]["meta"].version >= files["meta"].version

WriteInv == Shapes /\ NoSlips /\ WritersHoldLock /\ RewritesNewest

-----------------------------------------------------------------------------
\* The invariant holds at the start: no file, no writer.
LEMMA WriteInit == Init => WriteInv
  BY FaissAssumption DEF Init, WriteInv, Shapes, Versioned, NoSlips, FileNames, Absent,
     WritersHoldLock, RewritesNewest, Writing, HasMeta

\* The two ways a load goes on when no download fails: one more file read, or
\* nothing there to read.
ReadsOne(p) ==
  /\ step[p] <= 3
  /\ buf' = [buf EXCEPT ![p] = [@ EXCEPT ![LoadOrder[step[p]]]
                                           = files[LoadOrder[step[p]]]]]
  /\ step' = [step EXCEPT ![p] = @ + 1]

FindsNothing(p) ==
  /\ step[p] = 1 /\ files["meta"].version = 0
  /\ buf' = [buf EXCEPT ![p] = Absent]
  /\ step' = [step EXCEPT ![p] = 4]

LEMMA LoadCases ==
  ASSUME NoSlips, MaxBlips = 0, NEW p, Load(p)
  PROVE  UNCHANGED blips /\ (ReadsOne(p) \/ FindsNothing(p))
  BY DEF NoSlips, Load, ReadsOne, FindsNothing

\* A load keeps the shapes, and when it leaves its reader with the meta file
\* that is the one read before or the one in the store.
LEMMA LoadKeeps ==
  ASSUME Shapes, NEW p \in Writers \cup Readers,
         ReadsOne(p) \/ FindsNothing(p), UNCHANGED <<files, wpc>>
  PROVE  /\ \A q \in Writers \cup Readers : step'[q] \in 1..4 /\ Versioned(buf'[q])
         /\ \A q \in Writers \cup Readers :
              q # p => buf'[q] = buf[q] /\ step'[q] = step[q]
         /\ step'[p] = 4 \/ (MetaFirst /\ step'[p] > 1)
              => \/ MetaFirst /\ step[p] > 1 /\ buf'[p]["meta"] = buf[p]["meta"]
                 \/ buf'[p]["meta"].version = files["meta"].version
         /\ buf' = [q \in Writers \cup Readers |-> buf'[q]]
         /\ step' = [q \in Writers \cup Readers |-> step'[q]]
<1>1. /\ \A q \in Writers \cup Readers : q # p => buf'[q] = buf[q] /\ step'[q] = step[q]
      /\ buf' = [q \in Writers \cup Readers |-> buf'[q]]
      /\ step' = [q \in Writers \cup Readers |-> step'[q]]
  BY DEF Shapes, ReadsOne, FindsNothing
<1>2. CASE FindsNothing(p)
  <2>1. buf'[p] = Absent /\ step'[p] = 4
    BY <1>2 DEF FindsNothing, Shapes
  <2>2. Versioned(Absent) /\ Absent["meta"].version = 0
    BY DEF Absent, Versioned, FileNames
  <2>3. files["meta"].version = 0
    BY <1>2 DEF FindsNothing
  <2>4. \A q \in Writers \cup Readers : step'[q] \in 1..4 /\ Versioned(buf'[q])
    <3> TAKE q \in Writers \cup Readers
    <3>1. CASE q = p
      BY <3>1, <2>1, <2>2
    <3>2. CASE q # p
      BY <3>2, <1>1 DEF Shapes
    <3> QED
      BY <3>1, <3>2
  <2> QED
    BY <1>1, <2>1, <2>2, <2>3, <2>4
<1>3. CASE ReadsOne(p)
  <2> DEFINE file == LoadOrder[step[p]]
  <2>1. step[p] \in 1..3 /\ step'[p] = step[p] + 1
    BY <1>3 DEF ReadsOne, Shapes
  <2>2. /\ file \in FileNames
        /\ MetaFirst /\ step[p] > 1 => file # "meta"
        /\ MetaFirst /\ step[p] = 1 => file = "meta"
        /\ ~ MetaFirst /\ step[p] = 3 => file = "meta"
    BY <2>1 DEF LoadOrder, FileNames
  <2> HIDE DEF file
  <2>3. buf'[p] = [buf[p] EXCEPT ![file] = files[file]]
    BY <1>3 DEF ReadsOne, Shapes, file
  <2>4. /\ buf'[p] = [f \in FileNames |-> buf'[p][f]]
        /\ file = "meta" => buf'[p]["meta"] = files["meta"]
        /\ file # "meta" => buf'[p]["meta"] = buf[p]["meta"]
    <3>1. buf[p] = [f \in FileNames |-> buf[p][f]]
      BY DEF Shapes, Versioned
    <3> QED
      BY <2>2, <2>3, <3>1 DEF FileNames
  <2>5. Versioned(buf'[p])
    BY <2>4 DEF Versioned, Shapes
  <2>6. \A q \in Writers \cup Readers : step'[q] \in 1..4 /\ Versioned(buf'[q])
    <3> TAKE q \in Writers \cup Readers
    <3>1. CASE q = p
      BY <3>1, <2>1, <2>5
    <3>2. CASE q # p
      BY <3>2, <1>1 DEF Shapes
    <3> QED
      BY <3>1, <3>2
  <2>7. CASE file = "meta"
    BY <1>1, <2>4, <2>6, <2>7
  <2>8. CASE file # "meta"
    <3>1. MetaFirst => step[p] > 1
      BY <2>1, <2>2, <2>8
    <3>3. ~ MetaFirst => step[p] # 3
      BY <2>1, <2>2, <2>8
    <3>2. buf'[p]["meta"] = buf[p]["meta"]
      BY <2>4, <2>8
    <3> QED
      BY <1>1, <2>1, <2>6, <3>1, <3>2, <3>3
  <2> QED
    BY <2>7, <2>8
<1> QED
  BY <1>2, <1>3

-----------------------------------------------------------------------------
\* Steps that leave the store, the writers' places and what they read alone.
LEMMA WriteFrame ==
  ASSUME WriteInv, UNCHANGED <<files, step, buf, wpc, lock>>, NoSlips'
  PROVE  WriteInv'
  BY DEF WriteInv, Shapes, WritersHoldLock, RewritesNewest, Writing, HasMeta

\* A writer that leaves frees the lock only if it is its own.
LEMMA LeaveKeeps ==
  ASSUME WriteInv, NEW w \in Writers, Leave(w), UNCHANGED files, NoSlips'
  PROVE  WriteInv'
<1>1. /\ wpc'[w] = "idle" /\ wpc' = [v \in Writers |-> wpc'[v]]
      /\ \A v \in Writers : v # w => wpc'[v] = wpc[v]
      /\ buf' = [p \in Writers \cup Readers |-> buf'[p]]
      /\ step' = [p \in Writers \cup Readers |-> step'[p]]
      /\ buf'[w] = Absent /\ step'[w] = 1
      /\ \A p \in Writers \cup Readers : p # w => buf'[p] = buf[p] /\ step'[p] = step[p]
  BY DEF Leave, WriteInv, Shapes
<1>2. Shapes'
  <2>1. Versioned(Absent)
    BY DEF Absent, Versioned, FileNames
  <2>2. \A p \in Writers \cup Readers : step'[p] \in 1..4 /\ Versioned(buf'[p])
    <3> TAKE p \in Writers \cup Readers
    <3>1. CASE p = w
      BY <3>1, <1>1, <2>1
    <3>2. CASE p # w
      BY <3>2, <1>1 DEF WriteInv, Shapes
    <3> QED
      BY <3>1, <3>2
  <2>3. Versioned(files)'
    BY DEF WriteInv, Shapes, Versioned
  <2>4. \A v \in Writers : /\ wpc'[v] = "save" => step'[v] \in 1..3
                           /\ wpc'[v] \in {"idle", "wait"} => step'[v] = 1
    BY <1>1 DEF WriteInv, Shapes
  <2> QED
    BY <1>1, <2>2, <2>3, <2>4 DEF Shapes, Versioned
<1>3. WritersHoldLock'
  BY <1>1 DEF WriteInv, WritersHoldLock, Writing, Leave
<1>4. RewritesNewest'
  BY <1>1 DEF WriteInv, RewritesNewest, HasMeta
<1> QED
  BY <1>2, <1>3, <1>4 DEF WriteInv

\* Every step keeps the invariant when no lease is lost and no download fails.
LEMMA WriteStep ==
  ASSUME MaxBlips = 0, MaxLeaseLosses = 0, WriteInv, [Next]_vars
  PROVE  WriteInv'
<1> USE DEF writerVars, searchVars, boundVars
<1>1. ASSUME NEW w \in Writers, Request(w) PROVE WriteInv'
  <2>1. wpc[w] = "idle" /\ wpc'[w] = "wait" /\ wpc' = [v \in Writers |-> wpc'[v]]
        /\ \A v \in Writers : v # w => wpc'[v] = wpc[v]
    BY <1>1 DEF Request, WriteInv, Shapes
  <2>2. UNCHANGED <<files, step, buf, lock, blips, losses>>
    BY <1>1 DEF Request
  <2>3. Shapes' /\ NoSlips'
    BY <2>1, <2>2 DEF WriteInv, Shapes, NoSlips
  <2> QED
    BY <2>1, <2>2, <2>3 DEF WriteInv, WritersHoldLock, RewritesNewest, Writing, HasMeta
<1>2. ASSUME NEW w \in Writers, Acquire(w) PROVE WriteInv'
  <2>1. wpc'[w] = "load" /\ wpc' = [v \in Writers |-> wpc'[v]]
        /\ \A v \in Writers : v # w => wpc'[v] = wpc[v]
    BY <1>2 DEF Acquire, WriteInv, Shapes
  <2>2. UNCHANGED <<files, step, buf, blips, losses>> /\ lock = NoOne /\ lock' = w
    BY <1>2 DEF Acquire
  <2>3. Shapes' /\ NoSlips'
    BY <2>1, <2>2 DEF WriteInv, Shapes, NoSlips
  <2>4. \A v \in Writers : ~ Writing(v)
    BY <2>2, FaissAssumption DEF WriteInv, WritersHoldLock
  <2>5. WritersHoldLock'
    BY <2>1, <2>2, <2>4 DEF WritersHoldLock, Writing
  <2>6. step'[w] = 1
    BY <1>2, <2>2 DEF Acquire, WriteInv, Shapes
  <2> QED
    BY <2>1, <2>2, <2>3, <2>5, <2>6 DEF WriteInv, RewritesNewest, HasMeta
<1>3. ASSUME NEW w \in Writers, AcquireFails(w) PROVE WriteInv'
  <2>1. wpc'[w] = "idle" /\ wpc' = [v \in Writers |-> wpc'[v]]
        /\ \A v \in Writers : v # w => wpc'[v] = wpc[v]
    BY <1>3 DEF AcquireFails, WriteInv, Shapes
  <2>2. UNCHANGED <<files, step, buf, lock, blips, losses>> /\ wpc[w] = "wait"
    BY <1>3 DEF AcquireFails
  <2>3. Shapes' /\ NoSlips'
    BY <2>1, <2>2 DEF WriteInv, Shapes, NoSlips
  <2> QED
    BY <2>1, <2>2, <2>3 DEF WriteInv, WritersHoldLock, RewritesNewest, Writing, HasMeta
<1>4. ASSUME NEW w \in Writers, LoadFiles(w) PROVE WriteInv'
  <2>1. /\ UNCHANGED <<files, wpc, lock, losses>> /\ wpc[w] = "load"
        /\ UNCHANGED blips /\ (ReadsOne(w) \/ FindsNothing(w))
    BY <1>4, LoadCases DEF LoadFiles, WriteInv
  <2>2. /\ \A q \in Writers \cup Readers : step'[q] \in 1..4 /\ Versioned(buf'[q])
        /\ \A q \in Writers \cup Readers :
             q # w => buf'[q] = buf[q] /\ step'[q] = step[q]
        /\ step'[w] = 4 \/ (MetaFirst /\ step'[w] > 1)
             => \/ MetaFirst /\ step[w] > 1 /\ buf'[w]["meta"] = buf[w]["meta"]
                \/ buf'[w]["meta"].version = files["meta"].version
        /\ buf' = [q \in Writers \cup Readers |-> buf'[q]]
        /\ step' = [q \in Writers \cup Readers |-> step'[q]]
    BY <2>1, LoadKeeps DEF WriteInv
  <2>3. Shapes' /\ NoSlips' /\ WritersHoldLock'
    BY <2>1, <2>2 DEF WriteInv, Shapes, NoSlips, WritersHoldLock, Writing
  <2>4. ASSUME NEW v \in Writers, HasMeta(v)'
        PROVE  buf'[v]["meta"].version >= files'["meta"].version
    <3>1. CASE v # w
      BY <3>1, <2>1, <2>2, <2>4 DEF WriteInv, RewritesNewest, HasMeta
    <3>2. CASE v = w /\ buf'[w]["meta"].version = files["meta"].version
      BY <3>2, <2>1 DEF WriteInv, Shapes, Versioned
    <3>3. CASE v = w /\ MetaFirst /\ step[w] > 1 /\ buf'[w]["meta"] = buf[w]["meta"]
      BY <3>3, <2>1 DEF WriteInv, RewritesNewest, HasMeta
    <3> QED
      BY <3>1, <3>2, <3>3, <2>1, <2>2, <2>4 DEF HasMeta
  <2> QED
    BY <2>3, <2>4 DEF WriteInv, RewritesNewest
<1>5. ASSUME NEW w \in Writers, Rebuild(w) PROVE WriteInv'
  <2>1. /\ wpc[w] = "load" /\ step[w] = 4
        /\ wpc'[w] = "save" /\ wpc' = [v \in Writers |-> wpc'[v]]
        /\ \A v \in Writers : v # w => wpc'[v] = wpc[v]
        /\ step'[w] = 1 /\ step' = [q \in Writers \cup Readers |-> step'[q]]
        /\ \A q \in Writers \cup Readers : q # w => step'[q] = step[q]
    BY <1>5 DEF Rebuild, WriteInv, Shapes
  <2>2. UNCHANGED <<files, buf, lock, blips, losses>>
    BY <1>5 DEF Rebuild
  <2>3. Shapes' /\ NoSlips' /\ WritersHoldLock'
    BY <2>1, <2>2 DEF WriteInv, Shapes, NoSlips, WritersHoldLock, Writing
  <2>4. HasMeta(w)
    BY <2>1 DEF HasMeta
  <2> QED
    BY <2>1, <2>2, <2>3, <2>4 DEF WriteInv, RewritesNewest, HasMeta
<1>6. ASSUME NEW w \in Writers,
             RefuseCorrupt(w) \/ NothingToDelete(w) \/ Finish(w) \/ GiveUp(w)
      PROVE  WriteInv'
  <2>1. Leave(w) /\ UNCHANGED <<files, blips, losses>>
    BY <1>6 DEF RefuseCorrupt, NothingToDelete, Finish, GiveUp, Release
  <2> QED
    BY <2>1, LeaveKeeps DEF WriteInv, NoSlips
<1>7. ASSUME NEW w \in Writers, SaveFile(w) PROVE WriteInv'
  <2> DEFINE file == SaveOrder[step[w]]
  <2>1. /\ wpc[w] = "save" /\ step[w] \in 1..3
        /\ UNCHANGED <<lock, buf, blips, losses>>
        /\ file \in FileNames /\ (file = "meta" <=> step[w] = 3)
    BY <1>7 DEF SaveFile, WriteInv, Shapes, SaveOrder, FileNames
  <2>2. /\ step[w] = 3 => wpc'[w] = "finish" /\ step' = step
        /\ step[w] # 3 => wpc' = wpc /\ step'[w] = step[w] + 1
        /\ wpc' = [v \in Writers |-> wpc'[v]]
        /\ step' = [q \in Writers \cup Readers |-> step'[q]]
        /\ \A v \in Writers : v # w => wpc'[v] = wpc[v]
        /\ \A q \in Writers \cup Readers : q # w => step'[q] = step[q]
    BY <1>7 DEF SaveFile, WriteInv, Shapes
  <2>3. Rebuilt(w)["meta"].version = buf[w]["meta"].version + 1
    BY DEF Rebuilt, NextVersion
  <2> HIDE DEF file
  <2>4. files' = [files EXCEPT ![file] = Rebuilt(w)[file]]
    BY <1>7 DEF SaveFile, file
  <2>5. files = [f \in FileNames |-> files[f]]
    BY DEF WriteInv, Shapes, Versioned
  <2>6. /\ files' = [f \in FileNames |-> files'[f]]
        /\ file = "meta" => files'["meta"] = Rebuilt(w)["meta"]
        /\ file # "meta" => files'["meta"] = files["meta"]
    BY <2>1, <2>4, <2>5 DEF FileNames
  <2>7. buf[w]["meta"].version \in Nat /\ files["meta"].version \in Nat
    BY DEF WriteInv, Shapes, Versioned
  <2>8. files'["meta"].version \in Nat
    BY <2>3, <2>6, <2>7
  <2>9. Shapes' /\ NoSlips'
    <3>1. Versioned(files)' /\ NoSlips'
      BY <2>1, <2>6, <2>8 DEF WriteInv, NoSlips, Versioned
    <3>2. \A p \in Writers \cup Readers : step'[p] \in 1..4
      BY <2>1, <2>2 DEF WriteInv, Shapes
    <3>3. \A v \in Writers : wpc'[v] = "save" => step'[v] \in 1..3
      BY <2>1, <2>2 DEF WriteInv, Shapes
    <3>4. \A v \in Writers : wpc'[v] \in {"idle", "wait"} => step'[v] = 1
      BY <2>1, <2>2 DEF WriteInv, Shapes
    <3> QED
      BY <2>1, <2>2, <3>1, <3>2, <3>3, <3>4 DEF WriteInv, Shapes
  <2>10. WritersHoldLock'
    BY <2>1, <2>2 DEF WriteInv, WritersHoldLock, Writing
  <2>11. lock = w
    BY <2>1 DEF WriteInv, WritersHoldLock, Writing
  <2>12. \A v \in Writers : v # w => ~ HasMeta(v)'
    BY <2>2, <2>11 DEF WriteInv, WritersHoldLock, Writing, HasMeta
  <2>13. HasMeta(w)' => file # "meta"
    BY <2>1, <2>2 DEF HasMeta
  <2>14. buf[w]["meta"].version >= files["meta"].version
    BY <2>1 DEF WriteInv, RewritesNewest, HasMeta
  <2> QED
    BY <2>1, <2>6, <2>9, <2>10, <2>12, <2>13, <2>14 DEF WriteInv, RewritesNewest
<1>8. ASSUME NEW w \in Writers, LoseLease(w) PROVE WriteInv'
  BY <1>8 DEF LoseLease, WriteInv, NoSlips
<1>13. ASSUME NEW w \in Writers, Lapse(w) PROVE WriteInv'
  <2>1. UNCHANGED <<files, step, buf, wpc, blips, losses>> /\ lock = w /\ ~ Writing(w)
    BY <1>13 DEF Lapse
  <2>2. \A v \in Writers : ~ Writing(v)
    BY <2>1 DEF WriteInv, WritersHoldLock
  <2> QED
    BY <2>1, <2>2 DEF WriteInv, NoSlips, Shapes, WritersHoldLock, RewritesNewest, Writing, HasMeta
<1>9. ASSUME NEW r \in Readers, Reload(r) PROVE WriteInv'
  <2>1. /\ UNCHANGED <<files, wpc, lock, losses>>
        /\ UNCHANGED blips /\ (ReadsOne(r) \/ FindsNothing(r))
    BY <1>9, LoadCases DEF Reload, WriteInv
  <2>2. /\ \A q \in Writers \cup Readers : step'[q] \in 1..4 /\ Versioned(buf'[q])
        /\ \A q \in Writers : buf'[q] = buf[q] /\ step'[q] = step[q]
        /\ buf' = [q \in Writers \cup Readers |-> buf'[q]]
        /\ step' = [q \in Writers \cup Readers |-> step'[q]]
    <3>1. \A q \in Writers : q # r
      BY FaissAssumption
    <3>2. /\ \A q \in Writers \cup Readers : step'[q] \in 1..4 /\ Versioned(buf'[q])
          /\ \A q \in Writers \cup Readers :
               q # r => buf'[q] = buf[q] /\ step'[q] = step[q]
          /\ buf' = [q \in Writers \cup Readers |-> buf'[q]]
          /\ step' = [q \in Writers \cup Readers |-> step'[q]]
      BY <2>1, LoadKeeps DEF WriteInv
    <3> QED
      BY <3>1, <3>2
  <2> QED
    BY <2>1, <2>2 DEF WriteInv, Shapes, NoSlips, WritersHoldLock, Writing,
                      RewritesNewest, HasMeta
<1>10. ASSUME NEW r \in Readers, Answer(r) PROVE WriteInv'
  <2>1. /\ UNCHANGED <<files, wpc, lock, losses, blips>>
        /\ buf' = [buf EXCEPT ![r] = Absent] /\ step' = [step EXCEPT ![r] = 1]
    BY <1>10 DEF Answer
  <2>2. Versioned(Absent)
    BY DEF Absent, Versioned, FileNames
  <2>3. /\ \A q \in Writers \cup Readers : step'[q] \in 1..4 /\ Versioned(buf'[q])
        /\ \A q \in Writers : buf'[q] = buf[q] /\ step'[q] = step[q]
        /\ buf' = [q \in Writers \cup Readers |-> buf'[q]]
        /\ step' = [q \in Writers \cup Readers |-> step'[q]]
    <3>1. \A q \in Writers : q # r
      BY FaissAssumption
    <3>2. /\ buf'[r] = Absent /\ step'[r] = 1
          /\ \A q \in Writers \cup Readers :
               q # r => buf'[q] = buf[q] /\ step'[q] = step[q]
          /\ buf' = [q \in Writers \cup Readers |-> buf'[q]]
          /\ step' = [q \in Writers \cup Readers |-> step'[q]]
      BY <2>1 DEF WriteInv, Shapes
    <3>3. \A q \in Writers \cup Readers : step'[q] \in 1..4 /\ Versioned(buf'[q])
      <4> TAKE q \in Writers \cup Readers
      <4>1. CASE q = r
        BY <4>1, <2>2, <3>2
      <4>2. CASE q # r
        BY <4>2, <3>2 DEF WriteInv, Shapes
      <4> QED
        BY <4>1, <4>2
    <3> QED
      BY <3>1, <3>2, <3>3
  <2> QED
    BY <2>1, <2>3 DEF WriteInv, Shapes, NoSlips, WritersHoldLock, Writing,
                      RewritesNewest, HasMeta
<1>11. ASSUME NEW r \in Readers, BeginSearch(r) \/ LookUp(r) \/ Evict(r)
       PROVE  WriteInv'
  BY <1>11, WriteFrame DEF BeginSearch, LookUp, Evict, WriteInv, NoSlips
<1>12. CASE Upgrade \/ UNCHANGED vars
  BY <1>12, WriteFrame DEF Upgrade, vars, WriteInv, NoSlips
<1> QED
  BY <1>1, <1>2, <1>3, <1>4, <1>5, <1>6, <1>7, <1>8, <1>9, <1>10, <1>11, <1>12,
     <1>13
  DEF Next, Write, Search

-----------------------------------------------------------------------------
\* Between acquire and release a writer holds the school's lock, so no two
\* writers are rewriting the files at once (faiss_per_school.py, the two
\* "async with self._locks.acquire" blocks).
Excluded == \A v, w \in Writers : Writing(v) /\ Writing(w) => v = w

THEOREM WriteLockExcludes ==
  ASSUME MaxBlips = 0, MaxLeaseLosses = 0
  PROVE  Spec => []Excluded
<1>1. WriteInv => Excluded
  BY DEF WriteInv, WritersHoldLock, Excluded
<1> QED
  BY <1>1, WriteInit, WriteStep, PTL DEF Spec

\* The version in the meta file never goes back: a save writes one more than
\* what it loaded, and nobody has saved since.
THEOREM VersionsGrow ==
  ASSUME MaxBlips = 0, MaxLeaseLosses = 0
  PROVE  Spec => VersionsOnlyGrow
<1>1. ASSUME WriteInv, [Next]_vars
      PROVE  [files'.meta.version >= files.meta.version]_vars
  <2>1. files.meta.version \in Nat
    BY <1>1 DEF WriteInv, Shapes, Versioned
  <2>2. ASSUME NEW w \in Writers, SaveFile(w)
        PROVE  files'.meta.version >= files.meta.version
    <3> DEFINE file == SaveOrder[step[w]]
    <3>1. step[w] \in 1..3 /\ wpc[w] = "save" /\ file \in FileNames
      BY <1>1, <2>2 DEF SaveFile, WriteInv, Shapes, SaveOrder, FileNames
    <3>2. buf[w]["meta"].version >= files["meta"].version
          /\ buf[w]["meta"].version \in Nat
      BY <1>1, <3>1 DEF WriteInv, RewritesNewest, HasMeta, Shapes, Versioned
    <3>3. Rebuilt(w)["meta"].version = buf[w]["meta"].version + 1
      BY DEF Rebuilt, NextVersion
    <3> HIDE DEF file
    <3>4. files' = [files EXCEPT ![file] = Rebuilt(w)[file]]
      BY <2>2 DEF SaveFile, file
    <3>5. files = [f \in FileNames |-> files[f]]
      BY <1>1 DEF WriteInv, Shapes, Versioned
    <3>6. \/ files'["meta"] = Rebuilt(w)["meta"]
          \/ files'["meta"] = files["meta"]
      BY <3>1, <3>4, <3>5 DEF FileNames
    <3> QED
      BY <2>1, <3>2, <3>3, <3>6
  <2>3. (\A w \in Writers : ~ SaveFile(w)) => UNCHANGED files
    BY <1>1 DEF Next, Write, Search, Request, Acquire, AcquireFails, LoadFiles,
       Rebuild, RefuseCorrupt, NothingToDelete, Finish, GiveUp, LoseLease, Lapse,
       BeginSearch, LookUp, Reload, Answer, Evict, Upgrade, vars
  <2> QED
    BY <2>1, <2>2, <2>3
<1> QED
  BY <1>1, WriteInit, WriteStep, PTL DEF Spec, VersionsOnlyGrow

-----------------------------------------------------------------------------
\* A set of natural numbers that is not empty has a least one.
LEMMA LeastIn ==
  ASSUME NEW S, S \subseteq Nat, S # {}
  PROVE  \E x \in S : \A y \in S : x <= y
<1>1. \E x \in S : \A y \in S : ~ (<<y, x>> \in OpToRel(<, Nat))
  BY NatLessThanWellFounded, WFMin, Zenon
<1>2. PICK x \in S : \A y \in S : ~ (<<y, x>> \in OpToRel(<, Nat))
  BY <1>1, Zenon
<1>3. \A y \in S : x <= y
  <2>1. TAKE y \in S
  <2>2. ~ (<<y, x>> \in OpToRel(<, Nat))
    BY <1>2, Zenon
  <2>3. y \in Nat /\ x \in Nat
    OBVIOUS
  <2>4. ~ (y < x)
    BY <2>2, <2>3 DEF OpToRel
  <2>5. QED
    BY <2>3, <2>4, SMT
<1>4. QED
  BY <1>3

-----------------------------------------------------------------------------
\* The rows that _apply_upsert and _apply_delete keep.

Kept(names, s) == {i \in 1..Len(names) : names[i] # s}
Rank(names, s, i) == Cardinality(Kept(names, s) \cap 1..i)
RowOf(names, s) ==
  [j \in 1..Cardinality(Kept(names, s)) |->
     CHOOSE i \in Kept(names, s) : Rank(names, s, i) = j]

\* A row's rank is one more than that of the row before if it is kept, and the
\* same if not.
LEMMA RanksClimb ==
  ASSUME NEW names, NEW s, Len(names) \in Nat
  PROVE  /\ \A i \in Nat : Rank(names, s, i) \in Nat
         /\ Cardinality(Kept(names, s)) \in Nat
         /\ Rank(names, s, 0) = 0
         /\ Rank(names, s, Len(names)) = Cardinality(Kept(names, s))
         /\ \A i \in Nat : Rank(names, s, i + 1) =
              Rank(names, s, i) + (IF i + 1 \in Kept(names, s) THEN 1 ELSE 0)
         /\ \A i, j \in Nat : i <= j => Rank(names, s, i) <= Rank(names, s, j)
<1> DEFINE kept == Kept(names, s)
<1>1. kept \subseteq 1..Len(names)
  BY DEF Kept
<1>2. \A i \in Nat : IsFiniteSet(1..i)
  BY FS_Interval
<1>3. IsFiniteSet(kept) /\ Cardinality(kept) \in Nat
  BY <1>1, <1>2, FS_Subset, FS_CardinalityType
<1>4. \A i \in Nat : IsFiniteSet(kept \cap 1..i)
  BY <1>3, FS_Intersection
<1>5. \A i \in Nat : Cardinality(kept \cap 1..i) \in Nat
  BY <1>4, FS_CardinalityType
<1>6. Cardinality(kept \cap 1..0) = 0
  BY FS_EmptySet
<1>7. kept \cap 1..Len(names) = kept
  BY <1>1
<1>8. ASSUME NEW i \in Nat
      PROVE  Cardinality(kept \cap 1..(i + 1)) =
               Cardinality(kept \cap 1..i) + (IF i + 1 \in kept THEN 1 ELSE 0)
  <2>1. CASE i + 1 \in kept
    <3>1. kept \cap 1..(i + 1) = (kept \cap 1..i) \cup {i + 1}
      BY <2>1
    <3>2. i + 1 \notin kept \cap 1..i
      OBVIOUS
    <3> QED
      BY <3>1, <3>2, <2>1, <1>4, FS_AddElement
  <2>2. CASE i + 1 \notin kept
    <3> HIDE DEF kept
    <3>1. kept \cap 1..(i + 1) = kept \cap 1..i
      BY <2>2
    <3>2. Cardinality(kept \cap 1..i) \in Nat
      BY <1>5
    <3>3. Cardinality(kept \cap 1..(i + 1)) = Cardinality(kept \cap 1..i)
      BY <3>1, Zenon
    <3> QED
      BY <3>2, <3>3, <2>2
  <2> QED
    BY <2>1, <2>2
<1>9. ASSUME NEW i \in Nat, NEW j \in Nat, i <= j
      PROVE  Cardinality(kept \cap 1..i) <= Cardinality(kept \cap 1..j)
  <2>1. kept \cap 1..i \subseteq kept \cap 1..j
    BY <1>9
  <2> QED
    BY <2>1, <1>4, FS_Subset
<1> HIDE DEF kept
<1>10. \A i : Rank(names, s, i) = Cardinality(kept \cap 1..i)
  BY DEF Rank, kept
<1>11. kept = Kept(names, s)
  BY DEF kept
<1>12. /\ Rank(names, s, 0) = 0
       /\ Rank(names, s, Len(names)) = Cardinality(kept)
  BY <1>6, <1>7, <1>10
<1>13. \A i \in Nat : /\ Rank(names, s, i) \in Nat
                      /\ Rank(names, s, i + 1) =
                           Rank(names, s, i) + (IF i + 1 \in kept THEN 1 ELSE 0)
  BY <1>5, <1>8, <1>10, Zenon
<1>14. \A i, j \in Nat : i <= j => Rank(names, s, i) <= Rank(names, s, j)
  BY <1>9, <1>10, Zenon
<1> QED
  BY <1>3, <1>11, <1>12, <1>13, <1>14, Zenon

\* The kept rows are numbered from one without gaps, each once.
LEMMA RowsAreKept ==
  ASSUME NEW names, NEW s, Len(names) \in Nat
  PROVE  /\ Cardinality(Kept(names, s)) \in Nat
         /\ RowOf(names, s) \in [1..Cardinality(Kept(names, s)) -> Kept(names, s)]
         /\ \A i \in Kept(names, s) :
              \E j \in 1..Cardinality(Kept(names, s)) : RowOf(names, s)[j] = i
<1> DEFINE kept == Kept(names, s)
           n == Cardinality(kept)
           R(i) == Rank(names, s, i)
<1>1. /\ \A i \in Nat : R(i) \in Nat
      /\ n \in Nat /\ R(0) = 0 /\ R(Len(names)) = n
      /\ \A i \in Nat : R(i + 1) = R(i) + (IF i + 1 \in kept THEN 1 ELSE 0)
      /\ \A i, j \in Nat : i <= j => R(i) <= R(j)
  BY RanksClimb
<1>2. kept \subseteq 1..Len(names)
  BY DEF Kept
<1> HIDE DEF kept, n, R
<1>3. ASSUME NEW j \in 1..n
      PROVE  \E i \in kept : R(i) = j
  <2> DEFINE S == {i \in 1..Len(names) : R(i) >= j}
  <2>1. Len(names) \in S
    BY <1>1
  <2>0. S \subseteq Nat /\ S # {}
    BY <2>1
  <2>2. PICK i \in S : \A k \in S : i <= k
    <3> HIDE DEF S
    <3> QED
      BY <2>0, LeastIn, Zenon
  <2>3. i \in 1..Len(names) /\ R(i) >= j
    OBVIOUS
  <2>4. (i - 1) + 1 = i /\ i - 1 \in Nat
    BY <2>3
  <2>5. R(i - 1) < j
    <3>1. CASE i = 1
      BY <3>1, <1>1
    <3>2. CASE i # 1
      <4>1. i - 1 \notin S
        BY <2>2, <2>3
      <4>2. i - 1 \in 1..Len(names)
        BY <2>3, <3>2
      <4>3. R(i - 1) \in Nat
        BY <2>4, <1>1
      <4> QED
        BY <4>1, <4>2, <4>3
    <3> QED
      BY <3>1, <3>2
  <2>6. R(i) = R(i - 1) + (IF i \in kept THEN 1 ELSE 0)
    BY <2>4, <1>1
  <2>7. R(i - 1) \in Nat
    BY <2>4, <1>1
  <2>8. R(i) = j /\ i \in kept
    BY <2>3, <2>5, <2>6, <2>7
  <2> QED
    BY <2>8
<1>4. ASSUME NEW i \in kept, NEW k \in kept, i < k
      PROVE  R(i) < R(k)
  <2>1. i \in Nat /\ k \in Nat /\ k - 1 \in Nat /\ i <= k - 1 /\ (k - 1) + 1 = k
    BY <1>2, <1>4
  <2>2. R(k) = R(k - 1) + 1
    BY <2>1, <1>1
  <2>3. R(i) <= R(k - 1) /\ R(i) \in Nat /\ R(k - 1) \in Nat
    BY <2>1, <1>1
  <2> QED
    BY <2>2, <2>3
<1>5. \A i, k \in kept : R(i) = R(k) => i = k
  <2>1. \A i, k \in kept : i \in Nat /\ k \in Nat /\ R(i) \in Nat /\ R(k) \in Nat
    BY <1>1, <1>2
  <2> QED
    BY <2>1, <1>4
<1>6. RowOf(names, s) = [j \in 1..n |-> CHOOSE i \in kept : R(i) = j]
  BY DEF RowOf, kept, n, R
<1>7. \A j \in 1..n : RowOf(names, s)[j] \in kept /\ R(RowOf(names, s)[j]) = j
  BY <1>3, <1>6
<1>8. \A i \in kept : R(i) \in 1..n
  <2> TAKE i \in kept
  <2>1. i \in Nat /\ i - 1 \in Nat /\ (i - 1) + 1 = i /\ i <= Len(names)
    BY <1>2
  <2>2. R(i) = R(i - 1) + 1 /\ R(i) <= R(Len(names))
    BY <2>1, <1>1
  <2> QED
    BY <2>1, <2>2, <1>1
<1>9. \A i \in kept : RowOf(names, s)[R(i)] = i
  BY <1>5, <1>7, <1>8
<1>10. RowOf(names, s) \in [1..n -> kept]
  BY <1>6, <1>7
<1> QED
  BY <1>1, <1>8, <1>9, <1>10 DEF kept, n

\* Without keeps exactly those rows.
LEMMA WithoutKeeps ==
  ASSUME NEW A, NEW B, NEW seq \in Seq(A), NEW names \in Seq(B), NEW s,
         Len(seq) = Len(names)
  PROVE  LET n == Cardinality(Kept(names, s))
         IN  /\ n \in Nat
             /\ Without(seq, names, s) \in Seq(A) /\ Len(Without(seq, names, s)) = n
             /\ \A j \in 1..n : Without(seq, names, s)[j] = seq[RowOf(names, s)[j]]
<1> DEFINE n == Cardinality(Kept(names, s))
           K == RowOf(names, s)
<1>1. n \in Nat /\ K \in [1..n -> Kept(names, s)]
  BY RowsAreKept
<1>2. Without(seq, names, s) = [j \in 1..n |-> seq[CHOOSE i \in Kept(names, s) :
                                    Cardinality(Kept(names, s) \cap 1..i) = j]]
  BY Zenon DEF Without, Kept
<1>3. \A j \in 1..n : K[j] = CHOOSE i \in Kept(names, s) :
                               Cardinality(Kept(names, s) \cap 1..i) = j
  BY DEF RowOf, Rank
<1>4. Kept(names, s) \subseteq 1..Len(seq)
  BY DEF Kept
<1> HIDE DEF n, K
<1>5. Without(seq, names, s) = [j \in 1..n |-> seq[K[j]]]
  BY <1>2, <1>3, Zenon
<1>6. \A j \in 1..n : K[j] \in 1..Len(seq)
  BY <1>1, <1>4
<1>7. \A j \in 1..n : seq[K[j]] \in A
  BY <1>6
<1>8. [j \in 1..n |-> seq[K[j]]] \in Seq(A) /\ Len([j \in 1..n |-> seq[K[j]]]) = n
  BY <1>1, <1>7
<1> QED
  BY <1>1, <1>5, <1>8 DEF n, K

\* What w's rewrite keeps and adds: the rows of the others in their order, and
\* after them one row of the student per photo.
Others(w) == Cardinality(Kept(buf[w].idMap, req[w].student))
Added(w)  == IF req[w].kind = "upsert" THEN req[w].photos ELSE 0
OldRow(w) == RowOf(buf[w].idMap, req[w].student)
NewFace(w) ==
  [of |-> req[w].student, enrolment |-> req[w].enrolment, model |-> embedder]

LEMMA RebuiltRows ==
  ASSUME NEW w, buf[w] \in Blobs, ~ Mismatched(buf[w]), req[w] \in Operations,
         embedder \in 0..MaxUpgrades
  PROVE  /\ Others(w) \in Nat /\ Added(w) \in Nat
         /\ Rebuilt(w) = [index |-> Rebuilt(w).index, idMap |-> Rebuilt(w).idMap,
                          meta |-> [version |-> buf[w].meta.version + 1,
                                    model |-> embedder]]
         /\ Rebuilt(w).index \in Seq(Faces) /\ Rebuilt(w).idMap \in Seq(Students)
         /\ Len(Rebuilt(w).index) = Others(w) + Added(w)
         /\ Len(Rebuilt(w).idMap) = Others(w) + Added(w)
         /\ \A j \in 1..Others(w) :
              /\ OldRow(w)[j] \in 1..Len(buf[w].idMap)
              /\ Rebuilt(w).index[j] = buf[w].index[OldRow(w)[j]]
              /\ Rebuilt(w).idMap[j] = buf[w].idMap[OldRow(w)[j]]
              /\ Rebuilt(w).idMap[j] # req[w].student
         /\ \A i \in 1..Len(buf[w].idMap) :
              buf[w].idMap[i] # req[w].student => \E j \in 1..Others(w) : OldRow(w)[j] = i
         /\ \A j \in 1..(Others(w) + Added(w)) : j > Others(w) =>
              Rebuilt(w).index[j] = NewFace(w) /\ Rebuilt(w).idMap[j] = req[w].student
<1> DEFINE s == req[w].student
           names == buf[w].idMap
           seq == buf[w].index
           n == Others(w)
           m == Added(w)
           face == NewFace(w)
           keptFaces == Without(seq, names, s)
           keptNames == Without(names, names, s)
           newFaces == [i \in 1..m |-> face]
           newNames == [i \in 1..m |-> s]
<1>1. names \in Seq(Students) /\ seq \in Seq(Faces) /\ Len(seq) = Len(names)
  BY DEF Blobs, Mismatched
<1>2. s \in Students /\ m \in Nat /\ face \in Faces
  BY FaissAssumption DEF Operations, Faces, NewFace, Added
<1>3. /\ n \in Nat
      /\ keptFaces \in Seq(Faces) /\ Len(keptFaces) = n
      /\ \A j \in 1..n : keptFaces[j] = seq[OldRow(w)[j]]
  BY <1>1, WithoutKeeps DEF Others, OldRow
<1>4. /\ keptNames \in Seq(Students) /\ Len(keptNames) = n
      /\ \A j \in 1..n : keptNames[j] = names[OldRow(w)[j]]
  BY <1>1, WithoutKeeps DEF Others, OldRow
<1>5. /\ \A j \in 1..n : OldRow(w)[j] \in 1..Len(names) /\ names[OldRow(w)[j]] # s
      /\ \A i \in 1..Len(names) : names[i] # s => \E j \in 1..n : OldRow(w)[j] = i
  <2>1. Len(names) \in Nat
    BY <1>1
  <2>2. /\ OldRow(w) \in [1..n -> Kept(names, s)]
        /\ \A i \in Kept(names, s) : \E j \in 1..n : OldRow(w)[j] = i
    BY <2>1, RowsAreKept DEF Others, OldRow
  <2> QED
    BY <2>2 DEF Kept
<1>6. /\ Rebuilt(w).index = keptFaces \o newFaces
      /\ Rebuilt(w).idMap = keptNames \o newNames
      /\ Rebuilt(w) = [index |-> Rebuilt(w).index, idMap |-> Rebuilt(w).idMap,
                       meta |-> [version |-> buf[w].meta.version + 1, model |-> embedder]]
  BY DEF Rebuilt, NewFace, Added, NextVersion
<1> HIDE DEF s, names, seq, n, m, face, keptFaces, keptNames
<1>7. newFaces \in Seq(Faces) /\ Len(newFaces) = m /\ \A i \in 1..m : newFaces[i] = face
  BY <1>2
<1>8. newNames \in Seq(Students) /\ Len(newNames) = m /\ \A i \in 1..m : newNames[i] = s
  BY <1>2
<1> HIDE DEF newFaces, newNames
<1>9. /\ keptFaces \o newFaces \in Seq(Faces) /\ Len(keptFaces \o newFaces) = n + m
      /\ \A j \in 1..n : (keptFaces \o newFaces)[j] = keptFaces[j]
      /\ \A j \in 1..(n + m) : j > n => (keptFaces \o newFaces)[j] = face
  <2>1. n \in Nat /\ m \in Nat
    BY <1>2, <1>3
  <2>2. keptFaces \o newFaces \in Seq(Faces) /\ Len(keptFaces \o newFaces) = n + m
    BY <1>3, <1>7
  <2>3. \A j \in 1..n : (keptFaces \o newFaces)[j] = keptFaces[j]
    BY <2>1, <1>3, <1>7
  <2>4. ASSUME NEW j \in 1..(n + m), j > n
        PROVE  (keptFaces \o newFaces)[j] = face
    <3>1. j - n \in 1..m /\ (keptFaces \o newFaces)[j] = newFaces[j - n]
      BY <2>1, <2>4, <1>3, <1>7
    <3> QED
      BY <3>1, <1>7
  <2> QED
    BY <2>2, <2>3, <2>4
<1>10. /\ keptNames \o newNames \in Seq(Students) /\ Len(keptNames \o newNames) = n + m
       /\ \A j \in 1..n : (keptNames \o newNames)[j] = keptNames[j]
       /\ \A j \in 1..(n + m) : j > n => (keptNames \o newNames)[j] = s
  <2>1. n \in Nat /\ m \in Nat
    BY <1>2, <1>3
  <2>2. keptNames \o newNames \in Seq(Students) /\ Len(keptNames \o newNames) = n + m
    BY <1>4, <1>8
  <2>3. \A j \in 1..n : (keptNames \o newNames)[j] = keptNames[j]
    BY <2>1, <1>4, <1>8
  <2>4. ASSUME NEW j \in 1..(n + m), j > n
        PROVE  (keptNames \o newNames)[j] = s
    <3>1. j - n \in 1..m /\ (keptNames \o newNames)[j] = newNames[j - n]
      BY <2>1, <2>4, <1>4, <1>8
    <3> QED
      BY <3>1, <1>8
  <2> QED
    BY <2>2, <2>3, <2>4
<1>11. /\ n \in Nat /\ m \in Nat
       /\ Rebuilt(w).index \in Seq(Faces) /\ Rebuilt(w).idMap \in Seq(Students)
       /\ Len(Rebuilt(w).index) = n + m
       /\ Len(Rebuilt(w).idMap) = n + m
  BY <1>2, <1>3, <1>6, <1>9, <1>10
<1>12. \A j \in 1..n :
         /\ OldRow(w)[j] \in 1..Len(names)
         /\ Rebuilt(w).index[j] = seq[OldRow(w)[j]]
         /\ Rebuilt(w).idMap[j] = names[OldRow(w)[j]]
         /\ Rebuilt(w).idMap[j] # s
  BY <1>3, <1>4, <1>5, <1>6, <1>9, <1>10
<1>13. \A j \in 1..(n + m) : j > n => Rebuilt(w).index[j] = face /\ Rebuilt(w).idMap[j] = s
  BY <1>6, <1>9, <1>10
<1> QED
  BY <1>5, <1>6, <1>11, <1>12, <1>13 DEF s, names, seq, n, m, face

-----------------------------------------------------------------------------
\* Types.

\* The requests that have not yet written the meta file.
Owing == {w \in Writers : wpc[w] \in {"wait", "load", "save"}}

Versions ==
  {files.meta.version} \cup {buf[p].meta.version : p \in Writers \cup Readers}
    \cup {cache[r].meta.version : r \in Readers} \cup {seen[r] : r \in Readers}

\* Each version is some request's, and the requests that have not written the
\* meta file have none yet: what keeps the versions below the bound.
RoomFor(version) == version + Cardinality(Owing) <= writes

Numbered == IsFiniteSet(Owing) /\ \A v \in Versions : RoomFor(v)

\* What the types of a rewrite need beside the types.
Placed ==
  /\ embedder = upgrades
  /\ \A w \in Writers : wpc[w] # "idle" => req[w] \in Operations
  /\ \A w \in Writers : wpc[w] = "save" => step[w] \in 1..3 /\ ~ Mismatched(buf[w])

Typed == TypeOK /\ Numbered /\ Placed

\* One file of a triple is replaced by another of its type.
LEMMA PutFile ==
  ASSUME NEW b \in Blobs, NEW f \in FileNames, NEW v,
         f = "index" => v \in Seq(Faces), f = "idMap" => v \in Seq(Students),
         f = "meta" => v \in Metas
  PROVE  /\ [b EXCEPT ![f] = v] \in Blobs
         /\ \A g \in FileNames : [b EXCEPT ![f] = v][g] = IF g = f THEN v ELSE b[g]
<1>1. CASE f = "index"
  BY <1>1 DEF Blobs, FileNames
<1>2. CASE f = "idMap"
  BY <1>2 DEF Blobs, FileNames
<1>3. CASE f = "meta"
  BY <1>3 DEF Blobs, FileNames
<1> QED
  BY <1>1, <1>2, <1>3 DEF FileNames

\* The types of the two triples that are not read from a file.
LEMMA Empty == Absent \in Blobs /\ Absent.meta.version = 0 /\ ~ Mismatched(Absent)
<1>1. /\ MaxPhotos \in Nat /\ MaxWrites \in Nat /\ MaxUpgrades \in Nat
  BY FaissAssumption
<1>2. [version |-> 0, model |-> 0] \in Metas
  BY <1>1 DEF Metas
<1> QED
  BY <1>2 DEF Absent, Blobs, Mismatched

LEMMA LoadTypes ==
  ASSUME TypeOK, NEW p \in Writers \cup Readers, Load(p)
  PROVE  /\ buf' \in [Writers \cup Readers -> Blobs]
         /\ step' \in [Writers \cup Readers -> 1..4]
         /\ blips' \in 0..MaxBlips
         /\ buf'[p].meta \in {buf[p].meta, files.meta, Absent.meta}
         /\ \A q \in Writers \cup Readers :
              q # p => buf'[q] = buf[q] /\ step'[q] = step[q]
<1>1. /\ buf \in [Writers \cup Readers -> Blobs] /\ step \in [Writers \cup Readers -> 1..4]
      /\ files \in Blobs /\ blips \in 0..MaxBlips
  BY DEF TypeOK
<1>2. CASE /\ buf' = [buf EXCEPT ![p] = Absent] /\ step' = [step EXCEPT ![p] = 4]
           /\ UNCHANGED blips \/ (blips < MaxBlips /\ blips' = blips + 1)
  <2>1. blips' \in 0..MaxBlips
    BY <1>1, <1>2, FaissAssumption
  <2> QED
    BY <1>1, <1>2, <2>1, Empty
<1>3. CASE /\ step[p] <= 3
           /\ buf' = [buf EXCEPT ![p] =
                       [@ EXCEPT ![LoadOrder[step[p]]] = files[LoadOrder[step[p]]]]]
           /\ step' = [step EXCEPT ![p] = @ + 1]
           /\ UNCHANGED blips
  <2> DEFINE f == LoadOrder[step[p]]
             b == [buf[p] EXCEPT ![f] = files[f]]
  <2>1. step[p] \in 1..3
    BY <1>1, <1>3
  <2>2. f \in FileNames
    BY <2>1 DEF LoadOrder, FileNames
  <2>3. buf' = [buf EXCEPT ![p] = b]
    BY <1>1, <1>3
  <2> HIDE DEF f
  <2>4. /\ f = "index" => files[f] \in Seq(Faces)
        /\ f = "idMap" => files[f] \in Seq(Students)
        /\ f = "meta" => files[f] \in Metas
    BY <1>1 DEF Blobs
  <2>5. b \in Blobs /\ \A g \in FileNames : b[g] = IF g = f THEN files[g] ELSE buf[p][g]
    <3>1. buf[p] \in Blobs
      BY <1>1
    <3> DEFINE old == buf[p]
               new == files[f]
    <3>2. old \in Blobs
      BY <3>1
    <3>3. /\ f = "index" => new \in Seq(Faces)
          /\ f = "idMap" => new \in Seq(Students)
          /\ f = "meta" => new \in Metas
      BY <2>4
    <3> HIDE DEF old, new
    <3>4. /\ [old EXCEPT ![f] = new] \in Blobs
          /\ \A g \in FileNames : [old EXCEPT ![f] = new][g] = IF g = f THEN new ELSE old[g]
      BY <3>2, <3>3, <2>2, PutFile
    <3> QED
      BY <3>4 DEF old, new
  <2>6. b.meta \in {buf[p].meta, files.meta}
    BY <2>5 DEF FileNames
  <2> HIDE DEF b
  <2> QED
    BY <1>1, <1>3, <2>1, <2>3, <2>5, <2>6
<1> QED
  BY <1>2, <1>3 DEF Load

-----------------------------------------------------------------------------
\* Room for the versions to come.

\* Nobody's new request, nor the end of one, takes room from the others.
NoLessRoom ==
  /\ IsFiniteSet(Owing')
  /\ Cardinality(Owing') + writes <= Cardinality(Owing) + writes'
  /\ writes' \in 0..MaxWrites

LEMMA StillNumbered ==
  ASSUME TypeOK, Numbered, NoLessRoom, Versions' \subseteq Versions \cup {0}
  PROVE  Numbered'
<1>1. Versions \subseteq Nat /\ files.meta.version \in Versions
  <2>1. MaxWrites \in Nat /\ \A b \in Blobs : b.meta.version \in Nat
    BY FaissAssumption DEF Blobs, Metas
  <2>2. files \in Blobs /\ files.meta.version \in Versions
    BY DEF TypeOK, Versions
  <2>3. \A p \in Writers \cup Readers : buf[p] \in Blobs
    BY DEF TypeOK
  <2>4. \A r \in Readers : cache[r] \in Blobs /\ seen[r] \in Nat
    BY <2>1 DEF TypeOK
  <2> QED
    BY <2>1, <2>2, <2>3, <2>4 DEF Versions
<1>2. /\ writes \in Nat /\ writes' \in Nat
      /\ Cardinality(Owing) \in Nat /\ Cardinality(Owing') \in Nat
  BY FS_CardinalityType DEF TypeOK, Numbered, NoLessRoom
<1>3. ASSUME NEW v \in Versions \cup {0}
      PROVE  v + Cardinality(Owing') <= writes'
  <2>1. v + Cardinality(Owing) <= writes
    <3>1. \A u \in Versions : u + Cardinality(Owing) <= writes
      BY DEF Numbered, RoomFor
    <3>2. files.meta.version \in Nat
      BY <1>1
    <3>3. CASE v = 0
      BY <3>1, <3>2, <3>3, <1>1, <1>2
    <3> QED
      BY <3>1, <3>3
  <2>2. v \in Nat
    BY <1>1
  <2> QED
    BY <1>2, <2>1, <2>2 DEF NoLessRoom
<1> QED
  BY <1>3 DEF Numbered, RoomFor, NoLessRoom

\* A step that makes no request takes no room.
LEMMA RoomKept ==
  ASSUME TypeOK, Numbered, Owing' \subseteq Owing, UNCHANGED writes
  PROVE  NoLessRoom
<1>1. IsFiniteSet(Owing') /\ Cardinality(Owing') <= Cardinality(Owing)
  BY FS_Subset DEF Numbered
<1>2. Cardinality(Owing') \in Nat /\ Cardinality(Owing) \in Nat
  BY <1>1, FS_CardinalityType DEF Numbered
<1>3. writes \in Nat /\ writes' = writes /\ writes \in 0..MaxWrites
  BY DEF TypeOK
<1> QED
  BY <1>1, <1>2, <1>3 DEF NoLessRoom

-----------------------------------------------------------------------------
LEMMA TypedInit == Init => Typed
<1> SUFFICES ASSUME Init PROVE Typed
  OBVIOUS
<1>1. /\ MaxPhotos \in Nat /\ MaxWrites \in Nat /\ MaxUpgrades \in Nat /\ MaxFaults \in Nat
      /\ MaxBlips \in Nat /\ MaxLeaseLosses \in Nat
  BY FaissAssumption
<1>2. TypeOK
  <2>1. /\ files \in Blobs /\ cache \in [Readers -> Blobs]
        /\ buf \in [Writers \cup Readers -> Blobs]
    BY Empty DEF Init
  <2>2. /\ embedder \in 0..MaxUpgrades /\ writes \in 0..MaxWrites
        /\ faults \in 0..MaxFaults /\ blips \in 0..MaxBlips
        /\ losses \in 0..MaxLeaseLosses /\ upgrades \in 0..MaxUpgrades
        /\ seen \in [Readers -> 0..MaxWrites] /\ last \in [Students -> -1..MaxWrites]
    BY <1>1 DEF Init
  <2>3. /\ hits \in [Readers -> SUBSET [face : Faces, name : Students]]
        /\ stable \in [Readers -> SUBSET Students]
    BY DEF Init
  <2>4. step \in [Writers \cup Readers -> 1..4]
    BY DEF Init
  <2>6. lock \in Writers \cup {NoOne} /\ logged \in BOOLEAN
    BY DEF Init
  <2>5. /\ wpc \in [Writers -> {"idle", "wait", "load", "save", "finish"}]
        /\ req \in [Writers -> Operations \cup {NoRequest}]
        /\ rpc \in [Readers -> {"idle", "lookup", "load"}]
    BY DEF Init
  <2> QED
    BY <2>1, <2>2, <2>3, <2>4, <2>5, <2>6 DEF TypeOK
<1>3. Owing = {}
  BY DEF Init, Owing
<1>4. \A v \in Versions : v = 0
  BY Empty DEF Init, Versions
<1>5. Numbered
  BY <1>3, <1>4, FS_EmptySet DEF Init, Numbered, RoomFor
<1>6. Placed
  BY DEF Init, Placed
<1> QED
  BY <1>2, <1>5, <1>6 DEF Typed

\* The counters' types.
LEMMA Bounded ==
  ASSUME TypeOK
  PROVE  /\ MaxPhotos \in Nat /\ MaxWrites \in Nat /\ MaxUpgrades \in Nat
         /\ MaxFaults \in Nat /\ MaxBlips \in Nat /\ MaxLeaseLosses \in Nat
         /\ writes \in Nat /\ faults \in Nat /\ blips \in Nat /\ losses \in Nat
         /\ upgrades \in Nat /\ embedder \in Nat
  BY FaissAssumption DEF TypeOK

LEMMA RequestTyped ==
  ASSUME Typed, NEW w \in Writers, Request(w)
  PROVE  Typed'
<1> USE DEF Typed, writerVars, searchVars, boundVars
<1>1. TypeOK'
  <2>1. req' \in [Writers -> Operations \cup {NoRequest}]
    BY DEF Request, TypeOK
  <2>2. writes' \in 0..MaxWrites
    BY Bounded DEF Request, TypeOK
  <2>3. wpc' \in [Writers -> {"idle", "wait", "load", "save", "finish"}]
    BY DEF Request, TypeOK
  <2> QED
    BY <2>1, <2>2, <2>3 DEF Request, TypeOK
<1>2. Owing' = Owing \cup {w} /\ w \notin Owing
  BY DEF Request, TypeOK, Owing
<1>3. NoLessRoom
  <2>1. IsFiniteSet(Owing')
    BY <1>2, FS_AddElement DEF Numbered
  <2>2. Cardinality(Owing') = Cardinality(Owing) + 1
    BY <1>2, FS_AddElement DEF Numbered
  <2>3. Cardinality(Owing) \in Nat
    BY FS_CardinalityType DEF Numbered
  <2>4. writes' = writes + 1 /\ writes' \in 0..MaxWrites /\ writes \in Nat
    BY <1>1, Bounded DEF Request, TypeOK
  <2> QED
    BY <2>1, <2>2, <2>3, <2>4 DEF NoLessRoom
<1>4. Versions' \subseteq Versions \cup {0}
  BY DEF Request, Versions
<1>5. Numbered'
  BY <1>3, <1>4, StillNumbered
<1>6. Placed'
  <2>1. req'[w] \in Operations /\ wpc'[w] = "wait"
    BY DEF Request, TypeOK
  <2>2. \A v \in Writers : v # w => req'[v] = req[v] /\ wpc'[v] = wpc[v]
    BY DEF Request, TypeOK
  <2> QED
    BY <2>1, <2>2 DEF Request, Placed, Mismatched
<1> QED
  BY <1>1, <1>5, <1>6

\* A writer moves on without touching the store.
LEMMA MoveTyped ==
  ASSUME Typed, NEW w \in Writers,
         Acquire(w) \/ AcquireFails(w) \/ LoseLease(w) \/ Lapse(w)
  PROVE  Typed'
<1> USE DEF Typed, writerVars, searchVars, boundVars
<1>1. TypeOK'
  <2>1. CASE Acquire(w)
    BY <2>1 DEF Acquire, TypeOK
  <2>2. CASE AcquireFails(w)
    BY <2>2 DEF AcquireFails, TypeOK
  <2>3. CASE LoseLease(w)
    <3>1. losses' \in 0..MaxLeaseLosses
      BY <2>3, Bounded DEF LoseLease, TypeOK
    <3> QED
      BY <2>3, <3>1 DEF LoseLease, TypeOK
  <2>4. CASE Lapse(w)
    BY <2>4 DEF Lapse, TypeOK
  <2> QED
    BY <2>1, <2>2, <2>3, <2>4
<1>2. Owing' \subseteq Owing /\ UNCHANGED <<writes, files, buf, cache, seen, step, embedder, upgrades>>
  BY DEF Acquire, AcquireFails, LoseLease, Lapse, TypeOK, Owing
<1>3. Versions' \subseteq Versions \cup {0}
  BY <1>2 DEF Versions
<1>4. Numbered'
  BY <1>2, <1>3, RoomKept, StillNumbered
<1>5. Placed'
  <2>1. wpc'[w] # "idle" => req'[w] \in Operations
    BY DEF Acquire, AcquireFails, LoseLease, Lapse, TypeOK, Placed
  <2>2. wpc'[w] = "save" => wpc[w] = "save"
    BY DEF Acquire, AcquireFails, LoseLease, Lapse, TypeOK, Placed
  <2>3. \A v \in Writers : v # w => req'[v] = req[v] /\ wpc'[v] = wpc[v]
    BY DEF Acquire, AcquireFails, LoseLease, Lapse, TypeOK
  <2> QED
    BY <1>2, <2>1, <2>2, <2>3 DEF Placed, Mismatched
<1> QED
  BY <1>1, <1>4, <1>5

\* A file read, by a writer or a reader.
LEMMA ReadTyped ==
  ASSUME Typed, NEW p \in Writers \cup Readers, Load(p), p \in Writers => wpc[p] = "load",
         UNCHANGED <<files, embedder, lock, logged, writerVars, searchVars, stable,
                     last, writes, faults, losses, upgrades>>
  PROVE  Typed'
<1> USE DEF Typed, writerVars, searchVars
<1>1. /\ buf' \in [Writers \cup Readers -> Blobs]
      /\ step' \in [Writers \cup Readers -> 1..4]
      /\ blips' \in 0..MaxBlips
      /\ buf'[p].meta \in {buf[p].meta, files.meta, Absent.meta}
      /\ \A q \in Writers \cup Readers :
           q # p => buf'[q] = buf[q] /\ step'[q] = step[q]
  BY LoadTypes
<1>2. TypeOK'
  BY <1>1 DEF TypeOK
<1>3. Versions' \subseteq Versions \cup {0}
  <2>1. buf'[p].meta.version \in {buf[p].meta.version, files.meta.version, 0}
    BY <1>1, Empty
  <2>2. \A q \in Writers \cup Readers : buf'[q].meta.version \in Versions \cup {0}
    BY <1>1, <2>1 DEF Versions
  <2> HIDE DEF writerVars
  <2> QED
    BY <2>2 DEF Versions
<1>4. Owing' \subseteq Owing
  BY DEF Owing
<1>5. Numbered'
  BY <1>3, <1>4, RoomKept, StillNumbered
<1>6. Placed'
  BY <1>1 DEF Placed, Mismatched
<1> QED
  BY <1>2, <1>5, <1>6

\* A writer leaves, whatever it did last.
LEMMA LeaveTyped ==
  ASSUME Typed, NEW w \in Writers, Leave(w),
         last' \in [Students -> -1..MaxWrites], cache' \in [Readers -> Blobs],
         \A r \in Readers : cache'[r] \in {cache[r], Absent},
         logged' \in BOOLEAN, faults' \in 0..MaxFaults,
         UNCHANGED <<files, embedder, rpc, seen, hits, stable, writes, blips, losses, upgrades>>
  PROVE  Typed'
<1> USE DEF Typed
<1>1. /\ buf' \in [Writers \cup Readers -> Blobs]
      /\ step' \in [Writers \cup Readers -> 1..4]
      /\ wpc' \in [Writers -> {"idle", "wait", "load", "save", "finish"}]
      /\ req' \in [Writers -> Operations \cup {NoRequest}]
      /\ buf'[w] = Absent /\ wpc'[w] = "idle"
      /\ \A q \in Writers \cup Readers :
           q # w => buf'[q] = buf[q] /\ step'[q] = step[q]
      /\ \A v \in Writers : v # w => req'[v] = req[v] /\ wpc'[v] = wpc[v]
  BY Empty, Bounded DEF Leave, TypeOK
<1>2. TypeOK'
  BY <1>1 DEF Leave, TypeOK
<1>3. Versions' \subseteq Versions \cup {0}
  <2>1. \A q \in Writers \cup Readers : buf'[q].meta.version \in Versions \cup {0}
    BY <1>1, Empty DEF Versions
  <2>2. \A r \in Readers : cache'[r].meta.version \in Versions \cup {0}
    BY Empty DEF Versions
  <2> QED
    BY <2>1, <2>2 DEF Versions
<1>4. Owing' \subseteq Owing
  BY <1>1 DEF Owing
<1>5. Numbered'
  BY <1>3, <1>4, RoomKept, StillNumbered
<1>6. Placed'
  BY <1>1 DEF Placed, Mismatched
<1> QED
  BY <1>2, <1>5, <1>6

LEMMA EndTyped ==
  ASSUME Typed, NEW w \in Writers,
         RefuseCorrupt(w) \/ NothingToDelete(w) \/ Finish(w) \/ GiveUp(w)
  PROVE  Typed'
<1> USE DEF Typed, writerVars, searchVars, boundVars
<1>1. w \in Writers /\ wpc[w] # "idle"
  BY DEF RefuseCorrupt, NothingToDelete, Finish, GiveUp, Writing
<1>2. req[w].student \in Students /\ req[w].enrolment \in 1..MaxWrites
  BY <1>1 DEF Placed, Operations
<1>3. last' \in [Students -> -1..MaxWrites]
  <2>1. Outcome(w) \in -1..MaxWrites
    BY <1>2, Bounded DEF Outcome
  <2> HIDE DEF Outcome
  <2> QED
    BY <1>2, <2>1, Bounded DEF RefuseCorrupt, NothingToDelete, Finish, GiveUp, TypeOK, Unknown
<1>4. cache' \in [Readers -> Blobs] /\ \A r \in Readers : cache'[r] \in {cache[r], Absent}
  <2>1. CASE Finish(w)
    BY <2>1, Empty DEF Finish, TypeOK
  <2>2. CASE RefuseCorrupt(w) \/ NothingToDelete(w) \/ GiveUp(w)
    BY <2>2 DEF RefuseCorrupt, NothingToDelete, GiveUp, TypeOK
  <2> QED
    BY <2>1, <2>2
<1>5. faults' \in 0..MaxFaults
  <2>1. GiveUp(w) => faults' \in {faults, faults + 1} /\ faults' <= MaxFaults
    BY Bounded DEF GiveUp, TypeOK
  <2> QED
    BY <2>1, Bounded DEF RefuseCorrupt, NothingToDelete, Finish, TypeOK
<1>6. Leave(w) /\ logged' \in BOOLEAN
  BY DEF RefuseCorrupt, NothingToDelete, Finish, GiveUp, Release, TypeOK
<1>7. UNCHANGED <<files, embedder, rpc, seen, hits, stable, writes, blips, losses, upgrades>>
  BY DEF RefuseCorrupt, NothingToDelete, Finish, GiveUp
<1> QED
  BY <1>3, <1>4, <1>5, <1>6, <1>7, LeaveTyped

LEMMA RebuildTyped ==
  ASSUME Typed, NEW w \in Writers, Rebuild(w)
  PROVE  Typed'
<1> USE DEF Typed, writerVars, searchVars, boundVars
<1>1. /\ wpc'[w] = "save" /\ step'[w] = 1 /\ wpc[w] = "load" /\ ~ Mismatched(buf[w])
      /\ \A v \in Writers : v # w => wpc'[v] = wpc[v] /\ step'[v] = step[v]
      /\ UNCHANGED <<files, buf, cache, seen, req, writes, embedder, upgrades>>
  BY DEF Rebuild, TypeOK
<1>2. TypeOK'
  BY DEF Rebuild, TypeOK
<1>3. Versions' \subseteq Versions \cup {0} /\ Owing' \subseteq Owing
  BY <1>1 DEF Versions, Owing
<1>4. Numbered'
  BY <1>1, <1>3, RoomKept, StillNumbered
<1>5. Placed'
  BY <1>1 DEF Placed, Mismatched
<1> QED
  BY <1>2, <1>4, <1>5

\* What a save writes has the type of its file.
LEMMA SaveTypes ==
  ASSUME Typed, NEW w \in Writers, SaveFile(w)
  PROVE  /\ step[w] \in 1..3
         /\ files' \in Blobs
         /\ \A g \in FileNames :
              files'[g] = IF g = SaveOrder[step[w]] THEN Rebuilt(w)[g] ELSE files[g]
         /\ step[w] = 3 => Rebuilt(w).meta.version + Cardinality(Owing) - 1 <= writes
<1> USE DEF Typed
<1>1. wpc[w] = "save" /\ step[w] \in 1..3 /\ ~ Mismatched(buf[w]) /\ req[w] \in Operations
  BY DEF SaveFile, Placed
<1>2. buf[w] \in Blobs /\ files \in Blobs /\ embedder \in 0..MaxUpgrades
  BY DEF TypeOK
<1>3. /\ Rebuilt(w).index \in Seq(Faces) /\ Rebuilt(w).idMap \in Seq(Students)
      /\ Rebuilt(w).meta = [version |-> buf[w].meta.version + 1, model |-> embedder]
  BY <1>1, <1>2, RebuiltRows
<1>4. buf[w].meta.version \in Nat /\ buf[w].meta.version + Cardinality(Owing) <= writes
  <2>1. buf[w].meta.version \in Versions
    BY DEF Versions
  <2> QED
    <3>1. \A b \in Blobs : b.meta.version \in Nat
      BY Bounded DEF Blobs, Metas
    <3>2. buf[w].meta.version \in Nat
      BY <1>2, <3>1
    <3> QED
      BY <2>1, <3>2 DEF Numbered, RoomFor
<1>5. Cardinality(Owing) \in Nat /\ Cardinality(Owing) >= 1
  <2>1. IsFiniteSet(Owing) /\ w \in Owing
    BY <1>1 DEF Numbered, Owing
  <2>2. Cardinality(Owing) # 0
    BY <2>1, FS_EmptySet
  <2> QED
    BY <2>1, <2>2, FS_CardinalityType
<1>6. /\ Rebuilt(w).meta \in Metas
      /\ Rebuilt(w).meta.version + Cardinality(Owing) - 1 <= writes
  <2> DEFINE v == buf[w].meta.version
             c == Cardinality(Owing)
  <2>1. /\ v \in Nat /\ v + c <= writes /\ c \in Nat /\ c >= 1
        /\ writes \in 0..MaxWrites /\ MaxWrites \in Nat
    BY <1>4, <1>5, Bounded DEF TypeOK
  <2> HIDE DEF v, c
  <2>2. v + 1 \in 0..MaxWrites /\ v + 1 + c - 1 <= writes
    BY <2>1
  <2>3. [version |-> v + 1, model |-> embedder] \in Metas
    BY <2>2, <1>2 DEF Metas
  <2> QED
    BY <2>2, <2>3, <1>3 DEF v, c
<1> DEFINE f == SaveOrder[step[w]]
           new == Rebuilt(w)[f]
<1>7. f \in FileNames
  BY <1>1 DEF SaveOrder, FileNames
<1>8. files' = [files EXCEPT ![f] = new]
  BY DEF SaveFile
<1> HIDE DEF f
<1>9. /\ f = "index" => new \in Seq(Faces)
      /\ f = "idMap" => new \in Seq(Students)
      /\ f = "meta" => new \in Metas
  BY <1>3, <1>6
<1> HIDE DEF new
<1>10. files' \in Blobs /\ \A g \in FileNames : files'[g] = IF g = f THEN new ELSE files[g]
  <2>1. CASE f = "index"
    BY <2>1, <1>2, <1>8, <1>9 DEF Blobs, FileNames
  <2>2. CASE f = "idMap"
    BY <2>2, <1>2, <1>8, <1>9 DEF Blobs, FileNames
  <2>3. CASE f = "meta"
    BY <2>3, <1>2, <1>8, <1>9 DEF Blobs, FileNames
  <2> QED
    BY <2>1, <2>2, <2>3, <1>7 DEF FileNames
<1> QED
  BY <1>1, <1>6, <1>10 DEF f, new

LEMMA SaveTyped ==
  ASSUME Typed, NEW w \in Writers, SaveFile(w)
  PROVE  Typed'
<1> USE DEF Typed, writerVars, searchVars, boundVars
<1>1. /\ step[w] \in 1..3 /\ files' \in Blobs
      /\ \A g \in FileNames :
           files'[g] = IF g = SaveOrder[step[w]] THEN Rebuilt(w)[g] ELSE files[g]
      /\ step[w] = 3 => Rebuilt(w).meta.version + Cardinality(Owing) - 1 <= writes
  BY SaveTypes
<1>2. /\ step[w] = 3 => wpc'[w] = "finish" /\ step' = step
      /\ step[w] # 3 => wpc' = wpc /\ step'[w] = step[w] + 1
      /\ \A v \in Writers : v # w => wpc'[v] = wpc[v] /\ step'[v] = step[v]
      /\ wpc[w] = "save"
      /\ UNCHANGED <<buf, cache, seen, req, writes, embedder, upgrades>>
  BY DEF SaveFile, TypeOK
<1>3. TypeOK'
  <2>1. /\ wpc' \in [Writers -> {"idle", "wait", "load", "save", "finish"}]
        /\ step' \in [Writers \cup Readers -> 1..4]
    BY <1>1 DEF SaveFile, TypeOK
  <2> QED
    BY <1>1, <2>1 DEF SaveFile, TypeOK
<1>4. Placed'
  BY <1>1, <1>2 DEF Placed, Mismatched
<1>5. Numbered'
  <2>1. CASE step[w] # 3
    <3>1. SaveOrder[step[w]] # "meta"
      BY <1>1, <2>1 DEF SaveOrder
    <3>2. files'.meta = files.meta
      BY <1>1, <3>1 DEF FileNames
    <3>3. Versions' \subseteq Versions \cup {0} /\ Owing' \subseteq Owing
      BY <1>2, <2>1, <3>2 DEF Versions, Owing
    <3> QED
      BY <1>2, <3>3, RoomKept, StillNumbered
  <2>2. CASE step[w] = 3
    <3>1. files'.meta = Rebuilt(w).meta
      BY <1>1, <2>2 DEF FileNames, SaveOrder
    <3>2. Owing' = Owing \ {w} /\ w \in Owing
      BY <1>2, <2>2 DEF Owing
    <3>3. IsFiniteSet(Owing') /\ Cardinality(Owing') = Cardinality(Owing) - 1
      BY <3>2, FS_RemoveElement DEF Numbered
    <3>4. Cardinality(Owing) \in Nat /\ Cardinality(Owing') \in Nat /\ writes' = writes
      BY <1>2, <3>3, FS_CardinalityType DEF Numbered
    <3>5. files'.meta.version + Cardinality(Owing') <= writes'
      BY <1>1, <2>2, <3>1, <3>3, <3>4
    <3>6. Versions' \subseteq Versions \cup {files'.meta.version}
      BY <1>2 DEF Versions
    <3>7. \A v \in Versions : v + Cardinality(Owing') <= writes'
      <4>1. Versions \subseteq Nat
        <5>1. MaxWrites \in Nat /\ \A b \in Blobs : b.meta.version \in Nat
          BY Bounded DEF Blobs, Metas
        <5> QED
          BY <5>1 DEF Versions, TypeOK
      <4> QED
        BY <3>3, <3>4, <4>1, Bounded DEF Numbered, RoomFor
    <3> QED
      BY <3>3, <3>5, <3>6, <3>7 DEF Numbered, RoomFor
  <2> QED
    BY <2>1, <2>2
<1> QED
  BY <1>3, <1>4, <1>5

LEMMA SearchTyped ==
  ASSUME Typed, NEW r \in Readers,
         BeginSearch(r) \/ LookUp(r) \/ Answer(r) \/ Evict(r)
  PROVE  Typed'
<1> USE DEF Typed, writerVars, searchVars, boundVars
<1>1. \A b \in Blobs : Rows(b) \in SUBSET [face : Faces, name : Students]
  BY DEF Blobs, Rows
<1>2. files.meta.version \in 0..MaxWrites
  BY DEF TypeOK, Blobs, Metas
<1>3. TypeOK'
  <2>1. CASE BeginSearch(r)
    <3>1. blips' \in 0..MaxBlips /\ seen' \in [Readers -> 0..MaxWrites]
      BY <2>1, <1>2, Bounded DEF BeginSearch, TypeOK
    <3> QED
      BY <2>1, <3>1 DEF BeginSearch, TypeOK
  <2>2. CASE LookUp(r)
    <3>1. hits' \in [Readers -> SUBSET [face : Faces, name : Students]]
      BY <2>2, <1>1 DEF LookUp, TypeOK
    <3>2. seen' \in [Readers -> 0..MaxWrites]
      BY <2>2, Bounded DEF LookUp, TypeOK
    <3> QED
      BY <2>2, <3>1, <3>2 DEF LookUp, TypeOK
  <2>3. CASE Answer(r)
    <3>1. hits' \in [Readers -> SUBSET [face : Faces, name : Students]]
      BY <2>3, <1>1 DEF Answer, TypeOK
    <3>2. cache' \in [Readers -> Blobs] /\ buf' \in [Writers \cup Readers -> Blobs]
      BY <2>3, Empty DEF Answer, TypeOK
    <3>3. /\ step' \in [Writers \cup Readers -> 1..4]
          /\ rpc' \in [Readers -> {"idle", "lookup", "load"}]
      BY <2>3 DEF Answer, TypeOK
    <3>4. UNCHANGED <<files, embedder, lock, logged, wpc, req, seen, stable, last, writes,
                      faults, blips, losses, upgrades>>
      BY <2>3 DEF Answer
    <3> QED
      BY <3>1, <3>2, <3>3, <3>4 DEF TypeOK
  <2>4. CASE Evict(r)
    BY <2>4, Empty DEF Evict, TypeOK
  <2> QED
    BY <2>1, <2>2, <2>3, <2>4
<1>4. UNCHANGED <<files, wpc, req, writes, embedder, upgrades>>
  BY DEF BeginSearch, LookUp, Answer, Evict
<1>5. r \notin Writers
  BY FaissAssumption
<1>6. /\ \A q \in Writers \cup Readers : buf'[q] \in {buf[q], Absent}
      /\ \A w \in Writers : buf'[w] = buf[w] /\ step'[w] = step[w]
      /\ \A q \in Readers : cache'[q] \in {cache[q], Absent, buf[q]}
      /\ \A q \in Readers : seen'[q] \in {seen[q], 0, files.meta.version}
  BY <1>5 DEF BeginSearch, LookUp, Answer, Evict, TypeOK
<1>7. Versions' \subseteq Versions \cup {0}
  <2>1. \A q \in Writers \cup Readers : buf'[q].meta.version \in Versions \cup {0}
    BY <1>6, Empty DEF Versions
  <2>2. \A q \in Readers : cache'[q].meta.version \in Versions \cup {0}
    BY <1>6, Empty DEF Versions
  <2>3. \A q \in Readers : seen'[q] \in Versions \cup {0}
    BY <1>6 DEF Versions
  <2> QED
    BY <1>4, <2>1, <2>2, <2>3 DEF Versions
<1>8. Owing' \subseteq Owing
  BY <1>4 DEF Owing
<1>9. Numbered'
  BY <1>4, <1>7, <1>8, RoomKept, StillNumbered
<1>10. Placed'
  BY <1>4, <1>6 DEF Placed, Mismatched
<1> QED
  BY <1>3, <1>9, <1>10

LEMMA UpgradeTyped ==
  ASSUME Typed, Upgrade
  PROVE  Typed'
<1> USE DEF Typed, writerVars, searchVars, boundVars
<1>1. upgrades' \in 0..MaxUpgrades /\ embedder' = upgrades'
  BY Bounded DEF Upgrade, TypeOK, Placed
<1>2. TypeOK'
  BY <1>1, Empty DEF Upgrade, TypeOK
<1>3. Versions' \subseteq Versions \cup {0}
  BY Empty DEF Upgrade, Versions
<1>4. Owing' \subseteq Owing
  BY DEF Upgrade, Owing
<1>5. Numbered'
  BY <1>3, <1>4, RoomKept, StillNumbered DEF Upgrade
<1>6. Placed'
  BY <1>1 DEF Upgrade, Placed, Mismatched
<1> QED
  BY <1>2, <1>5, <1>6

LEMMA TypedStep == Typed /\ [Next]_vars => Typed'
<1> SUFFICES ASSUME Typed, [Next]_vars PROVE Typed'
  OBVIOUS
<1>1. ASSUME NEW w \in Writers, LoadFiles(w) PROVE Typed'
  BY <1>1, ReadTyped DEF LoadFiles
<1>2. ASSUME NEW r \in Readers, Reload(r) PROVE Typed'
  <2>1. r \notin Writers
    BY FaissAssumption
  <2> QED
    BY <1>2, <2>1, ReadTyped DEF Reload
<1>3. CASE UNCHANGED vars
  BY <1>3 DEF vars, writerVars, searchVars, boundVars, Typed, TypeOK, Numbered, Placed,
              Versions, Owing, RoomFor, Mismatched
<1>4. CASE Next
  BY <1>1, <1>2, <1>4, RequestTyped, MoveTyped, EndTyped, RebuildTyped, SaveTyped,
     SearchTyped, UpgradeTyped DEF Next, Write, Search
<1> QED
  BY <1>3, <1>4

\* Every variable keeps its type. The versions stay below the bound on requests
\* because each version is one request's (NextVersion); the index and the id map
\* are rewritten together, so that a rewrite finds every row it keeps.
THEOREM TypesHold == Spec => []TypeOK
<1>1. Typed => TypeOK
  BY DEF Typed
<1> QED
  BY <1>1, TypedInit, TypedStep, PTL DEF Spec

=============================================================================
