----------------------------- MODULE InsightProofs -----------------------------
(***************************************************************************)
(* Proofs about the rest of the office: lists, bulk work, the two logs and *)
(* the reports.  The staff's accounts are typed by AccountsProofs.         *)
(***************************************************************************)
EXTENDS AccountsProofs, SequenceTheorems

------------------------------------------------------------------------------
(* Types: what TypeOK says, with the shapes of the records spelled out.    *)

Clerks ==
  [kind : {"none", "assign", "remove", "tag", "link", "replace"},
   step : {"idle", "assign", "remove", "tag", "check", "link", "sift"},
   group : Groups \cup {NoGroup}, queue : SUBSET (Items \cup Teachers \cup Groups),
   fresh : SUBSET Groups, who : Teachers \cup {NoUser}]

Walks ==
  [kind : {"none", "roster", "students", "events"}, sort : {"column", "count"},
   down : BOOLEAN, mine : Teachers \cup {NoUser},
   step : {"idle", "page", "rows", "total", "counts", "ids", "hydrate", "done"},
   page : Nat, scope : SUBSET Groups, keys : [ListRows -> Nat], ids : SUBSET Items,
   got : Nat, total : Nat, first : Nat, loaded : Nat, shown : [ListRows -> 0..2],
   place : [ListRows -> Int], fell : SUBSET ListRows, rose : SUBSET ListRows,
   beyond : SUBSET ListRows]

Saids == {"created", "sent", "duplicate", "invalid", "error", "ok"}

Desks ==
  [kind : {"none", "import", "status", "resend", "delete"},
   step : {"idle", "done", "login", "profile", "undo", "audit", "class", "assign", "find",
           "write", "reread", "erase", "drop"},
   job : 0..MaxJobs, list : Seq(SheetRows), active : BOOLEAN,
   cache : [Names -> Groups \cup {NoGroup}],
   answers : Seq([who : Students, said : Saids, key : Keys])]

Scrolls ==
  [log : {"none", "actions", "downloads"}, who : Students \cup {NoUser},
   step : {"idle", "rows", "total", "done"}, page : Nat, due : SUBSET Nat, seen : SUBSET Nat,
   got : Nat]

\* The catalogue, on which lists and bulk work meet.
CatalogueTyped ==
  /\ groups \in SUBSET Groups
  /\ rows \in [Items -> {"new", "there", "gone"}]
  /\ home \in [Items -> groups \cup {NoGroup}]
  /\ links \subseteq {t \in Teachers : Exists(t)} \X groups
  /\ shots \in [Items -> 0..1]

ClerkTyped ==
  /\ clerk \in Clerks
  /\ clerk.step \in {"link", "sift"} => clerk.who \in Teachers /\ Exists(clerk.who)

WalkTyped ==
  /\ walk \in Walks
  /\ walk.step \in {"counts", "ids", "hydrate"} => walk.sort = "count"
  /\ walk.sort = "count" => walk.kind \in {"students", "events"}

\* Which kind of batch gets to which step.
InKind(b) ==
  /\ b.step \in {"login", "profile", "undo", "class", "assign"} => b.kind = "import"
  /\ b.step \in {"find", "audit"} => b.kind # "none"
  /\ b.step = "find" => b.kind # "import"
  /\ b.step = "write" => b.kind \in {"status", "resend"}
  /\ b.step = "reread" => b.kind = "status"
  /\ b.step \in {"erase", "drop"} => b.kind = "delete"
  /\ b.step \notin {"idle", "done"} => b.list # <<>> /\ b.job \in 1..jobs
  /\ b.step \in {"idle", "done"} => b.job = 0

DeskTyped ==
  /\ desk \in [Requests -> Desks]
  /\ \A r \in Requests : InKind(desk[r])
  /\ jobs \in 0..MaxJobs

PupilsTyped ==
  /\ pupils \in [Students -> Pupils \cup {NoRow}]
  /\ \A s \in Students :
       /\ rows[s] = "there" => pupils[s] # NoRow
       /\ rows[s] = "gone" => pupils[s] = NoRow
       /\ pupils[s] # NoRow /\ pupils[s].seen => rows[s] = "there"

\* A row of a sheet whose login is made has that login to itself until its profile is there;
\* whoever a batch has found has been there.
RowsHeld ==
  /\ \A r \in Requests :
       /\ desk[r].step \in {"profile", "undo"} =>
            rows[Who(r)] = "new" /\ pupils[Who(r)] # NoRow /\ pupils[Who(r)].active
       /\ desk[r].step \in {"write", "erase", "drop", "audit", "class", "assign", "reread"} =>
            rows[Who(r)] # "new"
  /\ \A r, o \in Requests :
       /\ desk[r].step \in {"profile", "undo"} /\ desk[o].step \in {"profile", "undo"}
       /\ Who(r) = Who(o)
       => r = o

LogsTyped ==
  /\ trail \in Seq(TrailRows) /\ \A i \in DOMAIN trail : rows[trail[i].who] # "new"
  /\ saves \in Seq(Students \cup {NoUser})
  /\ \A i \in DOMAIN saves : saves[i] \in Enrolled \cup {NoUser}
  /\ scroll \in Scrolls

Faces == {"pending", "enrolled", "failed"}

\* What a read of a report may answer.
Figures ==
  UNION {SUBSET (Students \X Faces), SUBSET Students, SUBSET Events, SUBSET (Students \X Events),
         SUBSET (Events \X BOOLEAN), SUBSET (Events \X BOOLEAN \X BOOLEAN),
         SUBSET (Events \X {"done", "pending"}), SUBSET Teachers, SUBSET Nat}

Sections == {"dashboard", "school", "estate"}

ReportKept ==
  /\ report \in [kind : Sections \cup {"none"}, at : Nat, got : Seq(Figures),
                 were : SUBSET Students, held : SUBSET Events, left : SUBSET Students,
                faded : SUBSET Students,
                 stalled : BOOLEAN, idle : BOOLEAN]
  /\ report.left \subseteq report.were
  /\ report.kind # "none" =>
       report.at \in 1..(Len(Plan[report.kind]) + 1) /\ Len(report.got) = report.at - 1

ReportTyped ==
  /\ face \in [Students -> Faces]
  /\ course \in [Events -> Courses]
  /\ opens \subseteq Students \X Events /\ early \subseteq opens
  /\ sent \in 0..news /\ news \in 0..MaxNews
  /\ ReportKept

Shaped ==
  /\ Typed /\ CatalogueTyped /\ ClerkTyped /\ WalkTyped /\ turns \in 0..MaxTurns
  /\ DeskTyped /\ PupilsTyped /\ RowsHeld /\ LogsTyped /\ ReportTyped

\* What each part of the office leaves alone.
LEMMA Parts ==
  ASSUME [Next]_vars
  PROVE  \/ AccountsNext /\ UNCHANGED <<listings, office, jobs, face, course, opens, early, sent, news>>
            /\ report' = Witnessed
         \/ ListingsStep /\ UNCHANGED <<accounts, moves, office, jobs, face, course, opens, early, sent, news>>
            /\ report' = Witnessed
         \/ OfficeStep /\ UNCHANGED <<accounts, moves, face, course, opens, early, sent, news>>
            /\ report' = Witnessed
         \/ InsightStep /\ UNCHANGED <<accounts, moves, listings, desk, trail, saves, scroll, deeds,
                                       slips, handed, swapped, jobs>>
         \/ UNCHANGED vars
BY DEF Next, AccountsNext, Elsewhere

\* No account's row is taken back.
LEMMA RowsStay == Typed /\ [Next]_vars => \A u \in Users : Exists(u) => Exists(u)'
<1>1. UNCHANGED <<accounts, moves>> => \A u \in Users : Exists(u) => Exists(u)'
  BY DEF accounts, Exists
<1> QED BY <1>1, UsersStep, OnlyAccountsSteps

------------------------------------------------------------------------------
(* The catalogue.                                                          *)

\* Steps of the lists' own.
LEMMA ChangesTyped ==
  ASSUME CatalogueTyped, ClerkTyped, \A u \in Users : Exists(u) => Exists(u)',
         UNCHANGED users, Changes
  PROVE  CatalogueTyped' /\ ClerkTyped'
<1> USE ItemsAssumption, UsersAssumption
<1>0. \A u : Exists(u)' = Exists(u)
  BY DEF Exists
<1>1. ASSUME NEW g \in Groups, CreateClass(g) PROVE CatalogueTyped' /\ ClerkTyped'
  <2>1. CatalogueTyped'
    BY <1>0, <1>1 DEF CreateClass, CatalogueTyped
  <2> QED BY <1>0, <1>1, <2>1 DEF CreateClass, ClerkTyped
<1>2. ASSUME NEW g \in Groups, DeleteClass(g) PROVE CatalogueTyped' /\ ClerkTyped'
  <2>1. home' \in [Items -> groups' \cup {NoGroup}]
    BY <1>2 DEF DeleteClass, CatalogueTyped
  <2>2. CatalogueTyped'
    BY <1>0, <1>2, <2>1 DEF DeleteClass, CatalogueTyped
  <2> QED BY <1>0, <1>2, <2>2 DEF DeleteClass, ClerkTyped
<1>3. ASSUME NEW i \in Items, Match(i) PROVE CatalogueTyped' /\ ClerkTyped'
  <2>1. shots' \in [Items -> 0..1]
    BY <1>3 DEF Match, CatalogueTyped
  <2>2. CatalogueTyped'
    BY <1>0, <1>3, <2>1 DEF Match, CatalogueTyped
  <2> QED BY <1>0, <1>3, <2>2 DEF Match, ClerkTyped
<1>4. ASSUME NEW t \in Teachers, NEW g \in Groups, Unlink(t, g)
      PROVE  CatalogueTyped' /\ ClerkTyped'
  <2>1. CatalogueTyped'
    BY <1>0, <1>4 DEF Unlink, CatalogueTyped
  <2> QED BY <1>0, <1>4, <2>1 DEF Unlink, ClerkTyped
<1>5. ASSUME UNCHANGED catalogue PROVE CatalogueTyped'
  BY <1>0, <1>5 DEF catalogue, CatalogueTyped
<1>6. ASSUME NEW g \in Groups, NEW S \in SUBSET Students, BeginAssign(g, S)
      PROVE  ClerkTyped' /\ UNCHANGED catalogue
  BY <1>6 DEF BeginAssign, Take, NoTask, ClerkTyped, Clerks, Items
<1>7. ASSUME NEW S \in SUBSET Students, BeginRemove(S) PROVE ClerkTyped' /\ UNCHANGED catalogue
  BY <1>7 DEF BeginRemove, Take, NoTask, ClerkTyped, Clerks, Items
<1>8. ASSUME NEW e \in Events, NEW g \in Groups \cup {NoGroup}, BeginTag(e, g)
      PROVE  ClerkTyped' /\ UNCHANGED catalogue
  BY <1>8 DEF BeginTag, Take, NoTask, ClerkTyped, Clerks, Items
<1>9. ASSUME NEW g \in Groups, NEW T \in SUBSET Teachers, BeginLink(g, T)
      PROVE  ClerkTyped' /\ UNCHANGED catalogue
  BY <1>9 DEF BeginLink, Take, NoTask, ClerkTyped, Clerks
<1>10. ASSUME NEW t \in Teachers, NEW G \in SUBSET Groups, BeginReplace(t, G)
       PROVE  ClerkTyped' /\ UNCHANGED catalogue
  BY <1>0, <1>10 DEF BeginReplace, Take, NoTask, ClerkTyped, Clerks
<1> QED BY <1>1, <1>2, <1>3, <1>4, <1>5, <1>6, <1>7, <1>8, <1>9, <1>10 DEF Changes

LEMMA TasksTyped ==
  ASSUME CatalogueTyped, ClerkTyped, UNCHANGED users, Catalogue, ~(MoreTurns /\ Changes)
  PROVE  CatalogueTyped' /\ ClerkTyped'
<1> USE ItemsAssumption, UsersAssumption
<1>0. /\ \A u : Exists(u)' = Exists(u)
      /\ NoTask \in Clerks /\ NoTask.step = "idle"
  BY DEF Exists, NoTask, Clerks
<1>1. ASSUME UNCHANGED catalogue PROVE CatalogueTyped'
  BY <1>0, <1>1 DEF catalogue, CatalogueTyped
<1>2. ASSUME Finished PROVE ClerkTyped'
  BY <1>0, <1>2 DEF Finished, ClerkTyped
<1>3. CASE AssignStudents
  <2>1. home' \in [Items -> groups \cup {NoGroup}]
    BY <1>3 DEF AssignStudents, CatalogueTyped
  <2> QED BY <1>0, <1>2, <1>3, <2>1 DEF AssignStudents, CatalogueTyped
<1>4. ASSUME NEW s \in Students, RemoveStudent(s) PROVE CatalogueTyped' /\ ClerkTyped'
  <2>1. home' \in [Items -> groups \cup {NoGroup}]
    BY <1>4 DEF RemoveStudent, CatalogueTyped
  <2>2. ClerkTyped'
    <3>1. CASE clerk' = [clerk EXCEPT !.queue = @ \ {s}]
      BY <1>0, <1>4, <3>1 DEF RemoveStudent, ClerkTyped, Clerks
    <3> QED BY <1>2, <1>4, <3>1 DEF RemoveStudent
  <2> QED BY <1>0, <1>4, <2>1, <2>2 DEF RemoveStudent, CatalogueTyped
<1>5. ASSUME NEW e \in Events, TagEvent(e) PROVE CatalogueTyped' /\ ClerkTyped'
  <2>1. home' \in [Items -> groups \cup {NoGroup}]
    BY <1>5 DEF TagEvent, CatalogueTyped, Items
  <2>2. rows' \in [Items -> {"new", "there", "gone"}]
    BY <1>5 DEF TagEvent, CreateEvent, UpdateEvent, CatalogueTyped, Items
  <2> QED BY <1>0, <1>2, <1>5, <2>1, <2>2 DEF TagEvent, CatalogueTyped
<1>6. ASSUME NEW T, T \subseteq clerk.queue, Onwards(T) PROVE ClerkTyped'
  <2>1. CASE clerk' = [clerk EXCEPT !.step = "check", !.queue = T, !.who = NoUser]
    BY <1>6, <2>1 DEF ClerkTyped, Clerks
  <2> QED BY <1>2, <1>6, <2>1 DEF Onwards
<1>7. ASSUME NEW t \in Teachers, CheckTeacher(t) PROVE CatalogueTyped' /\ ClerkTyped'
  <2>1. CASE Exists(t)
    <3>1. /\ clerk' = [clerk EXCEPT !.step = "link", !.queue = @ \ {t}, !.who = t]
          /\ UNCHANGED catalogue
      BY <1>7, <2>1 DEF CheckTeacher
    <3>2. clerk' \in Clerks /\ clerk'.who = t
      BY <3>1 DEF ClerkTyped, Clerks
    <3> QED BY <1>0, <1>1, <2>1, <3>1, <3>2 DEF ClerkTyped
  <2> QED BY <1>1, <1>6, <1>7, <2>1 DEF CheckTeacher
<1>8. CASE LinkTeacher
  <2>1. links' \subseteq {t \in Teachers : Exists(t)} \X groups
    BY <1>8 DEF LinkTeacher, CatalogueTyped, ClerkTyped
  <2>2. ClerkTyped'
    BY <1>2, <1>6, <1>8 DEF LinkTeacher
  <2> QED BY <1>0, <1>8, <2>1, <2>2 DEF LinkTeacher, CatalogueTyped
<1>9. ASSUME NEW g \in Groups, SiftClass(g) PROVE CatalogueTyped' /\ ClerkTyped'
  BY <1>0, <1>1, <1>9 DEF SiftClass, ClerkTyped, Clerks
<1>10. CASE ReplaceLinks
  <2>1. links' \subseteq {t \in Teachers : Exists(t)} \X groups
    BY <1>10 DEF ReplaceLinks, CatalogueTyped, ClerkTyped
  <2> QED BY <1>0, <1>2, <1>10, <2>1 DEF ReplaceLinks, CatalogueTyped
<1> QED BY <1>3, <1>4, <1>5, <1>7, <1>8, <1>9, <1>10 DEF Catalogue

------------------------------------------------------------------------------
(* A list.                                                                 *)

\* What is listed is a finite part of the rows, and its order is that of numbers.
LEMMA ListFinite ==
  ASSUME NEW w
  PROVE  /\ Filtered(w) \subseteq ListRows /\ IsFiniteSet(Filtered(w))
         /\ Total(w) \in Nat
         /\ w.kind \in {"students", "events"} => Filtered(w) \subseteq Items \cap There
<1>1. IsFiniteSet(Items) /\ IsFiniteSet(Teachers)
  BY ItemsAssumption, UsersAssumption
<1>2. IsFiniteSet(ListRows)
  BY <1>1, FS_Union DEF ListRows
<1>3. Filtered(w) \subseteq ListRows
  BY DEF Filtered, TeachersListed, StudentsListed, EventsListed, ListRows, Items
<1>4. w.kind \in {"students", "events"} => Filtered(w) \subseteq Items \cap There
  BY DEF Filtered, StudentsListed, EventsListed, Items
<1> QED BY <1>2, <1>3, <1>4, FS_Subset, FS_CardinalityType DEF Total

LEMMA PartCounted ==
  ASSUME NEW w, NEW S, S \subseteq Filtered(w)
  PROVE  IsFiniteSet(S) /\ Cardinality(S) \in Nat /\ Cardinality(S) <= Total(w)
BY ListFinite, FS_Subset, FS_CardinalityType DEF Total

LEMMA PlaceTyped ==
  ASSUME NEW w, NEW x
  PROVE  Place(w, x) \in Nat
<1>1. {y \in Filtered(w) : Before(w, y, x)} \subseteq Filtered(w)
  OBVIOUS
<1> QED BY <1>1, PartCounted DEF Place

\* The page that is answered.
PageOf(w) ==
  {x \in Filtered(w) : /\ Place(w, x) >= w.page * PageSize
                       /\ Place(w, x) < (w.page + 1) * PageSize}

LEMMA OnePage == \A w : Pages(w) = {PageOf(w)}
BY DEF Pages, PageOf

\* What a look at the list, or a page of it, leaves as it was.
SameList(v, w) ==
  /\ v.kind = w.kind /\ v.sort = w.sort /\ v.down = w.down /\ v.mine = w.mine
  /\ v.step = w.step /\ v.page = w.page /\ v.scope = w.scope /\ v.keys = w.keys
  /\ v.ids = w.ids /\ v.total = w.total /\ v.first = w.first

LEMMA WatchedTyped ==
  ASSUME NEW w \in Walks
  PROVE  /\ Watched(w) \in Walks
         /\ SameList(Watched(w), w) /\ Watched(w).got = w.got /\ Watched(w).shown = w.shown
         /\ Watched(w).loaded = w.loaded
<1> DEFINE n == [x \in ListRows |-> IF x \in Filtered(w) THEN Place(w, x) ELSE w.place[x]]
           F == w.fell \cup {x \in ListRows : x \notin Filtered(w) \/ Place(w, x) < w.place[x]}
           R == w.rose \cup {x \in Filtered(w) : w.place[x] >= 0 /\ Place(w, x) > w.place[x]}
<1>1. Watched(w) = [w EXCEPT !.place = n, !.fell = F, !.rose = R]
  BY DEF Watched, Walks
<1>2. n \in [ListRows -> Int]
  BY PlaceTyped DEF Walks
<1>3. F \in SUBSET ListRows /\ R \in SUBSET ListRows
  BY ListFinite DEF Walks
<1> HIDE DEF n, F, R
<1>4. [w EXCEPT !.place = n, !.fell = F, !.rose = R] \in Walks
  BY <1>2, <1>3 DEF Walks
<1> QED BY <1>1, <1>4 DEF SameList, Walks

LEMMA ShowingTyped ==
  ASSUME NEW w \in Walks, NEW Q, Cardinality(Q) \in Nat
  PROVE  /\ Showing(w, Q) \in Walks
         /\ SameList(Showing(w, Q), w) /\ Showing(w, Q).got = Cardinality(Q)
         /\ Showing(w, Q).loaded = w.loaded + Cardinality(Q)
<1> DEFINE h == [x \in ListRows |-> IF x \in Q /\ w.shown[x] < 2 THEN w.shown[x] + 1
                                    ELSE w.shown[x]]
           l == w.loaded + Cardinality(Q)
<1>1. Showing(w, Q) = [w EXCEPT !.shown = h, !.got = Cardinality(Q), !.loaded = l]
  BY DEF Showing, Walks
<1>2. h \in [ListRows -> 0..2] /\ l \in Nat
  BY DEF Walks
<1> HIDE DEF h
<1>3. [w EXCEPT !.shown = h, !.got = Cardinality(Q), !.loaded = l] \in Walks
  BY <1>2 DEF Walks
<1> QED BY <1>1, <1>3 DEF SameList, Walks

LEMMA NoWalkTyped == NoWalk \in Walks
<1>1. [x \in ListRows |-> 0] \in [ListRows -> Nat] /\ [x \in ListRows |-> 0] \in [ListRows -> 0..2]
      /\ [x \in ListRows |-> -1] \in [ListRows -> Int]
  OBVIOUS
<1> QED BY <1>1 DEF NoWalk, Walks

\* What the first page announced, and when the client stops.
FirstTotal(w) == IF w.page = 0 THEN w.total ELSE w.first
Ends(w) == w.page * PageSize + w.got >= w.total \/ w.loaded >= FirstTotal(w)

LEMMA TurnedTyped ==
  ASSUME NEW w \in Walks, w.sort = "count" => w.kind \in {"students", "events"}
  PROVE  /\ Turned(w) \in Walks
         /\ Turned(w).step \in {"done", "page"}
         /\ Turned(w).sort = "count" => Turned(w).kind \in {"students", "events"}
<1>0. FirstTotal(w) \in Nat
  BY DEF FirstTotal, Walks
<1>1. CASE Ends(w)
  <2>1. PICK b \in SUBSET ListRows : b = {x \in ListRows : w.place[x] >= FirstTotal(w)}
    OBVIOUS
  <2>2. Turned(w) = [NoWalk EXCEPT !.step = "done", !.shown = w.shown, !.fell = w.fell,
                                   !.rose = w.rose, !.beyond = b]
    BY <1>1, <2>1 DEF Turned, Ends, FirstTotal
  <2>3. NoWalk \in Walks /\ NoWalk.sort = "column"
    BY NoWalkTyped DEF NoWalk
  <2>4. w.shown \in [ListRows -> 0..2] /\ w.fell \in SUBSET ListRows /\ w.rose \in SUBSET ListRows
    BY DEF Walks
  <2>5. Turned(w) \in Walks /\ Turned(w).step = "done" /\ Turned(w).sort = "column"
    BY <2>1, <2>2, <2>3, <2>4 DEF Walks
  <2> QED BY <2>5
<1>2. CASE ~Ends(w)
  <2>1. Turned(w) = [w EXCEPT !.step = "page", !.page = w.page + 1, !.first = FirstTotal(w)]
    BY <1>2 DEF Turned, Walks, Ends, FirstTotal
  <2>2. w.page + 1 \in Nat
    BY DEF Walks
  <2> HIDE DEF FirstTotal
  <2> QED BY <1>0, <2>1, <2>2 DEF Walks
<1> QED BY <1>1, <1>2

LEMMA WalksTyped ==
  ASSUME CatalogueTyped, WalkTyped, Walk, turns \in 0..MaxTurns
  PROVE  WalkTyped' /\ turns' \in 0..MaxTurns
<1> USE PageAssumption
<1>0. NoWalk \in Walks /\ NoWalk.step = "idle" /\ NoWalk.sort = "column" /\ walk \in Walks
  BY NoWalkTyped DEF NoWalk, WalkTyped
<1>1. ASSUME MoreTurns, Lists PROVE WalkTyped' /\ turns' \in 0..MaxTurns
  <2>1. ASSUME NEW kind \in {"roster", "students", "events"}, NEW sort \in Sorts,
               NEW down \in BOOLEAN, NEW t \in Teachers \cup {NoUser},
               BeginWalk(kind, sort, down, t), sort = "count" => kind # "roster"
        PROVE  WalkTyped' /\ turns' \in 0..MaxTurns
    <3>1. /\ walk' = [NoWalk EXCEPT !.kind = kind, !.sort = sort, !.down = down, !.mine = t,
                                    !.step = "page"]
          /\ turns' = turns + 1
      BY <2>1 DEF BeginWalk, Turn
    <3>2. walk' \in Walks /\ walk'.kind = kind /\ walk'.sort = sort /\ walk'.step = "page"
      BY <1>0, <3>1 DEF Walks, Sorts
    <3> QED BY <1>1, <2>1, <3>1, <3>2 DEF WalkTyped, MoreTurns
  <2> QED BY <1>1, <2>1, Zenon DEF Lists, ListStaff, ListStudents, ListEvents, Sorts
<1>2. CASE ReadScope
  <2>1. ClassesOf(walk.mine) \subseteq Groups
    BY DEF ClassesOf, CatalogueTyped
  <2>2. PICK sc \in SUBSET Groups : sc = IF walk.mine = NoUser THEN {} ELSE ClassesOf(walk.mine)
    BY <2>1
  <2>3. CASE walk' = NoWalk
    BY <1>0, <1>2, <2>3 DEF ReadScope, WalkTyped
  <2>4. CASE walk' = [walk EXCEPT !.scope = sc,
                                  !.step = IF walk.sort = "count" THEN "counts" ELSE "rows"]
    BY <1>2, <2>4 DEF ReadScope, WalkTyped, Walks
  <2> QED BY <1>2, <2>2, <2>3, <2>4 DEF ReadScope
<1>3. CASE ReadRows
  <2>1. walk' = [Showing(Watched(walk), PageOf(walk)) EXCEPT !.step = "total"]
    BY <1>3, OnePage DEF ReadRows
  <2>2. Cardinality(PageOf(walk)) \in Nat
    BY PartCounted DEF PageOf
  <2>3. Watched(walk) \in Walks /\ SameList(Watched(walk), walk)
    BY <1>0, WatchedTyped
  <2>4. /\ Showing(Watched(walk), PageOf(walk)) \in Walks
        /\ SameList(Showing(Watched(walk), PageOf(walk)), Watched(walk))
    BY <2>2, <2>3, ShowingTyped
  <2> QED BY <1>3, <2>1, <2>3, <2>4 DEF ReadRows, WalkTyped, Walks, SameList
<1>4. CASE ReadTotal
  <2>1. Watched(walk) \in Walks /\ SameList(Watched(walk), walk)
    BY <1>0, WatchedTyped
  <2>2. PICK w : w = [Watched(walk) EXCEPT !.total = Total(walk)]
    OBVIOUS
  <2>3. w \in Walks /\ w.sort = walk.sort /\ w.kind = walk.kind
    BY <2>1, <2>2, ListFinite DEF Walks, WalkTyped, SameList
  <2>4. walk' = Turned(w) /\ turns' = turns
    BY <1>4, <2>2 DEF ReadTotal
  <2> QED BY <2>3, <2>4, TurnedTyped DEF WalkTyped
<1>5. CASE ReadCounts
  <2>1. PICK k \in [ListRows -> Nat] : walk' = [walk EXCEPT !.keys = k, !.step = "ids"]
    <3> DEFINE counts == IF walk.kind = "students" THEN AppearanceCounts ELSE MatchCounts
               k == [x \in ListRows |-> IF x \in DOMAIN counts THEN counts[x] ELSE 0]
    <3>1. k \in [ListRows -> Nat]
      BY DEF AppearanceCounts, MatchCounts, CatalogueTyped, Items
    <3>2. walk' = [walk EXCEPT !.keys = k, !.step = "ids"]
      BY <1>5 DEF ReadCounts
    <3> QED BY <3>1, <3>2
  <2> QED BY <1>5, <2>1 DEF ReadCounts, WalkTyped, Walks
<1>6. CASE ScanIds
  <2>1. walk' = [Watched(walk) EXCEPT !.ids = PageOf(walk), !.total = Total(walk), !.step = "hydrate"]
        /\ turns' = turns /\ walk.step = "ids"
    BY <1>6, OnePage DEF ScanIds
  <2>2. Watched(walk) \in Walks /\ SameList(Watched(walk), walk)
    BY <1>0, WatchedTyped
  <2>3. PageOf(walk) \in SUBSET Items /\ Total(walk) \in Nat
    BY <2>1, ListFinite DEF WalkTyped, PageOf
  <2> QED BY <2>1, <2>2, <2>3 DEF WalkTyped, Walks, SameList
<1>7. CASE Hydrate
  <2>1. Watched(walk) \in Walks /\ SameList(Watched(walk), walk)
    BY <1>0, WatchedTyped
  <2>2. IsFiniteSet(walk.ids) /\ RowsOf(walk.ids) \subseteq walk.ids
    BY ItemsAssumption, FS_Subset DEF WalkTyped, Walks, RowsOf
  <2>3. Cardinality(RowsOf(walk.ids)) \in Nat
    BY <2>2, FS_Subset, FS_CardinalityType
  <2>4. /\ Showing(Watched(walk), RowsOf(walk.ids)) \in Walks
        /\ SameList(Showing(Watched(walk), RowsOf(walk.ids)), Watched(walk))
    BY <2>1, <2>3, ShowingTyped
  <2>5. PICK w : w = [Showing(Watched(walk), RowsOf(walk.ids)) EXCEPT !.ids = {}]
    OBVIOUS
  <2>6. w \in Walks /\ w.sort = walk.sort /\ w.kind = walk.kind
    BY <2>1, <2>4, <2>5 DEF Walks, WalkTyped, SameList
  <2>7. walk' = Turned(w) /\ turns' = turns
    BY <1>7, <2>5 DEF Hydrate
  <2> QED BY <2>6, <2>7, TurnedTyped DEF WalkTyped
<1> QED BY <1>1, <1>2, <1>3, <1>4, <1>5, <1>6, <1>7 DEF Walk

------------------------------------------------------------------------------
(* Batches.                                                                *)

Past == {"write", "erase", "drop", "audit", "class", "assign", "reread"}
Waits == {"profile", "undo"}

\* A batch at work has a row in hand.
LEMMA RowInHand ==
  ASSUME DeskTyped, NEW r \in Requests, AtWork(r)
  PROVE  /\ desk[r] \in Desks /\ Row(r) \in SheetRows /\ Who(r) \in Students
         /\ Row(r).class \in Names \cup {NoName} /\ Row(r).valid \in BOOLEAN
         /\ Key(r) \in Keys /\ Key(r) = <<desk[r].job, Len(desk[r].answers) + 1>>
         /\ Len(desk[r].answers) \in Nat /\ desk[r].job \in 1..jobs /\ desk[r].kind # "none"
         /\ desk[r].list # <<>>
<1>1. desk[r] \in Desks /\ InKind(desk[r]) /\ desk[r].list # <<>> /\ desk[r].job \in 1..jobs
  BY DEF DeskTyped, AtWork, InKind
<1>2. Row(r) \in SheetRows
  BY <1>1 DEF Row, Desks
<1>3. Who(r) \in Students /\ Row(r).class \in Names \cup {NoName} /\ Row(r).valid \in BOOLEAN
  BY <1>2 DEF Who, SheetRows
<1>4. Len(desk[r].answers) \in Nat
  BY <1>1 DEF Desks
<1>5. Key(r) \in Keys
  BY <1>1, <1>4 DEF Key, Keys, DeskTyped, Desks
<1> QED BY <1>1, <1>2, <1>3, <1>4, <1>5 DEF Key, InKind, AtWork, Desks

LEMMA NoBatchIs ==
  /\ NoBatch \in Desks /\ NoBatch.step = "idle" /\ NoBatch.job = 0 /\ NoBatch.kind = "none"
  /\ NoBatch.answers = <<>>
<1>1. [n \in Names |-> NoGroup] \in [Names -> Groups \cup {NoGroup}]
  OBVIOUS
<1>2. 0 \in 0..MaxJobs
  BY OfficeBoundsAssumption
<1> QED BY <1>1, <1>2 DEF NoBatch, Desks

\* The answers with the one that is given now.
AllTold(r, said) == Append(desk[r].answers, [who |-> Who(r), said |-> said, key |-> Key(r)])

\* A row is answered: the batch is done, or goes on to its next row.
Ended(r, b, said) ==
  /\ b \in Desks /\ b.answers = AllTold(r, said)
  /\ \/ /\ b.step = "done" /\ b.job = 0 /\ b.kind = "none"
        /\ handed' = handed \cup {AllTold(r, said)[i].key :
             i \in {i \in DOMAIN AllTold(r, said) : AllTold(r, said)[i].said \in {"created", "sent"}}}
     \/ /\ b.step = FirstStep(b.kind) /\ b.job = desk[r].job /\ b.kind = desk[r].kind
        /\ b.list # <<>> /\ handed' = handed

LEMMA Answering ==
  ASSUME DeskTyped, NEW r \in Requests, AtWork(r), NEW said \in Saids, Answer(r, said)
  PROVE  \E b : Ended(r, b, said) /\ desk' = [desk EXCEPT ![r] = b]
<1> DEFINE a == [who |-> Who(r), said |-> said, key |-> Key(r)]
           all == AllTold(r, said)
<1>0. /\ desk[r] \in Desks /\ Who(r) \in Students /\ Key(r) \in Keys /\ desk[r].list # <<>>
      /\ desk \in [Requests -> Desks]
  BY RowInHand DEF DeskTyped
<1>1. all \in Seq([who : Students, said : Saids, key : Keys])
  <2>1. a \in [who : Students, said : Saids, key : Keys]
    BY <1>0
  <2> HIDE DEF a
  <2>2. Append(desk[r].answers, a) \in Seq([who : Students, said : Saids, key : Keys])
    BY <1>0, <2>1 DEF Desks
  <2> QED BY <2>2 DEF a, AllTold
<1>2. CASE Len(desk[r].list) = 1
  <2>1. PICK b : b = [NoBatch EXCEPT !.step = "done", !.answers = all]
    OBVIOUS
  <2>2. /\ desk' = [desk EXCEPT ![r] = b]
        /\ handed' = handed \cup {all[i].key : i \in {i \in DOMAIN all : all[i].said \in {"created", "sent"}}}
    BY <1>2, <2>1 DEF Answer, AllTold
  <2> HIDE DEF all
  <2>3. b \in Desks /\ b.step = "done" /\ b.job = 0 /\ b.kind = "none" /\ b.answers = all
    BY <1>1, <2>1, NoBatchIs DEF Desks
  <2> QED BY <2>2, <2>3 DEF Ended, all
<1>3. CASE Len(desk[r].list) # 1
  <2>1. PICK b : b = [desk[r] EXCEPT !.list = Tail(desk[r].list), !.answers = all,
                                     !.step = FirstStep(desk[r].kind)]
    OBVIOUS
  <2>2. desk' = [desk EXCEPT ![r] = b] /\ handed' = handed
    BY <1>0, <1>3, <2>1 DEF Answer, AllTold
  <2>3. Tail(desk[r].list) \in Seq(SheetRows) /\ Tail(desk[r].list) # <<>>
    <3>1. desk[r].list \in Seq(SheetRows) /\ Len(desk[r].list) \in Nat
      BY <1>0 DEF Desks
    <3>2. /\ Tail(desk[r].list) \in Seq(SheetRows)
          /\ Len(Tail(desk[r].list)) = Len(desk[r].list) - 1
      BY <1>0, <3>1, HeadTailProperties
    <3>3. Len(desk[r].list) # 0
      BY <1>0, <3>1, EmptySeq
    <3>4. Len(Tail(desk[r].list)) # 0
      BY <1>3, <3>1, <3>2, <3>3
    <3> QED BY <3>2, <3>4, EmptySeq
  <2>4. FirstStep(desk[r].kind) \in {"login", "find"}
    BY DEF FirstStep
  <2> HIDE DEF all
  <2>5. /\ b \in Desks /\ b.step = FirstStep(b.kind) /\ b.job = desk[r].job
        /\ b.kind = desk[r].kind /\ b.list # <<>> /\ b.answers = all
    BY <1>0, <1>1, <2>1, <2>3, <2>4 DEF Desks
  <2> QED BY <2>2, <2>5 DEF Ended, all
<1> QED BY <1>2, <1>3

\* A request that is at a new place, or has none any more.
LEMMA DeskStep ==
  ASSUME DeskTyped, NEW r \in Requests, NEW b \in Desks, desk' = [desk EXCEPT ![r] = b],
         jobs' \in 0..MaxJobs, jobs <= jobs', InKind(b)'
  PROVE  DeskTyped'
<1>1. desk' \in [Requests -> Desks]
  BY DEF DeskTyped
<1>2. ASSUME NEW o \in Requests PROVE InKind(desk[o])'
  <2>1. CASE o = r
    BY <2>1 DEF DeskTyped
  <2>2. CASE o # r
    <3>1. desk'[o] = desk[o] /\ InKind(desk[o]) /\ jobs \in 0..MaxJobs
      BY <2>2 DEF DeskTyped
    <3> QED BY <3>1 DEF InKind
  <2> QED BY <2>1, <2>2
<1> QED BY <1>1, <1>2 DEF DeskTyped

LEMMA EndedInKind ==
  ASSUME DeskTyped, NEW r \in Requests, AtWork(r), NEW said, NEW b, Ended(r, b, said),
         jobs' = jobs
  PROVE  InKind(b)' /\ b \in Desks /\ b.step \in {"done", "login", "find"}
<1>1. desk[r].job \in 1..jobs /\ desk[r].kind # "none" /\ jobs \in 0..MaxJobs
  BY RowInHand DEF DeskTyped
<1>2. b.kind \in {"none", "import", "status", "resend", "delete"}
  BY DEF Ended, Desks
<1> QED BY <1>1, <1>2 DEF Ended, InKind, FirstStep

LEMMA AnswerTyped ==
  ASSUME DeskTyped, NEW r \in Requests, AtWork(r), NEW said \in Saids, Answer(r, said),
         jobs' = jobs
  PROVE  DeskTyped'
<1>1. PICK b : Ended(r, b, said) /\ desk' = [desk EXCEPT ![r] = b]
  BY Answering
<1>2. InKind(b)' /\ b \in Desks
  BY <1>1, EndedInKind
<1>3. jobs' \in 0..MaxJobs /\ jobs <= jobs'
  BY OfficeBoundsAssumption DEF DeskTyped
<1> QED BY <1>1, <1>2, <1>3, DeskStep

\* The same row, at another of its steps.
LEMMA StepIs ==
  ASSUME DeskTyped, NEW r \in Requests, AtWork(r), NEW step \in Past \cup Waits, Step(r, step)
  PROVE  \E b \in Desks :
           /\ desk' = [desk EXCEPT ![r] = b] /\ b.step = step /\ b.kind = desk[r].kind
           /\ b.job = desk[r].job /\ b.list = desk[r].list /\ b.answers = desk[r].answers
           /\ b.active = desk[r].active /\ b.cache = desk[r].cache /\ handed' = handed
<1>1. PICK b : b = [desk[r] EXCEPT !.step = step]
  OBVIOUS
<1>2. desk' = [desk EXCEPT ![r] = b] /\ handed' = handed
  BY <1>1 DEF Step, DeskTyped
<1>3. desk[r] \in Desks
  BY DEF DeskTyped
<1>4. b \in Desks /\ b.step = step
  BY <1>1, <1>3 DEF Desks, Past, Waits
<1> QED BY <1>1, <1>2, <1>3, <1>4 DEF Desks

------------------------------------------------------------------------------
(* Students between login and profile.                                     *)

LEMMA PupilStep ==
  ASSUME PupilsTyped, rows \in [Items -> {"new", "there", "gone"}],
         NEW s \in Students, NEW p \in Pupils \cup {NoRow}, pupils' = [pupils EXCEPT ![s] = p],
         \A i \in Students \ {s} : rows'[i] = rows[i],
         rows'[s] = "there" => p # NoRow,
         rows'[s] = "gone" => p = NoRow,
         p # NoRow /\ p.seen => rows'[s] = "there"
  PROVE  PupilsTyped'
<1>1. pupils' \in [Students -> Pupils \cup {NoRow}]
  BY DEF PupilsTyped
<1>2. ASSUME NEW i \in Students
      PROVE  /\ rows'[i] = "there" => pupils'[i] # NoRow
             /\ rows'[i] = "gone" => pupils'[i] = NoRow
             /\ pupils'[i] # NoRow /\ pupils'[i].seen => rows'[i] = "there"
  <2>1. CASE i = s
    BY <2>1 DEF PupilsTyped
  <2>2. CASE i # s
    BY <2>2 DEF PupilsTyped
  <2> QED BY <2>1, <2>2
<1> QED BY <1>1, <1>2 DEF PupilsTyped

LEMMA HeldStep ==
  ASSUME DeskTyped, RowsHeld, NEW r \in Requests, AtWork(r),
         NEW b \in Desks, desk' = [desk EXCEPT ![r] = b],
         \A i \in Students \ {Who(r)} : rows'[i] = rows[i] /\ pupils'[i] = pupils[i],
         rows[Who(r)] # "new" => rows'[Who(r)] # "new",
         \/ rows'[Who(r)] = rows[Who(r)] /\ pupils'[Who(r)] = pupils[Who(r)]
         \/ rows[Who(r)] # "new" \/ pupils[Who(r)] = NoRow \/ desk[r].step \in Waits,
         b.step \in Past \cup Waits => b.list = desk[r].list,
         b.step \in Past => rows'[Who(r)] # "new",
         b.step \in Waits =>
           /\ rows'[Who(r)] = "new" /\ pupils'[Who(r)] # NoRow /\ pupils'[Who(r)].active
           /\ desk[r].step \in Waits \/ pupils[Who(r)] = NoRow
  PROVE  RowsHeld'
<1>0. desk \in [Requests -> Desks]
  BY DEF DeskTyped
<1>1. ASSUME NEW o \in Requests, o # r
      PROVE  desk'[o] = desk[o] /\ Who(o)' = Who(o)
  BY <1>0, <1>1 DEF Who, Row
<1>2. b.step \in Past \cup Waits => Who(r)' = Who(r)
  BY <1>0 DEF Who, Row
<1>3. desk'[r] = b
  BY <1>0
<1>4. ASSUME NEW o \in Requests, o # r, desk[o].step \in Past \cup Waits
      PROVE  Who(o) \in Students
  BY <1>4, RowInHand DEF AtWork, Past, Waits
<1>5. ASSUME NEW o \in Requests, desk'[o].step \in Waits
      PROVE  rows'[Who(o)'] = "new" /\ pupils'[Who(o)'] # NoRow /\ pupils'[Who(o)'].active
  <2>1. CASE o = r
    BY <1>2, <1>3, <1>5, <2>1
  <2>2. CASE o # r
    <3>1. /\ Who(o) \in Students /\ rows[Who(o)] = "new" /\ pupils[Who(o)] # NoRow
          /\ pupils[Who(o)].active /\ desk[o].step \in Waits
      BY <1>1, <1>4, <1>5, <2>2 DEF RowsHeld, Waits
    <3>2. CASE Who(o) # Who(r)
      BY <1>1, <2>2, <3>1, <3>2
    <3>3. CASE Who(o) = Who(r)
      <4>1. desk[r].step \notin Waits
        BY <2>2, <3>1, <3>3 DEF RowsHeld, Waits
      <4> QED BY <1>1, <2>2, <3>1, <3>3, <4>1
    <3> QED BY <3>2, <3>3
  <2> QED BY <2>1, <2>2
<1>6. ASSUME NEW o \in Requests, desk'[o].step \in Past PROVE rows'[Who(o)'] # "new"
  <2>1. CASE o = r
    BY <1>2, <1>3, <1>6, <2>1
  <2>2. CASE o # r
    <3>1. Who(o) \in Students /\ rows[Who(o)] # "new"
      BY <1>1, <1>4, <1>6, <2>2 DEF RowsHeld, Past
    <3> QED BY <1>1, <2>2, <3>1
  <2> QED BY <2>1, <2>2
<1>7. ASSUME NEW o \in Requests, desk'[o].step \in Waits, o # r, desk'[r].step \in Waits,
             Who(o)' = Who(r)'
      PROVE  FALSE
  <2>1. desk[o].step \in Waits /\ Who(o) = Who(r) /\ pupils[Who(o)] # NoRow
    BY <1>1, <1>2, <1>3, <1>7 DEF RowsHeld, Waits
  <2>2. desk[r].step \in Waits
    BY <1>3, <1>7, <2>1
  <2> QED BY <1>7, <2>1, <2>2 DEF RowsHeld, Waits
<1>8. ASSUME NEW o \in Requests, NEW q \in Requests, desk'[o].step \in Waits,
             desk'[q].step \in Waits, Who(o)' = Who(q)'
      PROVE  o = q
  <2>1. CASE o = r \/ q = r
    BY <1>7, <1>8, <2>1
  <2>2. CASE o # r /\ q # r
    BY <1>1, <1>8, <2>2 DEF RowsHeld, Waits
  <2> QED BY <2>1, <2>2
<1> QED BY <1>5, <1>6, <1>8 DEF RowsHeld, Past, Waits

\* A row that is answered holds nothing.
LEMMA AnswerHeld ==
  ASSUME DeskTyped, RowsHeld, NEW r \in Requests, AtWork(r), NEW said \in Saids,
         Answer(r, said), jobs' = jobs,
         \A i \in Students \ {Who(r)} : rows'[i] = rows[i] /\ pupils'[i] = pupils[i],
         rows[Who(r)] # "new" => rows'[Who(r)] # "new",
         \/ rows'[Who(r)] = rows[Who(r)] /\ pupils'[Who(r)] = pupils[Who(r)]
         \/ rows[Who(r)] # "new" \/ desk[r].step \in Waits
  PROVE  DeskTyped' /\ RowsHeld'
<1>1. PICK b : Ended(r, b, said) /\ desk' = [desk EXCEPT ![r] = b]
  BY Answering
<1>2. b \in Desks /\ b.step \notin Past \cup Waits
  BY <1>1, EndedInKind DEF Past, Waits
<1>3. RowsHeld'
  BY <1>1, <1>2, HeldStep
<1> QED BY <1>3, AnswerTyped

\* A row that goes on to another of its steps.
LEMMA StepHeld ==
  ASSUME DeskTyped, RowsHeld, NEW r \in Requests, AtWork(r), NEW step \in Past \cup Waits,
         Step(r, step), jobs' = jobs,
         step \in Waits \cup {"class", "assign"} => desk[r].kind = "import",
         step = "write" => desk[r].kind \in {"status", "resend"},
         step = "reread" => desk[r].kind = "status",
         step \in {"erase", "drop"} => desk[r].kind = "delete",
         \A i \in Students \ {Who(r)} : rows'[i] = rows[i] /\ pupils'[i] = pupils[i],
         rows[Who(r)] # "new" => rows'[Who(r)] # "new",
         \/ rows'[Who(r)] = rows[Who(r)] /\ pupils'[Who(r)] = pupils[Who(r)]
         \/ rows[Who(r)] # "new" \/ pupils[Who(r)] = NoRow \/ desk[r].step \in Waits,
         step \in Past => rows'[Who(r)] # "new",
         step \in Waits =>
           /\ rows'[Who(r)] = "new" /\ pupils'[Who(r)] # NoRow /\ pupils'[Who(r)].active
           /\ desk[r].step \in Waits \/ pupils[Who(r)] = NoRow
  PROVE  DeskTyped' /\ RowsHeld'
<1>1. PICK b \in Desks :
        /\ desk' = [desk EXCEPT ![r] = b] /\ b.step = step /\ b.kind = desk[r].kind
        /\ b.job = desk[r].job /\ b.list = desk[r].list
  BY StepIs
<1>2. desk[r].job \in 1..jobs /\ desk[r].kind # "none" /\ desk[r].list # <<>>
  BY RowInHand
<1>3. InKind(b)'
  BY <1>1, <1>2 DEF InKind, Past, Waits
<1>4. jobs' \in 0..MaxJobs /\ jobs <= jobs'
  BY OfficeBoundsAssumption DEF DeskTyped
<1>5. DeskTyped'
  BY <1>1, <1>3, <1>4, DeskStep
<1>6. RowsHeld'
  BY <1>1, HeldStep
<1> QED BY <1>5, <1>6

------------------------------------------------------------------------------
(* What each step of a batch does to rows, logins and requests.            *)

Batched == DeskTyped /\ PupilsTyped /\ RowsHeld

\* Nothing happens to a student.
LEMMA QuietlyAnswered ==
  ASSUME Batched, NEW r \in Requests, AtWork(r), NEW said \in Saids, Answer(r, said),
         jobs' = jobs, rows' = rows, pupils' = pupils
  PROVE  Batched'
<1>1. PupilsTyped'
  BY DEF Batched, PupilsTyped
<1>2. DeskTyped' /\ RowsHeld'
  BY AnswerHeld DEF Batched
<1> QED BY <1>1, <1>2 DEF Batched

LEMMA QuietlyStepped ==
  ASSUME Batched, NEW r \in Requests, AtWork(r), NEW step \in Past, Step(r, step),
         step \in {"class", "assign"} => desk[r].kind = "import",
         step = "write" => desk[r].kind \in {"status", "resend"},
         step = "reread" => desk[r].kind = "status",
         step \in {"erase", "drop"} => desk[r].kind = "delete",
         rows[Who(r)] # "new", jobs' = jobs, rows' = rows, pupils' = pupils
  PROVE  Batched'
<1>1. PupilsTyped'
  BY DEF Batched, PupilsTyped
<1>2. step \notin Waits
  BY DEF Past, Waits
<1>3. DeskTyped' /\ RowsHeld'
  BY <1>2, StepHeld DEF Batched
<1> QED BY <1>1, <1>3 DEF Batched

LEMMA BreakBatched ==
  ASSUME Batched, NEW r \in Requests, AtWork(r), Break(r)
  PROVE  Batched'
<1>1. /\ desk' = [desk EXCEPT ![r] = NoBatch] /\ UNCHANGED <<rows, pupils, jobs>>
      /\ NoBatch \in Desks /\ NoBatch.step \notin Past \cup Waits /\ InKind(NoBatch)'
  BY NoBatchIs DEF Break, catalogue, InKind, Past, Waits
<1>2. jobs' \in 0..MaxJobs /\ jobs <= jobs'
  BY <1>1, OfficeBoundsAssumption DEF DeskTyped, Batched
<1>3. DeskTyped'
  BY <1>1, <1>2, DeskStep DEF Batched
<1>4. RowsHeld'
  BY <1>1, HeldStep DEF Batched
<1> QED BY <1>1, <1>3, <1>4 DEF Batched, PupilsTyped

LEMMA AuditBatched ==
  ASSUME Batched, NEW r \in Requests, AtWork(r), Audit(r)
  PROVE  Batched'
<1>1. /\ rows[Who(r)] # "new" /\ UNCHANGED <<rows, pupils, jobs>>
      /\ "class" \in Past /\ "reread" \in Past
      /\ {"created", "sent", "ok"} \subseteq Saids
  BY DEF Audit, catalogue, Batched, RowsHeld, At, Past, Saids
<1>2. CASE Step(r, "class") /\ desk[r].kind = "import"
  BY <1>1, <1>2, QuietlyStepped
<1>3. CASE Step(r, "reread") /\ desk[r].kind = "status"
  BY <1>1, <1>3, QuietlyStepped
<1>4. CASE Answer(r, "created") \/ Answer(r, "sent") \/ Answer(r, "ok")
  BY <1>1, <1>4, QuietlyAnswered
<1> QED BY <1>2, <1>3, <1>4 DEF Audit

LEMMA LoginBatched ==
  ASSUME Batched, rows \in [Items -> {"new", "there", "gone"}],
         NEW r \in Requests, AtWork(r), CreateLogin(r)
  PROVE  Batched'
<1>1. UNCHANGED <<rows, jobs>> /\ {"invalid", "duplicate"} \subseteq Saids
  BY DEF CreateLogin, catalogue, Saids
<1>2. CASE ~Row(r).valid \/ pupils[Who(r)] # NoRow
  BY <1>1, <1>2, QuietlyAnswered DEF CreateLogin
<1>3. CASE Row(r).valid /\ pupils[Who(r)] = NoRow
  <2>1. Who(r) \in Students /\ Key(r) \in Keys
    BY RowInHand DEF Batched
  <2>2. PICK p \in Pupils : p = [active |-> TRUE, pw |-> Key(r), seen |-> FALSE]
    BY <2>1 DEF Pupils
  <2>3. pupils' = [pupils EXCEPT ![Who(r)] = p] /\ Step(r, "profile")
    BY <1>3, <2>2 DEF CreateLogin
  <2>4. rows[Who(r)] = "new"
    BY <1>3, <2>1 DEF CreateLogin, Batched, PupilsTyped, Items
  <2>5. p # NoRow /\ p.active /\ ~p.seen
    BY <2>2, NoPupilAssumption
  <2>6. PupilsTyped'
    <3>1. \A i \in Students \ {Who(r)} : rows'[i] = rows[i]
      BY <1>1
    <3>2. rows'[Who(r)] = "new"
      BY <1>1, <2>4
    <3> QED BY <2>1, <2>3, <2>5, <3>1, <3>2, PupilStep DEF Batched
  <2>7. /\ pupils'[Who(r)] = p
        /\ \A i \in Students \ {Who(r)} : rows'[i] = rows[i] /\ pupils'[i] = pupils[i]
    BY <1>1, <2>1, <2>3 DEF Batched, PupilsTyped
  <2>8. desk[r].kind = "import" /\ "profile" \in Waits /\ "profile" \notin Past
    BY DEF CreateLogin, At, Batched, DeskTyped, InKind, Waits, Past
  <2>9. DeskTyped' /\ RowsHeld'
    BY <1>1, <1>3, <2>3, <2>4, <2>5, <2>7, <2>8, StepHeld DEF Batched
  <2> QED BY <2>6, <2>9 DEF Batched
<1> QED BY <1>2, <1>3

LEMMA ProfileBatched ==
  ASSUME Batched, rows \in [Items -> {"new", "there", "gone"}],
         NEW r \in Requests, AtWork(r), CreateProfile(r)
  PROVE  Batched'
<1>1. UNCHANGED <<pupils, jobs>>
  BY DEF CreateProfile
<1>2. /\ rows[Who(r)] = "new" /\ pupils[Who(r)] # NoRow /\ pupils[Who(r)].active
      /\ desk[r].step \in Waits /\ desk[r].kind = "import" /\ Who(r) \in Students
  <2>1. desk[r].step = "profile"
    BY DEF CreateProfile, At
  <2>2. rows[Who(r)] = "new" /\ pupils[Who(r)] # NoRow /\ pupils[Who(r)].active
    BY <2>1 DEF Batched, RowsHeld
  <2>3. desk[r].kind = "import"
    BY <2>1 DEF Batched, DeskTyped, InKind
  <2> QED BY <2>1, <2>2, <2>3, RowInHand DEF Waits, Batched
<1>3. CASE rows' = [rows EXCEPT ![Who(r)] = "there"] /\ Step(r, "audit")
  <2>1. /\ rows'[Who(r)] = "there"
        /\ \A i \in Students \ {Who(r)} : rows'[i] = rows[i] /\ pupils'[i] = pupils[i]
    BY <1>1, <1>2, <1>3 DEF Items
  <2>2. PupilsTyped'
    <3>1. pupils' = [pupils EXCEPT ![Who(r)] = pupils[Who(r)]]
      BY <1>1 DEF Batched, PupilsTyped
    <3>2. pupils[Who(r)] \in Pupils \cup {NoRow}
      BY <1>2 DEF Batched, PupilsTyped
    <3> QED BY <1>2, <2>1, <3>1, <3>2, PupilStep DEF Batched
  <2>3. "audit" \in Past /\ "audit" \notin Waits
    BY DEF Past, Waits
  <2>4. DeskTyped' /\ RowsHeld'
    BY <1>1, <1>2, <1>3, <2>1, <2>3, StepHeld DEF Batched
  <2> QED BY <2>2, <2>4 DEF Batched
<1>4. CASE rows' = rows /\ Step(r, "undo")
  <2>1. PupilsTyped'
    BY <1>1, <1>4 DEF Batched, PupilsTyped
  <2>2. "undo" \in Waits /\ "undo" \notin Past
    BY DEF Past, Waits
  <2>3. DeskTyped' /\ RowsHeld'
    BY <1>1, <1>2, <1>4, <2>2, StepHeld DEF Batched
  <2> QED BY <2>1, <2>3 DEF Batched
<1> QED BY <1>3, <1>4 DEF CreateProfile

LEMMA UndoBatched ==
  ASSUME Batched, NEW r \in Requests, AtWork(r), UndoLogin(r)
  PROVE  Batched'
<1>1. UNCHANGED <<rows, jobs>> /\ "error" \in Saids /\ Answer(r, "error")
  BY DEF UndoLogin, catalogue, Saids
<1>2. CASE pupils' = pupils
  BY <1>1, <1>2, QuietlyAnswered
<1>3. CASE pupils' = [pupils EXCEPT ![Who(r)] = NoRow]
  <2>1. desk[r].step \in Waits /\ rows[Who(r)] = "new" /\ Who(r) \in Students
    <3>1. desk[r].step = "undo"
      BY DEF UndoLogin, At
    <3> QED BY <3>1, RowInHand DEF Batched, RowsHeld, Waits
  <2>2. \A i \in Students \ {Who(r)} : rows'[i] = rows[i] /\ pupils'[i] = pupils[i]
    BY <1>1, <1>3 DEF Batched, PupilsTyped
  <2>3. PupilsTyped'
    BY <1>1, <1>3, <2>1 DEF Batched, PupilsTyped
  <2>4. DeskTyped' /\ RowsHeld'
    BY <1>1, <2>1, <2>2, AnswerHeld DEF Batched
  <2> QED BY <2>3, <2>4 DEF Batched
<1> QED BY <1>2, <1>3 DEF UndoLogin

LEMMA ResolveBatched ==
  ASSUME Batched, NEW r \in Requests, AtWork(r), ResolveClass(r)
  PROVE  Batched'
<1>1. /\ UNCHANGED <<rows, pupils, jobs>> /\ "created" \in Saids /\ "assign" \in Past
      /\ "assign" \notin Waits
  BY DEF ResolveClass, Saids, Past, Waits
<1>2. rows[Who(r)] # "new" /\ desk[r].kind = "import" /\ desk[r] \in Desks
      /\ desk[r].job \in 1..jobs /\ desk[r].list # <<>>
  <2>1. desk[r].step = "class"
    BY DEF ResolveClass, At
  <2> QED BY <2>1, RowInHand DEF Batched, RowsHeld, DeskTyped, InKind
<1>3. CASE Step(r, "assign")
  BY <1>1, <1>2, <1>3, QuietlyStepped
<1>4. CASE Answer(r, "created")
  BY <1>1, <1>4, QuietlyAnswered
<1>5. ASSUME NEW g \in Groups,
             desk' = [desk EXCEPT ![r].cache[Row(r).class] = g, ![r].step = "assign"]
      PROVE  Batched'
  <2>1. PICK c \in [Names -> Groups \cup {NoGroup}] : c = [desk[r].cache EXCEPT ![Row(r).class] = g]
    BY <1>2 DEF Desks
  <2>2. PICK b : b = [desk[r] EXCEPT !.cache = c, !.step = "assign"]
    OBVIOUS
  <2>3. desk' = [desk EXCEPT ![r] = b]
    <3>1. desk \in [Requests -> Desks]
      BY DEF Batched, DeskTyped
    <3> QED BY <1>5, <2>1, <2>2, <3>1 DEF Desks
  <2>4. /\ b \in Desks /\ b.step = "assign" /\ b.kind = desk[r].kind /\ b.job = desk[r].job
        /\ b.list = desk[r].list
    BY <1>2, <2>1, <2>2 DEF Desks
  <2>5. InKind(b)'
    BY <1>1, <1>2, <2>4 DEF InKind
  <2>6. jobs' \in 0..MaxJobs /\ jobs <= jobs'
    BY <1>1, OfficeBoundsAssumption DEF DeskTyped, Batched
  <2>7. DeskTyped'
    BY <2>3, <2>4, <2>5, <2>6, DeskStep DEF Batched
  <2>8. RowsHeld'
    BY <1>1, <1>2, <2>3, <2>4, HeldStep DEF Batched
  <2> QED BY <1>1, <2>7, <2>8 DEF Batched, PupilsTyped
<1> QED BY <1>3, <1>4, <1>5 DEF ResolveClass

LEMMA FindBatched ==
  ASSUME Batched, NEW r \in Requests, AtWork(r), FindStudent(r)
  PROVE  Batched'
<1>1. /\ UNCHANGED <<rows, pupils, jobs>> /\ "error" \in Saids
      /\ {"erase", "reread", "write"} \subseteq Past
  BY DEF FindStudent, catalogue, Saids, Past
<1>2. desk[r].kind \in {"status", "resend", "delete"}
  <2>1. desk[r].step = "find" /\ desk[r] \in Desks
    BY RowInHand DEF FindStudent, At, Batched
  <2> QED BY <2>1 DEF Batched, DeskTyped, InKind, Desks
<1>3. CASE rows[Who(r)] # "there"
  BY <1>1, <1>3, QuietlyAnswered DEF FindStudent
<1>4. CASE rows[Who(r)] = "there"
  <2>1. CASE Step(r, "erase") /\ desk[r].kind = "delete"
    BY <1>1, <1>4, <2>1, QuietlyStepped
  <2>2. CASE Step(r, "reread") /\ desk[r].kind = "status"
    BY <1>1, <1>4, <2>2, QuietlyStepped
  <2>3. CASE Step(r, "write") /\ desk[r].kind # "delete"
    BY <1>1, <1>2, <1>4, <2>3, QuietlyStepped
  <2> QED BY <1>4, <2>1, <2>2, <2>3 DEF FindStudent
<1> QED BY <1>3, <1>4

\* A login that is written.
LEMMA WriteBatched ==
  ASSUME Batched, NEW r \in Requests, AtWork(r), At(r, "write"), NEW step \in {"audit", "reread"},
         desk[r].kind = "status" \/ step = "audit",
         NEW p \in Pupils, p.seen = pupils[Who(r)].seen, pupils[Who(r)] # NoRow,
         pupils' = [pupils EXCEPT ![Who(r)] = p], Step(r, step), UNCHANGED <<rows, jobs>>
  PROVE  Batched'
<1>1. rows[Who(r)] # "new" /\ Who(r) \in Students
  BY RowInHand DEF Batched, RowsHeld, At
<1>2. p # NoRow
  BY NoPupilAssumption
<1>3. \A i \in Students \ {Who(r)} : rows'[i] = rows[i] /\ pupils'[i] = pupils[i]
  BY DEF Batched, PupilsTyped
<1>4. PupilsTyped'
  BY <1>1, <1>2 DEF Batched, PupilsTyped
<1>5. step \in Past /\ step \notin Waits
  BY DEF Past, Waits
<1>6. DeskTyped' /\ RowsHeld'
  BY <1>1, <1>3, <1>5, StepHeld DEF Batched
<1> QED BY <1>4, <1>6 DEF Batched

LEMMA StatusBatched ==
  ASSUME Batched, NEW r \in Requests, AtWork(r), WriteStatus(r) \/ WritePassword(r)
  PROVE  Batched'
<1>1. UNCHANGED <<rows, jobs>> /\ "error" \in Saids /\ At(r, "write")
  BY DEF WriteStatus, WritePassword, catalogue, Saids
<1>2. CASE pupils[Who(r)] = NoRow
  BY <1>1, <1>2, QuietlyAnswered DEF WriteStatus, WritePassword
<1>3. CASE pupils[Who(r)] # NoRow
  <2>1. pupils[Who(r)] \in Pupils /\ Key(r) \in Keys /\ desk[r].active \in BOOLEAN
        /\ pupils \in [Students -> Pupils \cup {NoRow}]
    BY <1>3, RowInHand DEF Batched, PupilsTyped, Desks
  <2>2. CASE WriteStatus(r)
    <3>1. PICK p : p = [pupils[Who(r)] EXCEPT !.active = desk[r].active]
      OBVIOUS
    <3>2. p \in Pupils /\ p.seen = pupils[Who(r)].seen
      BY <2>1, <3>1 DEF Pupils
    <3>3. pupils' = [pupils EXCEPT ![Who(r)] = p] /\ Step(r, "audit")
      BY <1>3, <2>1, <2>2, <3>1 DEF WriteStatus
    <3> QED BY <1>1, <1>3, <3>2, <3>3, WriteBatched
  <2>3. CASE WritePassword(r)
    <3>1. PICK p : p = [pupils[Who(r)] EXCEPT !.pw = Key(r)]
      OBVIOUS
    <3>2. p \in Pupils /\ p.seen = pupils[Who(r)].seen
      BY <2>1, <3>1 DEF Pupils
    <3>3. pupils' = [pupils EXCEPT ![Who(r)] = p] /\ Step(r, "audit")
      BY <1>3, <2>1, <2>3, <3>1 DEF WritePassword
    <3> QED BY <1>1, <1>3, <3>2, <3>3, WriteBatched
  <2> QED BY <2>2, <2>3
<1> QED BY <1>2, <1>3

LEMMA DropBatched ==
  ASSUME Batched, rows \in [Items -> {"new", "there", "gone"}],
         NEW r \in Requests, AtWork(r), Drop(r)
  PROVE  Batched'
<1>1. /\ jobs' = jobs /\ Who(r) \in Students /\ rows[Who(r)] # "new"
      /\ pupils' = [pupils EXCEPT ![Who(r)] = NoRow]
      /\ rows' = [rows EXCEPT ![Who(r)] = "gone"] /\ Step(r, "audit")
  BY RowInHand DEF Drop, Batched, RowsHeld, At
<1>2. /\ \A i \in Students \ {Who(r)} : rows'[i] = rows[i] /\ pupils'[i] = pupils[i]
      /\ rows'[Who(r)] = "gone" /\ pupils'[Who(r)] = NoRow
  BY <1>1 DEF Batched, PupilsTyped, Items
<1>3. PupilsTyped'
  BY <1>1, <1>2, PupilStep DEF Batched
<1>4. "audit" \in Past /\ "audit" \notin Waits
  BY DEF Past, Waits
<1>5. DeskTyped' /\ RowsHeld'
  BY <1>1, <1>2, <1>4, StepHeld DEF Batched
<1> QED BY <1>3, <1>5 DEF Batched

\* Whatever a batch does.
LEMMA WorksBatched ==
  ASSUME Batched, rows \in [Items -> {"new", "there", "gone"}],
         NEW r \in Requests, AtWork(r), Works(r)
  PROVE  Batched'
<1>0. {"error", "created", "ok"} \subseteq Saids /\ "drop" \in Past
  BY DEF Saids, Past
<1>1. CASE FailRow(r)
  BY <1>0, <1>1, QuietlyAnswered DEF FailRow, catalogue
<1>2. CASE AssignClass(r)
  BY <1>0, <1>2, QuietlyAnswered DEF AssignClass
<1>3. CASE Reread(r)
  BY <1>0, <1>3, QuietlyAnswered DEF Reread, catalogue
<1>4. CASE Erase(r)
  <2>1. rows[Who(r)] # "new" /\ desk[r].kind = "delete"
    BY <1>4 DEF Erase, At, Batched, RowsHeld, DeskTyped, InKind
  <2> QED BY <1>0, <1>4, <2>1, QuietlyStepped DEF Erase, catalogue
<1> QED
  BY <1>1, <1>2, <1>3, <1>4, BreakBatched, AuditBatched, LoginBatched, ProfileBatched, UndoBatched,
     ResolveBatched, FindBatched, StatusBatched, DropBatched DEF Works

------------------------------------------------------------------------------
(* The rest of the office.                                                 *)

\* Rows come and go one way; who was there is not new again.
Forth ==
  /\ \A i \in Items : rows[i] # "new" => rows'[i] # "new"
  /\ \A i \in Items : rows[i] = "gone" => rows'[i] = "gone"

LEMMA WorksCatalogue ==
  ASSUME CatalogueTyped, Batched, UNCHANGED users, NEW r \in Requests, AtWork(r), Works(r)
  PROVE  CatalogueTyped' /\ Forth
<1>0. /\ Who(r) \in Students /\ Students \subseteq Items /\ \A u : Exists(u)' = Exists(u)
      /\ rows \in [Items -> {"new", "there", "gone"}]
  BY RowInHand DEF Batched, Items, Exists, CatalogueTyped
<1>1. ASSUME UNCHANGED catalogue PROVE CatalogueTyped' /\ Forth
  BY <1>0, <1>1 DEF catalogue, CatalogueTyped, Forth
<1>2. ASSUME CreateProfile(r), ~UNCHANGED catalogue PROVE CatalogueTyped' /\ Forth
  <2>1. rows' = [rows EXCEPT ![Who(r)] = "there"] /\ UNCHANGED <<groups, home, links, shots>>
    BY <1>2 DEF CreateProfile, catalogue
  <2>2. rows[Who(r)] = "new"
    BY <1>2 DEF CreateProfile, At, Batched, RowsHeld
  <2>3. rows' \in [Items -> {"new", "there", "gone"}]
    BY <1>0, <2>1
  <2> QED BY <1>0, <2>1, <2>2, <2>3 DEF CatalogueTyped, Forth
<1>3. ASSUME ResolveClass(r), ~UNCHANGED catalogue PROVE CatalogueTyped' /\ Forth
  <2>1. PICK g \in Groups \ groups : groups' = groups \cup {g}
    BY <1>3 DEF ResolveClass, catalogue
  <2>2. UNCHANGED <<rows, home, links, shots>>
    BY <1>3 DEF ResolveClass
  <2> QED BY <1>0, <2>1, <2>2 DEF CatalogueTyped, Forth
<1>4. ASSUME AssignClass(r), ~UNCHANGED catalogue PROVE CatalogueTyped' /\ Forth
  <2>1. PICK g \in groups : home' = [home EXCEPT ![Who(r)] = g]
    BY <1>4 DEF AssignClass, catalogue
  <2>2. UNCHANGED <<groups, rows, links, shots>>
    BY <1>4 DEF AssignClass
  <2>3. home' \in [Items -> groups \cup {NoGroup}]
    BY <1>0, <2>1 DEF CatalogueTyped
  <2> QED BY <1>0, <2>2, <2>3 DEF CatalogueTyped, Forth
<1>5. ASSUME Drop(r) PROVE CatalogueTyped' /\ Forth
  <2>1. /\ rows' = [rows EXCEPT ![Who(r)] = "gone"] /\ home' = [home EXCEPT ![Who(r)] = NoGroup]
        /\ UNCHANGED <<groups, links, shots>>
    BY <1>5 DEF Drop
  <2>2. home' \in [Items -> groups \cup {NoGroup}] /\ rows' \in [Items -> {"new", "there", "gone"}]
    BY <1>0, <2>1 DEF CatalogueTyped
  <2> QED BY <1>0, <2>1, <2>2 DEF CatalogueTyped, Forth
<1> QED
  BY <1>1, <1>2, <1>3, <1>4, <1>5 DEF Works, FailRow, Break, Audit, CreateLogin, UndoLogin,
     FindStudent, WriteStatus, Reread, WritePassword, Erase

\* The logs are added to; of downloads whose a deleted student's are is forgotten.
LEMMA LogsKept ==
  ASSUME LogsTyped, Forth, rows \in [Items -> {"new", "there", "gone"}],
         UNCHANGED <<trail, saves, scroll>>, Enrolled \subseteq Enrolled'
  PROVE  LogsTyped'
<1>1. \A i \in DOMAIN trail : trail[i] \in TrailRows
  BY DEF LogsTyped
<1>2. \A i \in DOMAIN trail : trail[i].who \in Items
  BY <1>1 DEF TrailRows, Items
<1> QED BY <1>2 DEF LogsTyped, Forth

LEMMA TrailGrows ==
  ASSUME LogsTyped, Forth, NEW e \in TrailRows, rows'[e.who] # "new",
         trail' = Append(trail, e)
  PROVE  trail' \in Seq(TrailRows) /\ \A i \in DOMAIN trail' : rows'[trail'[i].who] # "new"
<1>1. trail \in Seq(TrailRows) /\ Len(trail) \in Nat
  BY DEF LogsTyped
<1>2. trail' \in Seq(TrailRows)
  BY <1>1
<1>3. ASSUME NEW i \in DOMAIN trail' PROVE rows'[trail'[i].who] # "new"
  <2>1. CASE i = Len(trail) + 1
    BY <1>1, <2>1
  <2>2. CASE i # Len(trail) + 1
    <3>1. i \in DOMAIN trail /\ trail'[i] = trail[i] /\ trail[i] \in TrailRows
      BY <1>1, <1>3, <2>2
    <3>2. trail[i].who \in Items
      BY <3>1 DEF TrailRows, Items
    <3> QED BY <3>1, <3>2 DEF LogsTyped, Forth
  <2> QED BY <2>1, <2>2
<1> QED BY <1>2, <1>3

LEMMA SavesForget ==
  ASSUME LogsTyped, rows \in [Items -> {"new", "there", "gone"}],
         NEW s \in Students, rows' = [rows EXCEPT ![s] = "gone"],
         saves' = [i \in DOMAIN saves |-> IF saves[i] = s THEN NoUser ELSE saves[i]]
  PROVE  saves' \in Seq(Students \cup {NoUser}) /\ \A i \in DOMAIN saves' : saves'[i] \in Enrolled' \cup {NoUser}
<1>1. saves \in Seq(Students \cup {NoUser}) /\ Len(saves) \in Nat /\ DOMAIN saves = 1..Len(saves)
  BY DEF LogsTyped
<1>2. \A i \in DOMAIN saves : saves'[i] \in Students \cup {NoUser}
  BY <1>1
<1>3. saves' \in Seq(Students \cup {NoUser})
  <2>1. saves' \in [1..Len(saves) -> Students \cup {NoUser}]
    BY <1>1, <1>2
  <2> QED BY <1>1, <2>1
<1>4. ASSUME NEW i \in DOMAIN saves' PROVE saves'[i] \in Enrolled' \cup {NoUser}
  BY DEF LogsTyped, Enrolled, Items
<1> QED BY <1>3, <1>4

LEMMA WorksLogs ==
  ASSUME CatalogueTyped, Batched, LogsTyped, UNCHANGED users, NEW r \in Requests, AtWork(r),
         Works(r)
  PROVE  LogsTyped'
<1>0. /\ Who(r) \in Students /\ Students \subseteq Items
      /\ rows \in [Items -> {"new", "there", "gone"}] /\ Forth
  BY RowInHand, WorksCatalogue DEF Batched, Items, CatalogueTyped
<1>1. ASSUME UNCHANGED <<trail, saves, scroll>>, UNCHANGED rows PROVE LogsTyped'
  BY <1>0, <1>1, LogsKept DEF Enrolled
<1>2. ASSUME CreateProfile(r) PROVE LogsTyped'
  <2>1. UNCHANGED <<trail, saves, scroll>>
    BY <1>2 DEF CreateProfile
  <2>2. Enrolled \subseteq Enrolled'
    BY <1>0, <1>2 DEF CreateProfile, Enrolled
  <2> QED BY <1>0, <2>1, <2>2, LogsKept
<1>3. ASSUME Audit(r), trail' # trail PROVE LogsTyped'
  <2>1. /\ trail' = Entered(r) /\ UNCHANGED <<rows, saves, scroll>> /\ rows[Who(r)] # "new"
    BY <1>3 DEF Audit, catalogue, At, Batched, RowsHeld
  <2>2. PICK e \in TrailRows : e = [what |-> What(r), who |-> Who(r)]
    <3>1. What(r) \in {"created", "enabled", "disabled", "resent", "deleted"}
      BY DEF What
    <3>2. [what |-> What(r), who |-> Who(r)] \in TrailRows
      BY <1>0, <3>1 DEF TrailRows
    <3> QED BY <3>2
  <2>3. trail' = Append(trail, e) /\ e.who = Who(r)
    BY <2>1, <2>2 DEF Entered
  <2>4. trail' \in Seq(TrailRows) /\ \A i \in DOMAIN trail' : rows'[trail'[i].who] # "new"
    BY <1>0, <2>1, <2>3, TrailGrows
  <2> QED BY <2>1, <2>4 DEF LogsTyped, Enrolled
<1>4. ASSUME Drop(r) PROVE LogsTyped'
  <2>1. /\ rows' = [rows EXCEPT ![Who(r)] = "gone"] /\ UNCHANGED <<trail, scroll>>
        /\ saves' = [i \in DOMAIN saves |-> IF saves[i] = Who(r) THEN NoUser ELSE saves[i]]
    BY <1>4 DEF Drop
  <2>2. saves' \in Seq(Students \cup {NoUser}) /\ \A i \in DOMAIN saves' : saves'[i] \in Enrolled' \cup {NoUser}
    BY <1>0, <2>1, SavesForget
  <2>3. \A i \in DOMAIN trail : rows'[trail[i].who] # "new"
    <3>1. \A i \in DOMAIN trail : trail[i] \in TrailRows
      BY DEF LogsTyped
    <3>2. \A i \in DOMAIN trail : trail[i].who \in Items
      BY <3>1 DEF TrailRows, Items
    <3> QED BY <1>0, <3>2 DEF LogsTyped, Forth
  <2> QED BY <2>1, <2>2, <2>3 DEF LogsTyped
<1>5. ASSUME Works(r), ~CreateProfile(r), ~Drop(r), ~(Audit(r) /\ trail' # trail)
      PROVE  UNCHANGED <<trail, saves, scroll>> /\ UNCHANGED rows
  BY <1>5 DEF Works, FailRow, Break, Audit, CreateLogin, UndoLogin, ResolveClass, AssignClass,
     FindStudent, WriteStatus, Reread, WritePassword, Erase, catalogue
<1> QED BY <1>1, <1>2, <1>3, <1>4, <1>5

\* Something is asked of a batch.
LEMMA AsksBatched ==
  ASSUME Batched, NEW r \in Requests, ~AtWork(r), MoreJobs, Asks(r),
         CatalogueTyped
  PROVE  Batched' /\ UNCHANGED <<catalogue, pupils, trail, saves, scroll>>
<1>0. /\ jobs \in 0..MaxJobs /\ jobs' = jobs + 1 /\ jobs' \in 0..MaxJobs /\ jobs <= jobs'
      /\ desk \in [Requests -> Desks]
  <2>1. jobs \in 0..MaxJobs /\ desk \in [Requests -> Desks]
    BY DEF Batched, DeskTyped
  <2>2. jobs' = jobs + 1
    BY DEF Asks, BeginImport, BeginBulk, BeginBatch, Job
  <2> QED BY <2>1, <2>2, OfficeBoundsAssumption DEF MoreJobs
<1>1. ASSUME NEW kind \in {"import", "status", "resend", "delete"}, NEW list \in Seq(SheetRows),
             NEW active \in BOOLEAN, NEW cache \in [Names -> Groups \cup {NoGroup}],
             list # <<>>, BeginBatch(r, kind, list, active, cache)
      PROVE  Batched' /\ UNCHANGED <<catalogue, pupils, trail, saves, scroll>>
  <2>1. PICK b : b = [NoBatch EXCEPT !.kind = kind, !.step = FirstStep(kind),
                        !.job = jobs', !.list = list, !.active = active, !.cache = cache]
    OBVIOUS
  <2>2. desk' = [desk EXCEPT ![r] = b] /\ UNCHANGED <<catalogue, pupils, trail, saves, scroll>>
    BY <1>1, <2>1 DEF BeginBatch
  <2>3. /\ b \in Desks /\ b.kind = kind /\ b.job = jobs' /\ b.list = list
        /\ b.step = FirstStep(kind) /\ b.step \in {"login", "find"}
    BY <1>0, <2>1, NoBatchIs DEF Desks, FirstStep
  <2>4. InKind(b)'
    BY <1>0, <1>1, <2>3 DEF InKind, FirstStep
  <2>5. DeskTyped'
    BY <1>0, <2>2, <2>3, <2>4, DeskStep DEF Batched
  <2>6. PupilsTyped' /\ UNCHANGED <<rows, pupils>>
    BY <2>2 DEF Batched, PupilsTyped, catalogue
  <2>7. RowsHeld'
    <3>1. \A o \in Requests : o # r => desk'[o] = desk[o] /\ Who(o)' = Who(o)
      BY <1>0, <2>2 DEF Who, Row
    <3>2. desk'[r].step \notin Past \cup Waits
      BY <1>0, <2>2, <2>3 DEF Past, Waits
    <3> QED BY <2>6, <3>1, <3>2 DEF Batched, RowsHeld, Past, Waits
  <2> QED BY <2>2, <2>5, <2>6, <2>7 DEF Batched
<1>2. ASSUME NEW sheet \in Sheets, BeginImport(r, sheet)
      PROVE  Batched' /\ UNCHANGED <<catalogue, pupils, trail, saves, scroll>>
  <2>1. PICK cache \in [Names -> groups \cup {NoGroup}] : BeginBatch(r, "import", sheet, FALSE, cache)
    BY <1>2 DEF BeginImport
  <2>2. cache \in [Names -> Groups \cup {NoGroup}]
    BY DEF CatalogueTyped
  <2>3. sheet \in Seq(SheetRows) /\ sheet # <<>>
    BY SheetsAssumption
  <2> QED BY <1>1, <2>1, <2>2, <2>3
<1>3. ASSUME NEW kind \in {"status", "resend", "delete"}, NEW pick \in Picks,
             NEW active \in BOOLEAN, BeginBulk(r, kind, pick, active)
      PROVE  Batched' /\ UNCHANGED <<catalogue, pupils, trail, saves, scroll>>
  <2>0. pick \in Seq(Students) /\ pick # <<>> /\ Len(pick) \in Nat /\ DOMAIN pick = 1..Len(pick)
    BY SheetsAssumption
  <2>1. PICK list : list = [i \in DOMAIN pick |-> [who |-> pick[i], class |-> NoName, valid |-> TRUE]]
    OBVIOUS
  <2>2. list \in Seq(SheetRows) /\ Len(list) = Len(pick)
    <3>1. \A i \in DOMAIN pick : pick[i] \in Students
      BY <2>0
    <3>2. \A i \in DOMAIN pick : [who |-> pick[i], class |-> NoName, valid |-> TRUE] \in SheetRows
      BY <3>1 DEF SheetRows
    <3>3. list \in [1..Len(pick) -> SheetRows]
      BY <2>0, <2>1, <3>2
    <3> QED BY <2>0, <3>3
  <2>3. list # <<>>
    BY <2>0, <2>2, EmptySeq
  <2>4. NoBatch.cache \in [Names -> Groups \cup {NoGroup}]
    BY NoBatchIs DEF Desks
  <2>5. BeginBatch(r, kind, list, active, NoBatch.cache)
    BY <1>3, <2>1 DEF BeginBulk
  <2> QED BY <1>1, <2>2, <2>3, <2>4, <2>5
<1> QED BY <1>2, <1>3 DEF Asks

\* The two logs.
LEMMA NewestFinite ==
  ASSUME trail \in Seq(TrailRows), saves \in Seq(Students \cup {NoUser}), NEW w
  PROVE  /\ Entries(w) \in SUBSET Nat /\ IsFiniteSet(Entries(w))
         /\ Newest(w) \subseteq Entries(w) /\ Cardinality(Newest(w)) \in Nat
         /\ DOMAIN trail = 1..Len(trail) /\ Len(trail) \in Nat
         /\ DOMAIN saves = 1..Len(saves) /\ Len(saves) \in Nat
<1>1. /\ DOMAIN trail = 1..Len(trail) /\ Len(trail) \in Nat
      /\ DOMAIN saves = 1..Len(saves) /\ Len(saves) \in Nat
  OBVIOUS
<1>2. Entries(w) \subseteq 1..Len(trail) \/ Entries(w) \subseteq 1..Len(saves)
  BY <1>1 DEF Entries, Actions, Downloads
<1>3. IsFiniteSet(1..Len(trail)) /\ IsFiniteSet(1..Len(saves))
  BY <1>1, FS_Interval
<1>4. IsFiniteSet(Entries(w))
  BY <1>2, <1>3, FS_Subset
<1>5. Newest(w) \subseteq Entries(w)
  BY DEF Newest
<1>6. Cardinality(Newest(w)) \in Nat
  BY <1>4, <1>5, FS_Subset, FS_CardinalityType
<1>7. Entries(w) \in SUBSET Nat
  BY <1>1, <1>2
<1> QED BY <1>1, <1>4, <1>5, <1>6, <1>7

LEMMA LogsLogged ==
  ASSUME LogsTyped, Batched, CatalogueTyped, Logs
  PROVE  LogsTyped' /\ Batched' /\ UNCHANGED <<catalogue, pupils>>
<1>0. /\ jobs' \in 0..MaxJobs /\ jobs <= jobs' /\ UNCHANGED <<catalogue, pupils, desk, trail>>
      /\ UNCHANGED <<groups, rows, home, links, shots>>
  <2>1. UNCHANGED <<catalogue, pupils, desk, trail>>
    BY DEF Logs, Save, BeginExport, ReadEntries, CountEntries
  <2>2. (MoreJobs /\ jobs' = jobs + 1) \/ jobs' = jobs
    BY DEF Logs, Save, BeginExport, Job, ReadEntries, CountEntries
  <2>3. jobs \in 0..MaxJobs
    BY DEF Batched, DeskTyped
  <2> QED BY <2>1, <2>2, <2>3, OfficeBoundsAssumption DEF MoreJobs, catalogue
<1>1. Batched'
  <2>1. PupilsTyped' /\ RowsHeld'
    BY <1>0 DEF Batched, PupilsTyped, RowsHeld, Who, Row
  <2>2. jobs \in 0..MaxJobs /\ \A r \in Requests : InKind(desk[r])
    BY DEF Batched, DeskTyped
  <2>3. \A r \in Requests : InKind(desk[r])'
    BY <1>0, <2>2 DEF InKind
  <2>4. DeskTyped'
    BY <1>0, <2>3 DEF DeskTyped, Batched
  <2> QED BY <2>1, <2>4 DEF Batched
<1>2. /\ trail' \in Seq(TrailRows) /\ \A i \in DOMAIN trail' : rows'[trail'[i].who] # "new"
      /\ Enrolled' = Enrolled /\ scroll \in Scrolls
      /\ saves \in Seq(Students \cup {NoUser})
      /\ \A i \in DOMAIN saves : saves[i] \in Enrolled \cup {NoUser}
  BY <1>0 DEF LogsTyped, Enrolled
<1>3. \A w : Entries(w) \in SUBSET Nat /\ Newest(w) \subseteq Entries(w) /\ Cardinality(Newest(w)) \in Nat
  BY NewestFinite DEF LogsTyped
<1>4. ASSUME NEW s \in Students \cup {NoUser}, Save(s) PROVE LogsTyped'
  <2>1. saves' = Append(saves, s) /\ s \in Enrolled \cup {NoUser} /\ scroll' = scroll
    BY <1>4 DEF Save
  <2>2. saves' \in Seq(Students \cup {NoUser}) /\ Len(saves') = Len(saves) + 1
        /\ \A i \in 1..Len(saves) : saves'[i] = saves[i]
        /\ saves'[Len(saves) + 1] = s /\ Len(saves) \in Nat
    BY <1>2, <2>1
  <2>3. ASSUME NEW i \in DOMAIN saves' PROVE saves'[i] \in Enrolled' \cup {NoUser}
    BY <1>2, <2>1, <2>2
  <2> QED BY <1>2, <2>1, <2>2, <2>3 DEF LogsTyped
<1>5. ASSUME NEW s \in Students \cup {NoUser}, NEW log \in {"actions", "downloads"},
             BeginExport(log, s)
      PROVE  LogsTyped'
  <2>1. PICK w : w = [NoScroll EXCEPT !.log = log, !.who = s, !.step = "rows"]
    OBVIOUS
  <2>2. w \in Scrolls
    BY <2>1 DEF NoScroll, Scrolls
  <2>3. scroll' = [w EXCEPT !.due = Entries(w)] /\ saves' = saves
    BY <1>5, <2>1 DEF BeginExport
  <2>4. scroll' \in Scrolls
    BY <1>3, <2>2, <2>3 DEF Scrolls
  <2> QED BY <1>2, <2>3, <2>4 DEF LogsTyped
<1>6. ASSUME ReadEntries PROVE LogsTyped'
  <2>1. PICK Q : Q = Newest(scroll)
    OBVIOUS
  <2>2. scroll' = [scroll EXCEPT !.seen = @ \cup Q, !.got = Cardinality(Q), !.step = "total"]
        /\ saves' = saves
    BY <1>6, <2>1 DEF ReadEntries
  <2>3. Q \in SUBSET Nat /\ Cardinality(Q) \in Nat
    BY <1>3, <2>1
  <2>4. scroll' \in Scrolls
    BY <1>2, <2>2, <2>3 DEF Scrolls
  <2> QED BY <1>2, <2>2, <2>4 DEF LogsTyped
<1>7. ASSUME CountEntries PROVE LogsTyped'
  <2>1. \/ scroll' = [scroll EXCEPT !.step = "done"]
        \/ scroll' = [scroll EXCEPT !.step = "rows", !.page = scroll.page + 1]
    BY <1>7 DEF CountEntries
  <2>2. scroll' \in Scrolls /\ saves' = saves
    <3>0. scroll \in Scrolls
      BY <1>2
    <3>1. scroll' \in Scrolls
      <4>1. CASE scroll' = [scroll EXCEPT !.step = "done"]
        BY <3>0, <4>1 DEF Scrolls
      <4>2. CASE scroll' = [scroll EXCEPT !.step = "rows", !.page = scroll.page + 1]
        <5>1. PICK n \in Nat : n = scroll.page + 1
          BY <3>0 DEF Scrolls
        <5> QED BY <3>0, <4>2, <5>1 DEF Scrolls
      <4> QED BY <2>1, <4>1, <4>2
    <3> QED BY <1>7, <3>1 DEF CountEntries
  <2> QED BY <1>2, <2>2 DEF LogsTyped
<1> QED BY <1>0, <1>1, <1>4, <1>5, <1>6, <1>7 DEF Logs

\* One student comes, or goes.
LEMMA ComesTyped ==
  ASSUME CatalogueTyped, Batched, LogsTyped, UNCHANGED <<users, jobs>>, NEW s \in Students,
         CreateStudent(s) \/ DeleteStudent(s)
  PROVE  CatalogueTyped' /\ Forth /\ Batched' /\ LogsTyped' /\ UNCHANGED <<clerk, walk>>
<1>0. /\ Students \subseteq Items /\ \A u : Exists(u)' = Exists(u) /\ desk' = desk
      /\ rows \in [Items -> {"new", "there", "gone"}] /\ UNCHANGED <<clerk, walk>>
      /\ home \in [Items -> groups \cup {NoGroup}]
      /\ pupils \in [Students -> Pupils \cup {NoRow}]
  BY DEF Items, Exists, CatalogueTyped, CreateStudent, DeleteStudent, Enter, Delete, Batched,
         PupilsTyped
<1>1. DeskTyped'
  <2>1. \A r \in Requests : InKind(desk[r])
    BY DEF Batched, DeskTyped
  <2>2. \A r \in Requests : InKind(desk[r])'
    BY <1>0, <2>1 DEF InKind
  <2> QED BY <1>0, <2>2 DEF Batched, DeskTyped
<1>2. \A r \in Requests : Who(r)' = Who(r)
  BY <1>0 DEF Who, Row
<1>3. CASE CreateStudent(s)
  <2>1. /\ rows' = [rows EXCEPT ![s] = "there"] /\ rows[s] = "new" /\ pupils[s] = NoRow
        /\ UNCHANGED <<groups, home, links, shots, saves, scroll>>
    BY <1>3 DEF CreateStudent, Enter
  <2>2. PICK p : p = [active |-> TRUE, pw |-> <<0, 0>>, seen |-> FALSE]
    OBVIOUS
  <2>3. p \in Pupils /\ p # NoRow /\ ~p.seen
    <3>1. <<0, 0>> \in Keys
      BY OfficeBoundsAssumption DEF Keys
    <3>2. p \in Pupils
      BY <2>2, <3>1 DEF Pupils
    <3> QED BY <2>2, <3>2, NoPupilAssumption
  <2>4. pupils' = [pupils EXCEPT ![s] = p]
    BY <1>3, <2>2 DEF CreateStudent
  <2>5. CatalogueTyped' /\ Forth /\ \A i \in Students \ {s} : rows'[i] = rows[i]
    <3>1. rows' \in [Items -> {"new", "there", "gone"}]
      BY <1>0, <2>1
    <3> QED BY <1>0, <2>1, <3>1 DEF CatalogueTyped, Forth
  <2>6. PupilsTyped'
    BY <1>0, <2>1, <2>3, <2>4, <2>5, PupilStep DEF Batched
  <2>7. \A i \in Students \ {s} : rows'[i] = rows[i] /\ pupils'[i] = pupils[i]
    BY <1>0, <2>4, <2>5
  <2>8. \A r \in Requests : desk[r].step \in Past \cup Waits => Who(r) \in Students /\ Who(r) # s
    <3>1. \A r \in Requests : desk[r].step \in Past \cup Waits => Who(r) \in Students
      BY RowInHand DEF AtWork, Past, Waits, Batched
    <3> QED BY <2>1, <3>1 DEF Batched, RowsHeld, Past, Waits
  <2>9. RowsHeld'
    BY <1>0, <1>2, <2>7, <2>8 DEF Batched, RowsHeld, Past, Waits
  <2>10. LogsTyped'
    <3>1. PICK e \in TrailRows : e = [what |-> "created", who |-> s]
      BY DEF TrailRows
    <3>2. trail' = Append(trail, e) /\ rows'[e.who] # "new"
      BY <1>0, <1>3, <2>1, <3>1 DEF CreateStudent
    <3>3. trail' \in Seq(TrailRows) /\ \A i \in DOMAIN trail' : rows'[trail'[i].who] # "new"
      BY <2>5, <3>2, TrailGrows
    <3>4. Enrolled \subseteq Enrolled'
      BY <1>0, <2>1 DEF Enrolled
    <3> QED BY <2>1, <3>3, <3>4 DEF LogsTyped
  <2> QED BY <1>0, <1>1, <2>5, <2>6, <2>9, <2>10 DEF Batched
<1>4. CASE DeleteStudent(s)
  <2>1. /\ rows' = [rows EXCEPT ![s] = "gone"] /\ rows[s] = "there"
        /\ home' = [home EXCEPT ![s] = NoGroup]
        /\ UNCHANGED <<groups, links, shots, scroll>>
        /\ pupils' = [pupils EXCEPT ![s] = NoRow]
        /\ saves' = [i \in DOMAIN saves |-> IF saves[i] = s THEN NoUser ELSE saves[i]]
    BY <1>4 DEF DeleteStudent, Delete
  <2>2. CatalogueTyped' /\ Forth /\ \A i \in Students \ {s} : rows'[i] = rows[i]
    <3>1. rows' \in [Items -> {"new", "there", "gone"}] /\ home' \in [Items -> groups' \cup {NoGroup}]
      BY <1>0, <2>1
    <3> QED BY <1>0, <2>1, <3>1 DEF CatalogueTyped, Forth
  <2>3. PupilsTyped'
    BY <1>0, <2>1, <2>2, PupilStep DEF Batched
  <2>4. \A i \in Students \ {s} : rows'[i] = rows[i] /\ pupils'[i] = pupils[i]
    BY <1>0, <2>1, <2>2
  <2>5. \A r \in Requests : desk[r].step \in Past \cup Waits => Who(r) \in Students
    BY RowInHand DEF AtWork, Past, Waits, Batched
  <2>6. \A r \in Requests : desk[r].step \in Waits => Who(r) # s
    BY <2>1 DEF Batched, RowsHeld, Waits
  <2>7. rows'[s] = "gone"
    BY <1>0, <2>1
  <2>8. RowsHeld'
    BY <1>0, <1>2, <2>4, <2>5, <2>6, <2>7 DEF Batched, RowsHeld, Past, Waits
  <2>9. LogsTyped'
    <3>1. PICK e \in TrailRows : e = [what |-> "deleted", who |-> s]
      BY DEF TrailRows
    <3>2. trail' = Append(trail, e) /\ rows'[e.who] # "new"
      BY <1>0, <1>4, <2>1, <3>1 DEF DeleteStudent
    <3>3. trail' \in Seq(TrailRows) /\ \A i \in DOMAIN trail' : rows'[trail'[i].who] # "new"
      BY <2>2, <3>2, TrailGrows
    <3>4. /\ saves' \in Seq(Students \cup {NoUser})
          /\ \A i \in DOMAIN saves' : saves'[i] \in Enrolled' \cup {NoUser}
      BY <1>0, <2>1, SavesForget
    <3> QED BY <2>1, <3>3, <3>4 DEF LogsTyped
  <2> QED BY <1>0, <1>1, <2>2, <2>3, <2>8, <2>9 DEF Batched
<1> QED BY <1>3, <1>4

------------------------------------------------------------------------------
(* The other parts leave the office be.                                    *)

\* Lists, classes and links come and go without a student coming or going.
LEMMA ListingsForth ==
  ASSUME CatalogueTyped, ListingsStep
  PROVE  Forth /\ \A s \in Students : rows'[s] = rows[s]
<1>1. ASSUME UNCHANGED rows PROVE Forth /\ \A s \in Students : rows'[s] = rows[s]
  BY <1>1 DEF Forth
<1>2. ASSUME NEW e \in Events, TagEvent(e) PROVE Forth /\ \A s \in Students : rows'[s] = rows[s]
  <2>1. rows' = rows \/ (rows[e] = "new" /\ rows' = [rows EXCEPT ![e] = "there"])
    BY <1>2 DEF TagEvent, CreateEvent, UpdateEvent
  <2>2. Events \subseteq Items /\ \A s \in Students : s \in Items /\ s # e
    BY ItemsAssumption DEF Items
  <2> QED BY <2>1, <2>2 DEF Forth, CatalogueTyped
<1>3. ASSUME Walk PROVE UNCHANGED rows
  BY <1>3 DEF Walk, Lists, ListStaff, ListStudents, ListEvents, BeginWalk, ReadScope, ReadRows,
       ReadTotal, ReadCounts, ScanIds, Hydrate, catalogue
<1>4. ASSUME Changes PROVE UNCHANGED rows
  BY <1>4 DEF Changes, CreateClass, DeleteClass, BeginAssign, BeginRemove, BeginTag, Match, BeginLink,
       Unlink, BeginReplace, catalogue
<1>5. ASSUME Catalogue, ~Changes, \A e \in Events : ~TagEvent(e) PROVE UNCHANGED rows
  BY <1>5 DEF Catalogue, AssignStudents, RemoveStudent, CheckTeacher, LinkTeacher, SiftClass,
       ReplaceLinks, catalogue
<1> QED BY <1>1, <1>2, <1>3, <1>4, <1>5 DEF ListingsStep

\* Students, batches and logs stay as they were.
LEMMA OfficeKept ==
  ASSUME CatalogueTyped, Batched, LogsTyped, Forth, \A s \in Students : rows'[s] = rows[s],
         UNCHANGED <<office, jobs>>
  PROVE  Batched' /\ LogsTyped'
<1>0. UNCHANGED <<pupils, desk, trail, saves, scroll, jobs>>
  BY DEF office
<1>1. PupilsTyped'
  BY <1>0 DEF Batched, PupilsTyped
<1>2. DeskTyped'
  <2>1. \A r \in Requests : InKind(desk[r])
    BY DEF Batched, DeskTyped
  <2>2. \A r \in Requests : InKind(desk[r])'
    BY <1>0, <2>1 DEF InKind
  <2> QED BY <1>0, <2>2 DEF Batched, DeskTyped
<1>3. RowsHeld'
  <2>1. \A r \in Requests : Who(r)' = Who(r)
    BY <1>0 DEF Who, Row
  <2>2. \A r \in Requests : desk[r].step \in Past \cup Waits => Who(r) \in Students
    BY RowInHand DEF AtWork, Past, Waits, Batched
  <2> QED BY <1>0, <2>1, <2>2 DEF Batched, RowsHeld, Past, Waits
<1>4. LogsTyped'
  <2>1. Enrolled \subseteq Enrolled'
    BY DEF Enrolled
  <2> QED BY <1>0, <2>1, LogsKept DEF CatalogueTyped
<1> QED BY <1>1, <1>2, <1>3, <1>4 DEF Batched

\* Whoever has an account keeps it.
LEMMA CatalogueKept ==
  ASSUME CatalogueTyped, ClerkTyped, \A u \in Users : Exists(u) => Exists(u)',
         UNCHANGED listings
  PROVE  CatalogueTyped' /\ ClerkTyped'
<1>1. UNCHANGED <<groups, rows, home, links, shots, clerk>> /\ Teachers \subseteq Users
  BY DEF listings, Users
<1>2. CatalogueTyped'
  BY <1>1 DEF CatalogueTyped
<1>3. ClerkTyped'
  BY <1>1 DEF ClerkTyped
<1> QED BY <1>2, <1>3

------------------------------------------------------------------------------
(* Reports.                                                                *)

Reads ==
  {"enrollment", "students", "enrolled", "signedIn", "signedInRoles", "engaged", "opened",
   "firstOpens", "savers", "events", "eventCounts", "status", "photos", "photoStatus",
   "undistributed", "distributed", "distributedCounts", "recent", "firstDistributed",
   "lastEvent", "teachers", "sent", "sentMonth"}

LEMMA PlanIs ==
  ASSUME NEW kind \in Sections
  PROVE  /\ Len(Plan[kind]) \in Nat /\ Len(Plan[kind]) >= 6
         /\ \A i \in 1..Len(Plan[kind]) : Plan[kind][i] \in Reads
<1>1. CASE kind = "dashboard"
  <2>1. Plan[kind] = <<"enrollment", "status", "photoStatus", "undistributed", "teachers", "distributed">>
    BY <1>1 DEF Plan
  <2>2. Len(Plan[kind]) = 6
    BY <2>1
  <2>3. \A i \in 1..6 : i = 1 \/ i = 2 \/ i = 3 \/ i = 4 \/ i = 5 \/ i = 6
    OBVIOUS
  <2>4. \A i \in 1..6 : Plan[kind][i] \in Reads
    BY <2>1, <2>3 DEF Reads
  <2> QED BY <2>2, <2>4
<1>2. CASE kind = "school"
  <2>1. Plan[kind] = <<"enrollment", "signedIn", "engaged", "opened", "savers", "events", "photos", "firstOpens">>
    BY <1>2 DEF Plan
  <2>2. Len(Plan[kind]) = 8
    BY <2>1
  <2>3. \A i \in 1..8 : i = 1 \/ i = 2 \/ i = 3 \/ i = 4 \/ i = 5 \/ i = 6 \/ i = 7 \/ i = 8
    OBVIOUS
  <2>4. \A i \in 1..8 : Plan[kind][i] \in Reads
    BY <2>1, <2>3 DEF Reads
  <2> QED BY <2>2, <2>4
<1>3. CASE kind = "estate"
  <2>1. Plan[kind] = <<"teachers", "signedInRoles", "students", "enrolled", "eventCounts", "distributedCounts", "recent", "firstDistributed", "lastEvent", "sent", "sentMonth">>
    BY <1>3 DEF Plan
  <2>2. Len(Plan[kind]) = 11
    BY <2>1
  <2>3. \A i \in 1..11 : i = 1 \/ i = 2 \/ i = 3 \/ i = 4 \/ i = 5 \/ i = 6 \/ i = 7 \/ i = 8
                          \/ i = 9 \/ i = 10 \/ i = 11
    OBVIOUS
  <2>4. \A i \in 1..11 : Plan[kind][i] \in Reads
    BY <2>1, <2>3 DEF Reads
  <2> QED BY <2>2, <2>4
<1> QED BY <1>1, <1>2, <1>3 DEF Sections

LEMMA FiguresAre ==
  /\ \A v \in SUBSET (Students \X Faces) : v \in Figures
  /\ \A v \in SUBSET Students : v \in Figures
  /\ \A v \in SUBSET Events : v \in Figures
  /\ \A v \in SUBSET (Students \X Events) : v \in Figures
  /\ \A v \in SUBSET (Events \X BOOLEAN) : v \in Figures
  /\ \A v \in SUBSET (Events \X BOOLEAN \X BOOLEAN) : v \in Figures
  /\ \A v \in SUBSET (Events \X {"done", "pending"}) : v \in Figures
  /\ \A v \in SUBSET Teachers : v \in Figures
  /\ \A v \in SUBSET Nat : v \in Figures
<1>1. ASSUME NEW v \in SUBSET (Students \X Faces) PROVE v \in Figures
  BY DEF Figures
<1>2. ASSUME NEW v \in SUBSET Students PROVE v \in Figures
  BY DEF Figures
<1>3. ASSUME NEW v \in SUBSET Events PROVE v \in Figures
  BY DEF Figures
<1>4. ASSUME NEW v \in SUBSET (Students \X Events) PROVE v \in Figures
  BY DEF Figures
<1>5. ASSUME NEW v \in SUBSET (Events \X BOOLEAN) PROVE v \in Figures
  BY DEF Figures
<1>6. ASSUME NEW v \in SUBSET (Events \X BOOLEAN \X BOOLEAN) PROVE v \in Figures
  BY DEF Figures
<1>7. ASSUME NEW v \in SUBSET (Events \X {"done", "pending"}) PROVE v \in Figures
  BY DEF Figures
<1>8. ASSUME NEW v \in SUBSET Teachers PROVE v \in Figures
  BY DEF Figures
<1>9. ASSUME NEW v \in SUBSET Nat PROVE v \in Figures
  BY DEF Figures
<1> QED BY <1>1, <1>2, <1>3, <1>4, <1>5, <1>6, <1>7, <1>8, <1>9

LEMMA FiguresRead ==
  ASSUME ReportTyped, PupilsTyped, CatalogueTyped, LogsTyped, NEW read \in Reads
  PROVE  Value(read) \in Figures
<1>1. /\ EnrollmentCounts \in SUBSET (Students \X Faces) /\ StudentCounts \in SUBSET Students
      /\ EnrolledCounts \in SUBSET Students
  BY DEF EnrollmentCounts, StudentCounts, EnrolledCounts, Enrolled, ReportTyped, Faces
<1>2. /\ SignedIn \in SUBSET Students /\ SignedInRoles \in SUBSET Students
      /\ Engaged \in SUBSET Students /\ OpenedEvents \in SUBSET Events
      /\ FirstOpens \in SUBSET (Students \X Events) /\ Savers \in SUBSET Students
  BY DEF SignedIn, SignedInRoles, Engaged, OpenedEvents, FirstOpens, Savers, Openings, ReportTyped,
     LogsTyped, Enrolled
<1>3. /\ EventList \in SUBSET (Events \X BOOLEAN) /\ EventCounts \in SUBSET Events
      /\ StatusCounts \in SUBSET (Events \X BOOLEAN \X BOOLEAN)
  BY DEF EventList, EventCounts, StatusCounts, Happening, ReportTyped, Courses, Announced
<1>4. /\ PhotosByEvent \in SUBSET (Events \X {"done", "pending"})
      /\ PhotoStatusCounts \in SUBSET (Events \X {"done", "pending"})
  BY DEF PhotosByEvent, PhotoStatusCounts, Happening, ReportTyped, Courses
<1>5. /\ Undistributed \in SUBSET Events /\ Distributed \in SUBSET Events
      /\ DistributedCounts \in SUBSET Events /\ RecentCounts \in SUBSET Events
      /\ FirstDistributed \in SUBSET Events /\ LastEvent \in SUBSET Events
  BY DEF Undistributed, Distributed, DistributedCounts, RecentCounts, FirstDistributed, LastEvent,
     Happening
<1>6. TeacherCounts \in SUBSET Teachers /\ SentCounts \in SUBSET Nat /\ SentThisMonth \in SUBSET Nat
  BY DEF TeacherCounts, TeachersThere, SentCounts, SentThisMonth, ReportTyped
<1>7. /\ Value("enrollment") = EnrollmentCounts /\ Value("students") = StudentCounts
      /\ Value("enrolled") = EnrolledCounts /\ Value("signedIn") = SignedIn
      /\ Value("signedInRoles") = SignedInRoles /\ Value("engaged") = Engaged
      /\ Value("opened") = OpenedEvents /\ Value("firstOpens") = FirstOpens
      /\ Value("savers") = Savers /\ Value("events") = EventList
      /\ Value("eventCounts") = EventCounts /\ Value("status") = StatusCounts
      /\ Value("photos") = PhotosByEvent /\ Value("photoStatus") = PhotoStatusCounts
      /\ Value("undistributed") = Undistributed /\ Value("distributed") = Distributed
      /\ Value("distributedCounts") = DistributedCounts /\ Value("recent") = RecentCounts
      /\ Value("firstDistributed") = FirstDistributed /\ Value("lastEvent") = LastEvent
      /\ Value("teachers") = TeacherCounts /\ Value("sent") = SentCounts
      /\ Value("sentMonth") = SentThisMonth
  BY DEF Value
<1>8. /\ EnrollmentCounts \in Figures /\ StudentCounts \in Figures /\ EnrolledCounts \in Figures
  BY <1>1, FiguresAre
<1>9. /\ SignedIn \in Figures /\ SignedInRoles \in Figures /\ Engaged \in Figures
      /\ OpenedEvents \in Figures /\ FirstOpens \in Figures /\ Savers \in Figures
  BY <1>2, FiguresAre
<1>10. EventList \in Figures /\ EventCounts \in Figures /\ StatusCounts \in Figures
  BY <1>3, FiguresAre
<1>11. PhotosByEvent \in Figures /\ PhotoStatusCounts \in Figures
  BY <1>4, FiguresAre
<1>12. /\ Undistributed \in Figures /\ Distributed \in Figures /\ DistributedCounts \in Figures
       /\ RecentCounts \in Figures /\ FirstDistributed \in Figures /\ LastEvent \in Figures
  BY <1>5, FiguresAre
<1>13. TeacherCounts \in Figures /\ SentCounts \in Figures /\ SentThisMonth \in Figures
  BY <1>6, FiguresAre
<1> QED BY <1>7, <1>8, <1>9, <1>10, <1>11, <1>12, <1>13 DEF Reads

LEMMA EnrolledAre ==
  ASSUME CatalogueTyped
  PROVE  Enrolled \in SUBSET Students /\ Happening \in SUBSET Events
BY DEF Enrolled, Happening

\* A witness forgets nothing.
LEMMA WitnessKept ==
  ASSUME CatalogueTyped, ReportKept
  PROVE  /\ Witnessed.kind = report.kind /\ Witnessed.at = report.at /\ Witnessed.got = report.got
         /\ report.were \subseteq Witnessed.were /\ Witnessed.were \in SUBSET Students
         /\ report.held \subseteq Witnessed.held /\ Witnessed.held \in SUBSET Events
         /\ Witnessed.left = report.left /\ Witnessed.faded = report.faded
         /\ report.stalled => Witnessed.stalled
         /\ report.idle => Witnessed.idle
         /\ Witnessed \in [kind : Sections \cup {"none"}, at : Nat, got : Seq(Figures),
                           were : SUBSET Students, held : SUBSET Events, left : SUBSET Students,
                faded : SUBSET Students,
                           stalled : BOOLEAN, idle : BOOLEAN]
<1> DEFINE Reports == [kind : Sections \cup {"none"}, at : Nat, got : Seq(Figures),
                       were : SUBSET Students, held : SUBSET Events, left : SUBSET Students,
                faded : SUBSET Students,
                       stalled : BOOLEAN, idle : BOOLEAN]
<1>1. CASE ~Reading
  BY <1>1 DEF Witnessed, ReportKept
<1>2. CASE Reading
  <2>1. PICK a, b \in BOOLEAN :
          /\ a = (report.stalled \/ (Enrolled # {} /\ EnrolledCounts = {}))
          /\ b = (report.idle \/ (EnrolledCounts # {} /\ RecentCounts = {}))
    OBVIOUS
  <2>2. Witnessed = [report EXCEPT !.were = report.were \cup Enrolled,
                                   !.held = report.held \cup Happening,
                                   !.stalled = a, !.idle = b]
    BY <1>2, <2>1 DEF Witnessed, ReportKept
  <2>3. report \in Reports /\ (report.stalled => a) /\ (report.idle => b)
    BY <2>1 DEF ReportKept
  <2>4. report.were \cup Enrolled \in SUBSET Students /\ report.held \cup Happening \in SUBSET Events
    BY <2>3, EnrolledAre
  <2> HIDE <2>1
  <2>5. Witnessed \in Reports
    BY <2>2, <2>3, <2>4
  <2> QED BY <2>2, <2>3, <2>4, <2>5
<1> QED BY <1>1, <1>2

LEMMA WitnessTyped == CatalogueTyped /\ ReportKept /\ report' = Witnessed => ReportKept'
<1> SUFFICES ASSUME CatalogueTyped, ReportKept, report' = Witnessed PROVE ReportKept'
  OBVIOUS
<1> QED BY WitnessKept DEF ReportKept

LEMMA ReadNextKept ==
  ASSUME CatalogueTyped, ReportTyped, PupilsTyped, LogsTyped, ReadNext
  PROVE  /\ Reading /\ ReportKept' /\ report'.kind = report.kind /\ report'.at = report.at + 1
         /\ report'.got = Append(report.got, Value(Plan[report.kind][report.at]))
         /\ report'.were = Witnessed.were /\ report'.held = Witnessed.held
         /\ report'.left = Witnessed.were \ Enrolled /\ report'.faded = Faded
         /\ report'.stalled = Witnessed.stalled /\ report'.idle = Witnessed.idle
<1>1. Reading /\ ReportKept /\ report.kind \in Sections /\ report.at \in Nat
      /\ report.at \in 1..Len(Plan[report.kind]) /\ Len(Plan[report.kind]) \in Nat
      /\ Len(report.got) = report.at - 1 /\ report.got \in Seq(Figures)
  <2>1. Reading /\ ReportKept /\ report.kind \in Sections
    BY DEF ReadNext, ReportTyped, Reading, ReportKept
  <2> QED BY <2>1, PlanIs DEF Reading, ReportKept, Sections
<1>2. PICK v \in Figures : v = Value(Plan[report.kind][report.at])
  BY <1>1, PlanIs, FiguresRead
<1>3. report' = [Witnessed EXCEPT !.got = Append(Witnessed.got, v), !.at = Witnessed.at + 1,
                                  !.left = Witnessed.were \ Enrolled, !.faded = Faded]
  BY <1>2 DEF ReadNext
<1>4. /\ Witnessed \in [kind : Sections \cup {"none"}, at : Nat, got : Seq(Figures),
                        were : SUBSET Students, held : SUBSET Events, left : SUBSET Students,
                faded : SUBSET Students,
                        stalled : BOOLEAN, idle : BOOLEAN]
      /\ Witnessed.kind = report.kind /\ Witnessed.at = report.at /\ Witnessed.got = report.got
  BY <1>1, WitnessKept
<1>5. Append(report.got, v) \in Seq(Figures) /\ Len(Append(report.got, v)) = report.at
  BY <1>1
<1>6. Witnessed.were \ Enrolled \in SUBSET Students /\ Faded \in SUBSET Students
  BY <1>4 DEF Faded, Enrolled
<1>7. /\ report' \in [kind : Sections \cup {"none"}, at : Nat, got : Seq(Figures),
                      were : SUBSET Students, held : SUBSET Events, left : SUBSET Students,
                faded : SUBSET Students,
                      stalled : BOOLEAN, idle : BOOLEAN]
      /\ report'.kind = report.kind /\ report'.at = report.at + 1
      /\ report'.got = Append(report.got, v)
      /\ report'.were = Witnessed.were /\ report'.held = Witnessed.held
      /\ report'.left = Witnessed.were \ Enrolled /\ report'.faded = Faded
      /\ report'.stalled = Witnessed.stalled /\ report'.idle = Witnessed.idle
  <2>1. PICK n \in Nat : n = Witnessed.at + 1
    BY <1>4
  <2>2. PICK q \in Seq(Figures) : q = Append(Witnessed.got, v)
    BY <1>4, <1>5
  <2>3. report' = [Witnessed EXCEPT !.got = q, !.at = n, !.left = Witnessed.were \ Enrolled,
                                    !.faded = Faded]
    BY <1>3, <2>1, <2>2
  <2> QED BY <1>4, <1>6, <2>1, <2>2, <2>3
<1>8. ReportKept'
  <2>1. report'.left \subseteq report'.were
    BY <1>7
  <2>2. report'.at \in 1..(Len(Plan[report'.kind]) + 1) /\ Len(report'.got) = report'.at - 1
    BY <1>1, <1>5, <1>7
  <2> QED BY <1>7, <2>1, <2>2 DEF ReportKept
<1> QED BY <1>1, <1>2, <1>7, <1>8

LEMMA BeginKept ==
  ASSUME NEW kind \in DOMAIN Plan, BeginReport(kind)
  PROVE  ReportKept' /\ report' = [NoReport EXCEPT !.kind = kind, !.at = 1] /\ kind \in Sections
<1>1. kind \in Sections
  BY DEF Plan, Sections
<1>2. report' = [NoReport EXCEPT !.kind = kind, !.at = 1]
  BY DEF BeginReport
<1>3. <<>> \in Seq(Figures) /\ Len(<<>>) = 0
  OBVIOUS
<1>4. /\ report' = [kind |-> kind, at |-> 1, got |-> <<>>, were |-> {}, held |-> {}, left |-> {},
                    faded |-> {}, stalled |-> FALSE, idle |-> FALSE]
  BY <1>2 DEF NoReport
<1>5. /\ report' \in [kind : Sections \cup {"none"}, at : Nat, got : Seq(Figures),
                      were : SUBSET Students, held : SUBSET Events, left : SUBSET Students,
                faded : SUBSET Students,
                      stalled : BOOLEAN, idle : BOOLEAN]
      /\ report'.kind = kind /\ report'.at = 1 /\ report'.got = <<>>
      /\ report'.left = {} /\ report'.were = {}
  BY <1>1, <1>3, <1>4
<1>6. 1 \in 1..(Len(Plan[kind]) + 1) /\ Len(<<>>) = 1 - 1
  BY <1>1, <1>3, PlanIs
<1> QED BY <1>1, <1>2, <1>5, <1>6 DEF ReportKept

\* What happens to students, events and messages.
LEMMA HappensTyped ==
  ASSUME ReportTyped, PupilsTyped, MoreNews, Happens, UNCHANGED rows
  PROVE  /\ face' \in [Students -> Faces] /\ course' \in [Events -> Courses]
         /\ opens' \subseteq Students \X Events /\ early' \subseteq opens'
         /\ sent' \in 0..news' /\ news' \in 0..MaxNews
         /\ PupilsTyped'
         /\ \A s \in Students : /\ pupils'[s] = NoRow <=> pupils[s] = NoRow
                                /\ pupils[s] # NoRow => /\ pupils'[s].active = pupils[s].active
                                                        /\ pupils'[s].pw = pupils[s].pw
<1>0. /\ news' = news + 1 /\ news \in 0..MaxNews /\ news < MaxNews /\ sent \in 0..news
      /\ MaxNews \in Nat
  BY NewsAssumption
     DEF MoreNews, Happens, ReportTyped, PupilSignsIn, Enrol, Open, MonthDrops, Upload, Process, Complete,
         Announce, SetAuto, Archive, Along, Send, News
<1>1. news' \in 0..MaxNews /\ sent \in 0..news' /\ sent + 1 \in 0..news'
  BY <1>0
<1>2. ASSUME pupils' = pupils
      PROVE  /\ PupilsTyped'
             /\ \A s \in Students : /\ pupils'[s] = NoRow <=> pupils[s] = NoRow
                                    /\ pupils[s] # NoRow => /\ pupils'[s].active = pupils[s].active
                                                            /\ pupils'[s].pw = pupils[s].pw
  BY <1>2 DEF PupilsTyped
<1>3. ASSUME NEW s \in Students, PupilSignsIn(s)
      PROVE  /\ PupilsTyped' /\ UNCHANGED <<face, course, opens, early, sent>>
             /\ \A i \in Students : /\ pupils'[i] = NoRow <=> pupils[i] = NoRow
                                    /\ pupils[i] # NoRow => /\ pupils'[i].active = pupils[i].active
                                                            /\ pupils'[i].pw = pupils[i].pw
  <2>1. s \in Enrolled /\ pupils' = [pupils EXCEPT ![s].seen = TRUE] /\ UNCHANGED <<face, course, opens, early, sent>>
    BY <1>3 DEF PupilSignsIn
  <2>2. rows[s] = "there" /\ pupils[s] # NoRow /\ pupils[s] \in Pupils
        /\ pupils \in [Students -> Pupils \cup {NoRow}]
    BY <2>1 DEF Enrolled, PupilsTyped
  <2>3. PICK p : p = [pupils[s] EXCEPT !.seen = TRUE]
    OBVIOUS
  <2>4. p \in Pupils /\ p.active = pupils[s].active /\ p.pw = pupils[s].pw
    BY <2>2, <2>3 DEF Pupils
  <2>5. pupils' = [pupils EXCEPT ![s] = p] /\ p # NoRow
    BY <2>1, <2>2, <2>3, <2>4, NoPupilAssumption
  <2>6. pupils' \in [Students -> Pupils \cup {NoRow}]
    BY <2>2, <2>4, <2>5
  <2>7. \A i \in Students \ {s} : pupils'[i] = pupils[i]
    BY <2>2, <2>5
  <2>8. pupils'[s] = p
    BY <2>2, <2>5
  <2>9. PupilsTyped'
    BY <2>2, <2>5, <2>6, <2>7, <2>8 DEF PupilsTyped
  <2>10. ASSUME NEW i \in Students
         PROVE  /\ pupils'[i] = NoRow <=> pupils[i] = NoRow
                /\ pupils[i] # NoRow => /\ pupils'[i].active = pupils[i].active
                                        /\ pupils'[i].pw = pupils[i].pw
    BY <2>2, <2>4, <2>5, <2>7, <2>8
  <2> QED BY <2>1, <2>9, <2>10
<1>4. ASSUME NEW s \in Students, NEW outcome \in {"enrolled", "failed"}, Enrol(s, outcome)
      PROVE  face' \in [Students -> Faces] /\ UNCHANGED <<pupils, course, opens, early, sent>>
  BY <1>4 DEF Enrol, ReportTyped, Faces
<1>5. ASSUME NEW s \in Students, NEW e \in Events, Open(s, e)
      PROVE  /\ opens' \subseteq Students \X Events /\ early' \subseteq opens'
             /\ UNCHANGED <<pupils, face, course, sent>>
  BY <1>5 DEF Open, ReportTyped
<1>9. ASSUME NEW O \in SUBSET opens, MonthDrops(O)
      PROVE  early' \subseteq opens' /\ UNCHANGED <<pupils, face, course, opens, sent>>
  BY <1>9 DEF MonthDrops, ReportTyped
<1>6. ASSUME NEW e \in Events, NEW c \in Courses, Along(e, c)
      PROVE  course' \in [Events -> Courses] /\ UNCHANGED <<pupils, face, opens, early, sent>>
  BY <1>6 DEF Along, ReportTyped
<1>7. ASSUME NEW e \in Events,
             \/ Upload(e) \/ Process(e) \/ Complete(e) \/ Announce(e) \/ SetAuto(e) \/ Archive(e)
      PROVE  course' \in [Events -> Courses] /\ UNCHANGED <<pupils, face, opens, early, sent>>
  <2>1. course[e] \in Courses
    BY DEF ReportTyped
  <2>2. [course[e] EXCEPT !.photos = @ \cup {"pending"}] \in Courses
    BY <2>1 DEF Courses
  <2>3. [course[e] EXCEPT !.running = TRUE] \in Courses
    BY <2>1 DEF Courses
  <2>4. [course[e] EXCEPT !.running = FALSE, !.done = TRUE, !.photos = {"done"}] \in Courses
    BY <2>1 DEF Courses
  <2>5. [course[e] EXCEPT !.notified = TRUE] \in Courses
    BY <2>1 DEF Courses
  <2>6. [course[e] EXCEPT !.auto = ~@] \in Courses
    BY <2>1 DEF Courses
  <2>7. [course[e] EXCEPT !.archived = ~@] \in Courses
    BY <2>1 DEF Courses
  <2> QED
    BY <1>6, <1>7, <2>2, <2>3, <2>4, <2>5, <2>6, <2>7
       DEF Upload, Process, Complete, Announce, SetAuto, Archive
<1>8. CASE Send
  BY <1>0, <1>1, <1>2, <1>8 DEF Send, ReportTyped
<1> QED BY <1>1, <1>2, <1>3, <1>4, <1>5, <1>7, <1>8, <1>9 DEF Happens, ReportTyped

------------------------------------------------------------------------------
(* Types.                                                                  *)

LEMMA PupilsFirst ==
  ASSUME rows \in [Items -> {"new", "there"}],
         pupils = [s \in Students |-> IF rows[s] = "there"
                     THEN [active |-> TRUE, pw |-> <<0, 0>>, seen |-> FALSE] ELSE NoRow]
  PROVE  PupilsTyped
<1>1. PICK p : p = [active |-> TRUE, pw |-> <<0, 0>>, seen |-> FALSE]
  OBVIOUS
<1>2. <<0, 0>> \in Keys
  BY OfficeBoundsAssumption DEF Keys
<1>3. p \in Pupils
  BY <1>1, <1>2 DEF Pupils
<1>4. p # NoRow
  BY <1>3, NoPupilAssumption
<1>5. pupils = [s \in Students |-> IF rows[s] = "there" THEN p ELSE NoRow]
  BY <1>1
<1>6. ~p.seen
  BY <1>1
<1>7. \A s \in Students : rows[s] \in {"new", "there"}
  BY DEF Items
<1> QED BY <1>3, <1>4, <1>5, <1>6, <1>7 DEF PupilsTyped

LEMMA LogsFirst == OfficeInit /\ rows \in [Items -> {"new", "there"}] => LogsTyped
<1> SUFFICES ASSUME OfficeInit, rows \in [Items -> {"new", "there"}] PROVE LogsTyped
  OBVIOUS
<1>1. PICK q \in [1..Cardinality(Enrolled) -> Enrolled] :
        trail = [i \in DOMAIN q |-> [what |-> "created", who |-> q[i]]]
  BY DEF OfficeInit
<1>2. Enrolled \subseteq Students /\ IsFiniteSet(Enrolled)
  BY ItemsAssumption, FS_Subset DEF Enrolled, Items
<1>3. Cardinality(Enrolled) \in Nat
  BY <1>2, FS_CardinalityType
<1>4. trail \in Seq(TrailRows) /\ \A i \in DOMAIN trail : rows[trail[i].who] = "there"
  <2>1. \A i \in DOMAIN q : [what |-> "created", who |-> q[i]] \in TrailRows
    BY <1>1, <1>2 DEF TrailRows
  <2>2. trail \in [1..Cardinality(Enrolled) -> TrailRows]
    BY <1>1, <2>1
  <2>3. \A i \in DOMAIN trail : trail[i].who \in Enrolled
    BY <1>1
  <2>4. \A i \in DOMAIN trail : rows[trail[i].who] = "there"
    BY <2>3 DEF Enrolled
  <2> QED BY <1>3, <2>2, <2>4
<1>5. PICK n \in 0..2 : saves \in [1..n -> Enrolled \cup {NoUser}]
  BY DEF OfficeInit
<1>6. saves \in Seq(Students \cup {NoUser}) /\ \A i \in DOMAIN saves : saves[i] \in Enrolled \cup {NoUser}
  <2>1. saves \in [1..n -> Students \cup {NoUser}]
    BY <1>2, <1>5
  <2> QED BY <1>5, <2>1
<1>7. scroll \in Scrolls
  BY DEF OfficeInit, NoScroll, Scrolls
<1> QED BY <1>4, <1>6, <1>7 DEF LogsTyped

LEMMA ShapedInit == Init => Shaped
<1> SUFFICES ASSUME Init PROVE Shaped
  OBVIOUS
<1>1. Typed
  BY TypedInit
<1>2. rows \in [Items -> {"new", "there"}]
  BY DEF Init, ListingsInit
<1>3. CatalogueTyped /\ turns \in 0..MaxTurns
  BY <1>2 DEF Init, ListingsInit, CatalogueTyped
<1>4. ClerkTyped
  BY DEF Init, ListingsInit, NoTask, ClerkTyped, Clerks
<1>5. WalkTyped
  <2>1. walk = NoWalk /\ NoWalk.step = "idle" /\ NoWalk.sort = "column"
    BY DEF Init, ListingsInit, NoWalk
  <2> QED BY <2>1, NoWalkTyped DEF WalkTyped
<1>6. DeskTyped
  <2>1. desk = [r \in Requests |-> NoBatch] /\ jobs \in 0..MaxJobs
    BY DEF Init, OfficeInit
  <2>2. InKind(NoBatch)
    BY NoBatchIs DEF InKind
  <2> QED BY <2>1, <2>2, NoBatchIs DEF DeskTyped
<1>7. PupilsTyped
  BY <1>2, PupilsFirst DEF Init, OfficeInit
<1>8. RowsHeld
  BY NoBatchIs DEF RowsHeld, Init, OfficeInit
<1>9. LogsTyped
  BY <1>2, LogsFirst DEF Init
<1>10. ReportTyped
  <2>1. face \in [Students -> Faces] /\ course \in [Events -> Courses] /\ early \subseteq opens
    BY DEF Init, InsightInit, Faces
  <2>2. opens \subseteq Students \X Events /\ sent \in 0..news /\ news \in 0..MaxNews
    <3>1. Enrolled \subseteq Students
      BY DEF Enrolled
    <3>2. news \in 0..MaxNews /\ sent = 0
      BY DEF Init, InsightInit
    <3>3. opens \in SUBSET (Enrolled \X Events)
      <4>1. opens \in SUBSET (Enrolled \X {e \in Happening : Announced(e)})
        BY DEF Init, InsightInit
      <4>2. {e \in Happening : Announced(e)} \subseteq Events
        BY DEF Happening
      <4> QED BY <4>1, <4>2
    <3> QED BY <3>1, <3>2, <3>3, NewsAssumption
  <2>3. ReportKept
    <3>1. report = NoReport /\ <<>> \in Seq(Figures)
      BY DEF Init, InsightInit
    <3> QED BY <3>1 DEF NoReport, ReportKept
  <2> QED BY <2>1, <2>2, <2>3 DEF ReportTyped
<1> QED BY <1>1, <1>3, <1>4, <1>5, <1>6, <1>7, <1>8, <1>9, <1>10 DEF Shaped

\* Every step of the office keeps its shape.
LEMMA ShapedNext == Shaped /\ [Next]_vars => Shaped'
<1> SUFFICES ASSUME Shaped, [Next]_vars PROVE Shaped'
  OBVIOUS
<1> USE DEF Shaped
<1>0. Batched /\ ReportKept
  BY DEF Batched, ReportTyped
<1>1. Typed'
  BY TypedNext
<1>2. \A u \in Users : Exists(u) => Exists(u)'
  BY RowsStay
<1>3. CASE AccountsNext /\ UNCHANGED <<listings, office, jobs, face, course, opens, early, sent, news>>
           /\ report' = Witnessed
  <2>1. CatalogueTyped' /\ ClerkTyped'
    BY <1>2, <1>3, CatalogueKept
  <2>2. WalkTyped' /\ (turns \in 0..MaxTurns)' /\ Forth /\ \A s \in Students : rows'[s] = rows[s]
    BY <1>3 DEF listings, WalkTyped, Forth
  <2>3. Batched' /\ LogsTyped'
    BY <1>0, <1>3, <2>2, OfficeKept
  <2>4. ReportTyped'
    BY <1>0, <1>3, WitnessTyped DEF ReportTyped
  <2> QED BY <1>1, <2>1, <2>2, <2>3, <2>4 DEF Batched
<1>4. CASE ListingsStep /\ UNCHANGED <<accounts, moves, office, jobs, face, course, opens, early, sent, news>>
           /\ report' = Witnessed
  <2>0. UNCHANGED users
    BY <1>4 DEF accounts
  <2>1. ASSUME Walk PROVE CatalogueTyped' /\ ClerkTyped' /\ WalkTyped' /\ turns' \in 0..MaxTurns
    <3>0. WalkTyped' /\ turns' \in 0..MaxTurns
      BY <2>1, WalksTyped
    <3>1. UNCHANGED <<groups, rows, home, links, shots, clerk>>
      BY <2>1 DEF Walk, Lists, ListStaff, ListStudents, ListEvents, BeginWalk, ReadScope, ReadRows,
         ReadTotal, ReadCounts, ScanIds, Hydrate, catalogue
    <3>2. CatalogueTyped' /\ ClerkTyped'
      <4>1. \A u : Exists(u)' = Exists(u)
        BY <2>0 DEF Exists
      <4>2. CatalogueTyped'
        BY <3>1, <4>1 DEF CatalogueTyped
      <4>3. ClerkTyped'
        BY <3>1, <4>1 DEF ClerkTyped
      <4> QED BY <4>2, <4>3
    <3> QED BY <3>0, <3>2
  <2>2. ASSUME Catalogue
        PROVE  CatalogueTyped' /\ ClerkTyped' /\ WalkTyped' /\ turns' \in 0..MaxTurns
    <3>1. CatalogueTyped' /\ ClerkTyped'
      BY <1>2, <2>0, <2>2, ChangesTyped, TasksTyped
    <3>2. walk' = walk /\ (turns' = turns \/ (turns' = turns + 1 /\ turns < MaxTurns))
      <4>1. ASSUME Changes PROVE walk' = walk /\ turns' = turns + 1
        BY <4>1 DEF Changes, CreateClass, DeleteClass, BeginAssign, BeginRemove, BeginTag, Match,
             BeginLink, Unlink, BeginReplace, Take, Turn
      <4>2. ASSUME ~(MoreTurns /\ Changes) PROVE UNCHANGED <<walk, turns>>
        BY <2>2, <4>2 DEF Catalogue, AssignStudents, RemoveStudent, TagEvent, CheckTeacher, LinkTeacher,
             SiftClass, ReplaceLinks
      <4> QED BY <4>1, <4>2 DEF MoreTurns
    <3>3. turns' \in 0..MaxTurns
      BY <3>2, PageAssumption
    <3>4. WalkTyped'
      <4>1. walk' = walk
        BY <3>2
      <4> QED BY <4>1 DEF WalkTyped
    <3> QED BY <3>1, <3>3, <3>4
  <2>3. CatalogueTyped' /\ ClerkTyped' /\ WalkTyped' /\ turns' \in 0..MaxTurns
    BY <1>4, <2>1, <2>2 DEF ListingsStep
  <2>4. Forth /\ \A s \in Students : rows'[s] = rows[s]
    BY <1>4, ListingsForth
  <2>5. Batched' /\ LogsTyped'
    BY <1>0, <1>4, <2>4, OfficeKept
  <2>6. ReportTyped'
    BY <1>0, <1>4, WitnessTyped DEF ReportTyped
  <2> QED BY <1>1, <2>3, <2>5, <2>6 DEF Batched
<1>5. CASE OfficeStep /\ UNCHANGED <<accounts, moves, face, course, opens, early, sent, news>>
           /\ report' = Witnessed
  <2>0. UNCHANGED users /\ \A u : Exists(u)' = Exists(u)
    BY <1>5 DEF accounts, Exists
  <2>1. ReportTyped'
    BY <1>0, <1>5, WitnessTyped DEF ReportTyped
  <2>2. CASE (Logs \/ \E r \in Requests : Batch(r)) /\ UNCHANGED <<clerk, walk, turns>>
    <3>1. CatalogueTyped' /\ Batched' /\ LogsTyped'
      <4>1. CASE Logs
        <5>1. LogsTyped' /\ Batched' /\ UNCHANGED <<catalogue, pupils>>
          BY <1>0, <4>1, LogsLogged
        <5> QED BY <2>0, <5>1 DEF catalogue, CatalogueTyped
      <4>2. ASSUME NEW r \in Requests, AtWork(r), Works(r)
            PROVE  CatalogueTyped' /\ Batched' /\ LogsTyped'
        BY <1>0, <2>0, <4>2, WorksBatched, WorksCatalogue, WorksLogs DEF CatalogueTyped
      <4>3. ASSUME NEW r \in Requests, ~AtWork(r), MoreJobs, Asks(r)
            PROVE  CatalogueTyped' /\ Batched' /\ LogsTyped'
        <5>1. Batched' /\ UNCHANGED <<catalogue, pupils, trail, saves, scroll>>
          BY <1>0, <4>3, AsksBatched
        <5> QED BY <2>0, <5>1 DEF catalogue, CatalogueTyped, LogsTyped, Enrolled
      <4> QED BY <2>2, <4>1, <4>2, <4>3 DEF Batch
    <3>2. ClerkTyped' /\ WalkTyped' /\ turns' \in 0..MaxTurns
      BY <2>0, <2>2 DEF ClerkTyped, WalkTyped
    <3> QED BY <1>1, <2>1, <3>1, <3>2 DEF Batched
  <2>3. CASE MoreTurns /\ \E s \in Students : CreateStudent(s) \/ DeleteStudent(s)
    <3>1. PICK s \in Students : CreateStudent(s) \/ DeleteStudent(s)
      BY <2>3
    <3>2. jobs' = jobs /\ turns' = turns + 1
      BY <3>1 DEF CreateStudent, DeleteStudent, Enter, Delete, Turn
    <3>3. CatalogueTyped' /\ Batched' /\ LogsTyped' /\ UNCHANGED <<clerk, walk>>
      BY <1>0, <2>0, <3>1, <3>2, ComesTyped
    <3>4. ClerkTyped' /\ WalkTyped' /\ turns' \in 0..MaxTurns
      BY <2>0, <2>3, <3>2, <3>3, PageAssumption DEF ClerkTyped, WalkTyped, MoreTurns
    <3> QED BY <1>1, <2>1, <3>3, <3>4 DEF Batched
  <2> QED BY <1>5, <2>2, <2>3 DEF OfficeStep
<1>6. CASE InsightStep /\ UNCHANGED <<accounts, moves, listings, desk, trail, saves, scroll, deeds,
                                      slips, handed, swapped, jobs>>
  <2>1. CatalogueTyped' /\ ClerkTyped'
    BY <1>2, <1>6, CatalogueKept
  <2>2. WalkTyped' /\ (turns \in 0..MaxTurns)' /\ rows' = rows
    BY <1>6 DEF listings, WalkTyped
  <2>3. LogsTyped'
    BY <1>6, <2>2 DEF LogsTyped, Enrolled
  <2>4. DeskTyped'
    <3>1. \A r \in Requests : InKind(desk[r])
      BY DEF DeskTyped
    <3>2. \A r \in Requests : InKind(desk[r])'
      BY <1>6, <3>1 DEF InKind
    <3> QED BY <1>6, <3>2 DEF DeskTyped
  <2>5. \A r \in Requests : Who(r)' = Who(r)
    BY <1>6 DEF Who, Row
  <2>6. CASE UNCHANGED <<pupils, face, course, opens, early, sent>> /\ ReportKept' /\ news' \in 0..MaxNews
             /\ news <= news'
    <3>1. PupilsTyped' /\ RowsHeld'
      BY <1>6, <2>2, <2>5, <2>6 DEF PupilsTyped, RowsHeld
    <3>2. ReportTyped'
      BY <2>6 DEF ReportTyped
    <3> QED BY <1>1, <2>1, <2>2, <2>3, <2>4, <3>1, <3>2
  <2>7. CASE MoreNews /\ Happens /\ report' = Witnessed
    <3>1. /\ face' \in [Students -> Faces] /\ course' \in [Events -> Courses]
          /\ opens' \subseteq Students \X Events /\ early' \subseteq opens'
          /\ sent' \in 0..news' /\ news' \in 0..MaxNews
          /\ PupilsTyped'
          /\ \A s \in Students : /\ pupils'[s] = NoRow <=> pupils[s] = NoRow
                                 /\ pupils[s] # NoRow => pupils'[s].active = pupils[s].active
      BY <2>2, <2>7, HappensTyped
    <3>2. RowsHeld'
      <4>1. \A r \in Requests : desk[r].step \in Past \cup Waits => Who(r) \in Students
        BY <1>0, RowInHand DEF AtWork, Past, Waits, Batched
      <4> QED BY <1>6, <2>2, <2>5, <3>1, <4>1 DEF RowsHeld, Past, Waits
    <3>3. ReportKept'
      BY <1>0, <2>7, WitnessTyped
    <3> QED BY <1>1, <2>1, <2>2, <2>3, <2>4, <3>1, <3>2, <3>3 DEF ReportTyped
  <2>8. news \in 0..MaxNews /\ MaxNews \in Nat
    BY NewsAssumption DEF ReportTyped
  <2>9. ASSUME MoreNews, NEW kind \in DOMAIN Plan, BeginReport(kind)
        PROVE  UNCHANGED <<pupils, face, course, opens, early, sent>> /\ ReportKept' /\ news' \in 0..MaxNews
               /\ news <= news'
    <3>1. ReportKept'
      BY <2>9, BeginKept
    <3>2. UNCHANGED <<pupils, face, course, opens, early, sent>> /\ news' = news + 1
      BY <2>9 DEF BeginReport, News
    <3> QED BY <2>8, <2>9, <3>1, <3>2 DEF MoreNews
  <2>10. ASSUME ReadNext
         PROVE  UNCHANGED <<pupils, face, course, opens, early, sent>> /\ ReportKept' /\ news' \in 0..MaxNews
                /\ news <= news'
    <3>1. ReportKept'
      BY <2>10, ReadNextKept
    <3>2. UNCHANGED <<pupils, face, course, opens, early, sent, news>>
      BY <2>10 DEF ReadNext
    <3> QED BY <2>8, <3>1, <3>2
  <2> QED BY <1>6, <2>6, <2>7, <2>9, <2>10 DEF InsightStep
<1>7. CASE UNCHANGED vars
  <2>1. UNCHANGED <<users, groups, rows, home, links, shots, clerk, walk, turns, pupils, desk, trail,
                    saves, scroll, jobs, face, course, opens, early, sent, report, news>>
    BY <1>7 DEF vars, accounts, listings, office, insight
  <2>2. CatalogueTyped' /\ ClerkTyped' /\ WalkTyped' /\ turns' \in 0..MaxTurns
    BY <2>1 DEF CatalogueTyped, ClerkTyped, WalkTyped, Exists
  <2>3. DeskTyped'
    <3>1. \A r \in Requests : InKind(desk[r])
      BY DEF DeskTyped
    <3>2. \A r \in Requests : InKind(desk[r])'
      BY <2>1, <3>1 DEF InKind
    <3> QED BY <2>1, <3>2 DEF DeskTyped
  <2>4. PupilsTyped' /\ RowsHeld' /\ LogsTyped'
    BY <2>1 DEF PupilsTyped, RowsHeld, Who, Row, LogsTyped, Enrolled
  <2>5. ReportTyped'
    BY <2>1 DEF ReportTyped, ReportKept
  <2> QED BY <1>1, <2>2, <2>3, <2>4, <2>5
<1> QED BY <1>3, <1>4, <1>5, <1>6, <1>7, Parts

\* What TypeOK says follows from the shape.
LEMMA ShapedIsTyped == Shaped => TypeOK
<1> SUFFICES ASSUME Shaped PROVE TypeOK
  OBVIOUS
<1> USE DEF Shaped
<1>1. AccountsTyped
  BY TypedIsTyped
<1>2. ListingsTyped
  BY DEF CatalogueTyped, ClerkTyped, WalkTyped, Clerks, Walks, ListingsTyped
<1>3. OfficeTyped
  <2>1. \A r \in Requests : /\ desk[r].cache \in [Names -> Groups \cup {NoGroup}]
                            /\ desk[r].step \notin {"idle", "done"} => desk[r].list # <<>>
    BY DEF DeskTyped, InKind, Desks
  <2> QED BY <2>1 DEF DeskTyped, PupilsTyped, LogsTyped, OfficeTyped
<1>4. InsightTyped
  <2>1. sent \in 0..MaxNews
    BY NewsAssumption DEF ReportTyped
  <2> QED BY <2>1 DEF ReportTyped, ReportKept, InsightTyped, Faces
<1> QED BY <1>1, <1>2, <1>3, <1>4 DEF TypeOK

LEMMA AlwaysShaped == Spec => []Shaped
BY ShapedInit, ShapedNext, PTL DEF Spec

\* Every variable of the office has the values the code can give it: what names a class, a
\* teacher or a login names one that is there, whatever is deleted in between.
THEOREM TypesHold == Spec => []TypeOK
BY AlwaysShaped, ShapedIsTyped, PTL

------------------------------------------------------------------------------
(* A list read to its end.                                                 *)

\* How far down the list the walk has come.
Edge(w) ==
  IF w.step \in {"total", "hydrate"} THEN (w.page + 1) * PageSize ELSE w.page * PageSize

Between == {"page", "rows", "counts", "ids"}

\* Who has kept their place or lost it downwards is shown already or still to come.
NoneMissed(w) ==
  \A x \in ListRows \ w.fell :
    /\ w.step \in Between \cup {"total"} => w.shown[x] >= 1 \/ w.place[x] >= Edge(w) \/ Edge(w) = 0
    /\ w.step = "hydrate" =>
         w.shown[x] >= 1 \/ x \in w.ids \/ (w.place[x] >= Edge(w) /\ Edge(w) < w.total)
    /\ w.step = "done" => w.shown[x] >= 1 \/ x \in w.beyond

\* Who has kept their place or moved up is shown once, and left behind.
NoneTwice(w) ==
  \A x \in ListRows \ w.rose :
    /\ w.shown[x] <= 1
    /\ w.step \in Between \cup {"total", "hydrate"} /\ w.shown[x] = 1 =>
         w.place[x] >= 0 /\ w.place[x] < Edge(w)
    /\ w.step = "hydrate" /\ x \in w.ids =>
         w.place[x] >= 0 /\ w.place[x] < Edge(w) /\ w.shown[x] = 0

\* A page is no longer than it may be, and no more is loaded than fits on so many.
PageFits(w) ==
  /\ w.loaded <= IF w.step = "total" THEN (w.page + 1) * PageSize ELSE w.page * PageSize
  /\ w.step = "total" => w.got <= PageSize
  /\ w.step = "hydrate" => IsFiniteSet(w.ids) /\ Cardinality(w.ids) <= PageSize

Paged == NoneMissed(walk) /\ NoneTwice(walk) /\ PageFits(walk)

\* The order of a list: a comparison of keys, and of ids where they are the same.
LEMMA KeysOrder ==
  ASSUME NEW roster \in BOOLEAN, NEW down \in BOOLEAN,
         NEW k \in Nat, NEW l \in Nat, NEW m \in Nat, NEW a \in Nat, NEW b \in Nat, NEW c \in Nat
  PROVE  LET B(i, p, j, q) ==
               IF (roster /\ i = 0) # (roster /\ j = 0) THEN roster /\ j = 0
               ELSE IF i # j THEN (IF down THEN i > j ELSE i < j)
               ELSE IF down THEN p > q ELSE p < q
         IN /\ ~B(k, a, k, a)
            /\ B(k, a, l, b) \/ B(l, b, k, a) \/ a = b
            /\ B(k, a, l, b) /\ B(l, b, m, c) => B(k, a, m, c)
<1>1. CASE roster /\ down
  BY <1>1
<1>2. CASE roster /\ ~down
  BY <1>2
<1>3. CASE ~roster /\ down
  BY <1>3
<1>4. CASE ~roster /\ ~down
  BY <1>4
<1> QED BY <1>1, <1>2, <1>3, <1>4

\* Before is a strict total order of what is listed.
LEMMA ListOrder ==
  ASSUME Typed, NEW w \in Walks,
         NEW x \in Filtered(w), NEW y \in Filtered(w), NEW z \in Filtered(w)
  PROVE  /\ ~Before(w, x, x)
         /\ x = y \/ Before(w, x, y) \/ Before(w, y, x)
         /\ Before(w, x, y) /\ Before(w, y, z) => Before(w, x, z)
<1>1. x \in ListRows /\ y \in ListRows /\ z \in ListRows
  BY ListFinite
<1>2. \A u \in Filtered(w) : KeyOf(w, u) \in Nat
  <2> TAKE u \in Filtered(w)
  <2>1. u \in ListRows
    BY ListFinite
  <2>2. CASE w.sort = "count"
    BY <2>1, <2>2 DEF KeyOf, Walks
  <2>3. CASE w.sort # "count" /\ w.kind = "roster"
    <3>1. u \in Teachers /\ Exists(u)
      BY <2>3 DEF Filtered, TeachersListed
    <3>2. users[u] \in Rows
      BY <3>1 DEF Typed, UsersTyped, Exists, Users
    <3> QED BY <2>3, <3>2 DEF KeyOf, Rows
  <2>4. CASE w.sort # "count" /\ w.kind # "roster"
    BY <2>4 DEF KeyOf
  <2> QED BY <2>2, <2>3, <2>4
<1>3. PICK k, l, m \in Nat : k = KeyOf(w, x) /\ l = KeyOf(w, y) /\ m = KeyOf(w, z)
  BY <1>2
<1>4. PICK a, b, c \in Nat : a = Rank[x] /\ b = Rank[y] /\ c = Rank[z]
  BY <1>1, RankAssumption
<1>5. PICK roster \in BOOLEAN : roster = (w.kind = "roster")
  OBVIOUS
<1>6. PICK down \in BOOLEAN : down = w.down
  BY DEF Walks
<1> DEFINE B(i, p, j, q) ==
      IF (roster /\ i = 0) # (roster /\ j = 0) THEN roster /\ j = 0
      ELSE IF i # j THEN (IF down THEN i > j ELSE i < j)
      ELSE IF down THEN p > q ELSE p < q
<1>7. /\ Before(w, x, x) <=> B(k, a, k, a)
      /\ Before(w, x, y) <=> B(k, a, l, b)
      /\ Before(w, y, x) <=> B(l, b, k, a)
      /\ Before(w, y, z) <=> B(l, b, m, c)
      /\ Before(w, x, z) <=> B(k, a, m, c)
  BY <1>3, <1>4, <1>5, <1>6 DEF Before
<1>8. /\ ~B(k, a, k, a)
      /\ B(k, a, l, b) \/ B(l, b, k, a) \/ a = b
      /\ B(k, a, l, b) /\ B(l, b, m, c) => B(k, a, m, c)
  BY <1>3, <1>4, <1>5, <1>6, KeysOrder
<1>9. a = b => x = y
  BY <1>1, <1>4, RankAssumption
<1> HIDE DEF B
<1> QED BY <1>7, <1>8, <1>9

\* Every row has its place, and they are as many as the rows.
LEMMA PlacesDiffer ==
  ASSUME Typed, NEW w \in Walks, NEW x \in Filtered(w)
  PROVE  /\ Place(w, x) \in Nat /\ Place(w, x) < Total(w)
         /\ \A y \in Filtered(w) : Place(w, x) = Place(w, y) => x = y
<1> DEFINE Ahead(y) == {z \in Filtered(w) : Before(w, z, y)}
<1>1. \A y : /\ Ahead(y) \subseteq Filtered(w) /\ IsFiniteSet(Ahead(y))
             /\ Place(w, y) = Cardinality(Ahead(y)) /\ Cardinality(Ahead(y)) \in Nat
  <2> TAKE y
  <2>1. Ahead(y) \subseteq Filtered(w)
    OBVIOUS
  <2>2. Place(w, y) = Cardinality(Ahead(y))
    BY DEF Place
  <2> HIDE DEF Ahead
  <2> QED BY <2>1, <2>2, PartCounted
<1>2. \A y \in Filtered(w) : y \notin Ahead(y)
  BY ListOrder
<1>3. \A y, z \in Filtered(w) : Before(w, y, z) => Ahead(y) \subseteq Ahead(z) /\ y \in Ahead(z)
  BY ListOrder
<1> HIDE DEF Ahead
<1>4. Place(w, x) < Total(w)
  <2>1. IsFiniteSet(Filtered(w)) /\ Total(w) = Cardinality(Filtered(w)) /\ Total(w) \in Nat
    BY ListFinite DEF Total
  <2>2. Ahead(x) \in SUBSET Filtered(w) /\ Ahead(x) # Filtered(w)
    BY <1>1, <1>2
  <2>3. /\ Cardinality(Ahead(x)) <= Cardinality(Filtered(w))
        /\ Cardinality(Ahead(x)) # Cardinality(Filtered(w))
    BY <2>1, <2>2, FS_Subset
  <2> QED BY <1>1, <2>1, <2>3
<1>5. ASSUME NEW y \in Filtered(w), NEW z \in Filtered(w), Before(w, y, z)
      PROVE  Place(w, y) # Place(w, z)
  <2>1. Ahead(y) \in SUBSET Ahead(z) /\ Ahead(y) # Ahead(z) /\ IsFiniteSet(Ahead(z))
    BY <1>1, <1>2, <1>3, <1>5
  <2>2. Cardinality(Ahead(y)) # Cardinality(Ahead(z))
    BY <2>1, FS_Subset
  <2> QED BY <1>1, <2>2
<1>6. ASSUME NEW y \in Filtered(w), Place(w, x) = Place(w, y) PROVE x = y
  BY <1>5, <1>6, ListOrder
<1> QED BY <1>1, <1>4, <1>6

\* So that no page is longer than it may be.
LEMMA PageSized ==
  ASSUME Typed, NEW w \in Walks
  PROVE  IsFiniteSet(PageOf(w)) /\ Cardinality(PageOf(w)) \in Nat /\ Cardinality(PageOf(w)) <= PageSize
<1>1. PageOf(w) \subseteq Filtered(w) /\ w.page \in Nat /\ PageSize \in Nat
  BY PageAssumption DEF PageOf, Walks
<1>2. PICK lo \in Nat : lo = w.page * PageSize
  BY <1>1
<1>3. (w.page + 1) * PageSize = lo + PageSize
  BY <1>1, <1>2
<1>4. PICK f : f = [x \in PageOf(w) |-> Place(w, x)]
  OBVIOUS
<1>5. \A x \in PageOf(w) : Place(w, x) \in lo..(lo + PageSize - 1)
  <2> TAKE x \in PageOf(w)
  <2>1. Place(w, x) \in Nat /\ Place(w, x) >= lo /\ Place(w, x) < lo + PageSize
    BY <1>2, <1>3, PlaceTyped DEF PageOf
  <2> QED BY <1>1, <2>1
<1>6. f \in Injection(PageOf(w), lo..(lo + PageSize - 1))
  <2>1. f \in [PageOf(w) -> lo..(lo + PageSize - 1)]
    BY <1>4, <1>5
  <2>2. \A x, y \in PageOf(w) : f[x] = f[y] => x = y
    BY <1>1, <1>4, PlacesDiffer
  <2> QED BY <2>1, <2>2 DEF Injection, IsInjective
<1>7. /\ IsFiniteSet(lo..(lo + PageSize - 1))
      /\ Cardinality(lo..(lo + PageSize - 1)) = PageSize
  BY <1>1, FS_Interval, PageAssumption
<1>8. Cardinality(PageOf(w)) <= PageSize
  BY <1>6, <1>7, FS_Injection
<1> QED BY <1>1, <1>8, PartCounted

\* What a look at the list does to a row's record.
LEMMA Looked ==
  ASSUME NEW w \in Walks, NEW x \in ListRows
  PROVE  /\ x \notin Watched(w).fell => /\ x \notin w.fell /\ x \in Filtered(w)
                                        /\ Watched(w).place[x] >= w.place[x]
         /\ x \in Filtered(w) => Watched(w).place[x] = Place(w, x) /\ Place(w, x) \in Nat
         /\ x \notin Filtered(w) => Watched(w).place[x] = w.place[x]
         /\ x \notin Watched(w).rose =>
              x \notin w.rose /\ (w.place[x] >= 0 => Watched(w).place[x] <= w.place[x])
         /\ w.place[x] >= 0 => Watched(w).place[x] >= 0
<1> DEFINE n == [y \in ListRows |-> IF y \in Filtered(w) THEN Place(w, y) ELSE w.place[y]]
           F == w.fell \cup {y \in ListRows : y \notin Filtered(w) \/ Place(w, y) < w.place[y]}
           R == w.rose \cup {y \in Filtered(w) : w.place[y] >= 0 /\ Place(w, y) > w.place[y]}
<1>1. Watched(w) = [w EXCEPT !.place = n, !.fell = F, !.rose = R]
  BY DEF Watched, Walks
<1>2. /\ n[x] = IF x \in Filtered(w) THEN Place(w, x) ELSE w.place[x]
      /\ x \notin F => x \notin w.fell /\ x \in Filtered(w) /\ ~(Place(w, x) < w.place[x])
      /\ x \notin R => x \notin w.rose /\ (x \in Filtered(w) /\ w.place[x] >= 0 => ~(Place(w, x) > w.place[x]))
  OBVIOUS
<1> HIDE DEF n, F, R
<1>3. Watched(w).place = n /\ Watched(w).fell = F /\ Watched(w).rose = R
  BY <1>1 DEF Walks
<1>4. Place(w, x) \in Nat /\ w.place[x] \in Int
  BY PlaceTyped DEF Walks
<1> QED BY <1>2, <1>3, <1>4

\* What showing a page does to it.
LEMMA Shows ==
  ASSUME NEW w \in Walks, NEW Q, NEW x \in ListRows
  PROVE  /\ Showing(w, Q).place = w.place /\ Showing(w, Q).fell = w.fell /\ Showing(w, Q).rose = w.rose
         /\ Showing(w, Q).got = Cardinality(Q)
         /\ Showing(w, Q).loaded = w.loaded + Cardinality(Q)
         /\ x \notin Q => Showing(w, Q).shown[x] = w.shown[x]
         /\ x \in Q => Showing(w, Q).shown[x] = IF w.shown[x] < 2 THEN w.shown[x] + 1 ELSE w.shown[x]
         /\ w.shown[x] \in 0..2
<1> DEFINE n == [y \in ListRows |-> IF y \in Q /\ w.shown[y] < 2 THEN w.shown[y] + 1 ELSE w.shown[y]]
<1>1. Showing(w, Q) = [w EXCEPT !.shown = n, !.got = Cardinality(Q),
                                !.loaded = w.loaded + Cardinality(Q)]
  BY DEF Showing, Walks
<1>2. n[x] = IF x \in Q /\ w.shown[x] < 2 THEN w.shown[x] + 1 ELSE w.shown[x]
  OBVIOUS
<1> HIDE DEF n
<1>3. /\ Showing(w, Q).place = w.place /\ Showing(w, Q).fell = w.fell /\ Showing(w, Q).rose = w.rose
      /\ Showing(w, Q).got = Cardinality(Q) /\ Showing(w, Q).shown = n
      /\ Showing(w, Q).loaded = w.loaded + Cardinality(Q)
  BY <1>1 DEF Walks
<1>4. w.shown[x] \in 0..2
  BY DEF Walks
<1> QED BY <1>2, <1>3, <1>4

\* The next page is turned to, or the list has been read.
LEMMA Turns ==
  ASSUME NEW w \in Walks
  PROVE  /\ Ends(w) =>
              /\ Turned(w).step = "done" /\ Turned(w).shown = w.shown
              /\ Turned(w).fell = w.fell /\ Turned(w).rose = w.rose
              /\ Turned(w).beyond = {x \in ListRows : w.place[x] >= FirstTotal(w)}
              /\ Turned(w).page = 0 /\ Turned(w).loaded = 0
         /\ ~Ends(w) =>
              /\ Turned(w).step = "page" /\ Turned(w).page = w.page + 1 /\ Turned(w).shown = w.shown
              /\ Turned(w).fell = w.fell /\ Turned(w).rose = w.rose /\ Turned(w).place = w.place
              /\ Turned(w).loaded = w.loaded
<1>1. ASSUME Ends(w)
      PROVE  /\ Turned(w).step = "done" /\ Turned(w).shown = w.shown
             /\ Turned(w).fell = w.fell /\ Turned(w).rose = w.rose
             /\ Turned(w).beyond = {x \in ListRows : w.place[x] >= FirstTotal(w)}
             /\ Turned(w).page = 0 /\ Turned(w).loaded = 0
  <2>1. PICK b : b = {x \in ListRows : w.place[x] >= FirstTotal(w)}
    OBVIOUS
  <2>2. Turned(w) = [NoWalk EXCEPT !.step = "done", !.shown = w.shown, !.fell = w.fell,
                                   !.rose = w.rose, !.beyond = b]
    BY <1>1, <2>1 DEF Turned, Ends, FirstTotal
  <2>3. /\ Turned(w).step = "done" /\ Turned(w).shown = w.shown
        /\ Turned(w).fell = w.fell /\ Turned(w).rose = w.rose /\ Turned(w).beyond = b
        /\ Turned(w).page = 0 /\ Turned(w).loaded = 0
    BY <2>2 DEF NoWalk
  <2> QED BY <2>1, <2>3
<1>2. ASSUME ~Ends(w)
      PROVE  /\ Turned(w).step = "page" /\ Turned(w).page = w.page + 1 /\ Turned(w).shown = w.shown
             /\ Turned(w).fell = w.fell /\ Turned(w).rose = w.rose /\ Turned(w).place = w.place
             /\ Turned(w).loaded = w.loaded
  <2>1. Turned(w) = [w EXCEPT !.step = "page", !.page = w.page + 1, !.first = FirstTotal(w)]
    BY <1>2 DEF Turned, Walks, Ends, FirstTotal
  <2> QED BY <2>1 DEF Walks
<1> QED BY <1>1, <1>2

\* Bounds of pages.
LEMMA Edges ==
  ASSUME NEW w \in Walks
  PROVE  /\ PageSize \in Nat /\ w.page * PageSize \in Nat
         /\ (w.page + 1) * PageSize = w.page * PageSize + PageSize
         /\ (w.page + 1) * PageSize > 0
         /\ w.page * PageSize = 0 \/ w.page * PageSize > 0
         /\ w.page = 0 => w.page * PageSize = 0
<1>1. w.page \in Nat /\ PageSize \in Nat \ {0}
  BY PageAssumption DEF Walks
<1>2. \A p, q \in Nat : p * q \in Nat /\ (p + 1) * q = p * q + q /\ 0 * q = 0
  OBVIOUS
<1>3. /\ w.page * PageSize \in Nat /\ (w.page + 1) * PageSize = w.page * PageSize + PageSize
      /\ w.page = 0 => w.page * PageSize = 0
  BY <1>1, <1>2
<1> QED BY <1>1, <1>3

LEMMA NothingLoaded ==
  ASSUME NEW w, w.page = 0, w.loaded = 0, w.step \notin {"total", "hydrate"}
  PROVE  PageFits(w)
<1>1. \A q \in Nat : 0 * q = 0
  OBVIOUS
<1>2. w.page * PageSize = 0
  BY <1>1, PageAssumption
<1> QED BY <1>2 DEF PageFits

\* A walk that has shown nothing.
LEMMA BlankPaged ==
  ASSUME NEW w \in Walks, w.step \in {"idle", "page"}, w.page = 0, w.loaded = 0,
         \A x \in ListRows : w.shown[x] = 0
  PROVE  NoneMissed(w) /\ NoneTwice(w) /\ PageFits(w)
<1>1. w.page * PageSize = 0 /\ Edge(w) = 0
  BY Edges DEF Edge
<1>2. NoneMissed(w)
  BY <1>1 DEF NoneMissed
<1>3. NoneTwice(w)
  BY DEF NoneTwice
<1> QED BY <1>2, <1>3, NothingLoaded

LEMMA NoWalkPaged == NoneMissed(NoWalk) /\ NoneTwice(NoWalk) /\ PageFits(NoWalk)
BY NoWalkTyped, BlankPaged DEF NoWalk

LEMMA BegunPaged ==
  ASSUME NEW kind \in {"roster", "students", "events"}, NEW sort \in {"column", "count"},
         NEW down \in BOOLEAN, NEW t \in Teachers \cup {NoUser}, BeginWalk(kind, sort, down, t)
  PROVE  Paged'
<1>1. walk' = [NoWalk EXCEPT !.kind = kind, !.sort = sort, !.down = down, !.mine = t, !.step = "page"]
  BY DEF BeginWalk
<1>2. walk' \in Walks /\ walk'.step = "page"
  BY <1>1, NoWalkTyped DEF Walks
<1>3. walk'.page = 0 /\ walk'.loaded = 0 /\ walk'.shown = [x \in ListRows |-> 0]
  BY <1>1 DEF NoWalk
<1>4. \A w \in Walks : w.step \in {"idle", "page"} /\ w.page = 0 /\ w.loaded = 0
                         /\ w.shown = [x \in ListRows |-> 0]
                       => NoneMissed(w) /\ NoneTwice(w) /\ PageFits(w)
  BY BlankPaged
<1>5. NoneMissed(walk') /\ NoneTwice(walk') /\ PageFits(walk')
  BY <1>2, <1>3, <1>4
<1> QED BY <1>5 DEF Paged

\* A step within a page that looks at nothing.
LEMMA ScopePaged ==
  ASSUME walk \in Walks, Paged, ReadScope \/ ReadCounts
  PROVE  Paged'
<1>1. CASE walk' = NoWalk
  BY <1>1, NoWalkPaged DEF Paged
<1>2. CASE walk' # NoWalk
  <2>1. /\ walk'.fell = walk.fell /\ walk'.rose = walk.rose /\ walk'.shown = walk.shown
        /\ walk'.place = walk.place /\ walk'.page = walk.page /\ walk'.loaded = walk.loaded
        /\ walk.step \in Between /\ walk'.step \in Between
    BY <1>2 DEF ReadScope, ReadCounts, Walks, Between
  <2>2. Edge(walk') = Edge(walk)
    BY <2>1 DEF Edge, Between
  <2>3. NoneMissed(walk')
    BY <2>1, <2>2 DEF NoneMissed, Paged, Between
  <2>4. NoneTwice(walk')
    BY <2>1, <2>2 DEF NoneTwice, Paged, Between
  <2> QED BY <2>1, <2>3, <2>4 DEF Paged, PageFits, Between
<1> QED BY <1>1, <1>2

LEMMA RowsPaged ==
  ASSUME Typed, walk \in Walks, Paged, ReadRows
  PROVE  Paged'
<1> DEFINE v == Watched(walk)
           q == Showing(v, PageOf(walk))
           P == walk.page * PageSize
<1>1. walk' = [q EXCEPT !.step = "total"] /\ walk.step = "rows"
  BY OnePage DEF ReadRows
<1>2. v \in Walks /\ SameList(v, walk) /\ v.shown = walk.shown
  BY WatchedTyped
<1>3. Cardinality(PageOf(walk)) \in Nat /\ Cardinality(PageOf(walk)) <= PageSize
  BY PageSized
<1>4. q \in Walks /\ SameList(q, v)
  BY <1>2, <1>3, ShowingTyped
<1>5. /\ walk'.step = "total" /\ walk'.page = walk.page /\ walk'.fell = q.fell /\ walk'.rose = q.rose
      /\ walk'.shown = q.shown /\ walk'.place = q.place /\ walk'.got = q.got
      /\ walk'.loaded = q.loaded
  BY <1>1, <1>2, <1>4 DEF Walks, SameList
<1>6. /\ P \in Nat /\ PageSize \in Nat /\ Edge(walk) = P /\ Edge(walk') = P + PageSize
      /\ (walk.page + 1) * PageSize = P + PageSize /\ P + PageSize > 0
  BY <1>1, <1>5, Edges DEF Edge
<1>7. ASSUME NEW x \in ListRows
      PROVE  /\ x \notin walk'.fell => walk'.shown[x] >= 1 \/ walk'.place[x] >= P + PageSize
             /\ x \notin walk'.rose => /\ walk'.shown[x] <= 1
                                       /\ walk'.shown[x] = 1 => walk'.place[x] >= 0 /\ walk'.place[x] < P + PageSize
  <2>1. /\ x \notin v.fell => /\ x \notin walk.fell /\ x \in Filtered(walk)
                              /\ v.place[x] >= walk.place[x]
        /\ x \in Filtered(walk) => v.place[x] = Place(walk, x) /\ Place(walk, x) \in Nat
        /\ x \notin Filtered(walk) => v.place[x] = walk.place[x]
        /\ x \notin v.rose => x \notin walk.rose /\ (walk.place[x] >= 0 => v.place[x] <= walk.place[x])
        /\ walk.place[x] >= 0 => v.place[x] >= 0
    BY Looked
  <2>2. /\ q.place = v.place /\ q.fell = v.fell /\ q.rose = v.rose
        /\ x \notin PageOf(walk) => q.shown[x] = walk.shown[x]
        /\ x \in PageOf(walk) => q.shown[x] = IF walk.shown[x] < 2 THEN walk.shown[x] + 1 ELSE walk.shown[x]
        /\ walk.shown[x] \in 0..2
    BY <1>2, Shows
  <2>3. x \in PageOf(walk) <=> x \in Filtered(walk) /\ Place(walk, x) >= P /\ Place(walk, x) < P + PageSize
    BY <1>6 DEF PageOf
  <2>4. /\ x \notin walk.fell => walk.shown[x] >= 1 \/ walk.place[x] >= P \/ P = 0
        /\ x \notin walk.rose => /\ walk.shown[x] <= 1
                                 /\ walk.shown[x] = 1 => walk.place[x] >= 0 /\ walk.place[x] < P
    BY <1>1, <1>6 DEF Paged, NoneMissed, NoneTwice, Between
  <2>5. walk.place[x] \in Int /\ v.place[x] \in Int
    BY <1>2 DEF Walks
  <2> HIDE DEF v, q, P
  <2>6. x \notin walk'.fell => walk'.shown[x] >= 1 \/ walk'.place[x] >= P + PageSize
    BY <1>5, <1>6, <2>1, <2>2, <2>3, <2>4, <2>5
  <2>7. x \notin walk'.rose => /\ walk'.shown[x] <= 1
                               /\ walk'.shown[x] = 1 => walk'.place[x] >= 0 /\ walk'.place[x] < P + PageSize
    BY <1>5, <1>6, <2>1, <2>2, <2>3, <2>4, <2>5
  <2> QED BY <2>6, <2>7
<1>8. /\ q.got = Cardinality(PageOf(walk)) /\ q.loaded = walk.loaded + Cardinality(PageOf(walk))
      /\ walk.loaded \in Nat /\ walk.loaded <= P
  <2>1. q.got = Cardinality(PageOf(walk)) /\ q.loaded = v.loaded + Cardinality(PageOf(walk))
    BY <1>2, <1>3, ShowingTyped
  <2>2. v.loaded = walk.loaded
    BY WatchedTyped
  <2>3. walk.loaded \in Nat /\ walk.loaded <= P
    BY <1>1 DEF Paged, PageFits, Walks
  <2> QED BY <2>1, <2>2, <2>3
<1> HIDE DEF v, q, P
<1>9. NoneMissed(walk')
  BY <1>5, <1>6, <1>7 DEF NoneMissed, Between
<1>10. NoneTwice(walk')
  BY <1>5, <1>6, <1>7 DEF NoneTwice, Between
<1>11. PageFits(walk')
  BY <1>3, <1>5, <1>6, <1>8 DEF PageFits
<1> QED BY <1>9, <1>10, <1>11 DEF Paged

\* The totals the client compares with: what it leaves out now would be too far down the list,
\* or stands where the list had no place when it was begun.
LEMMA TotalPaged ==
  ASSUME Typed, walk \in Walks, Paged, ReadTotal
  PROVE  Paged'
<1> DEFINE v == Watched(walk)
           t == [v EXCEPT !.total = Total(walk)]
           P == walk.page * PageSize
<1>1. walk' = Turned(t) /\ walk.step = "total"
  BY DEF ReadTotal
<1>2. /\ v \in Walks /\ SameList(v, walk) /\ v.got = walk.got /\ v.shown = walk.shown
      /\ v.loaded = walk.loaded
  BY WatchedTyped
<1>3. Total(walk) \in Nat
  BY ListFinite
<1>4. /\ t \in Walks /\ t.total = Total(walk) /\ t.page = walk.page /\ t.got = walk.got
      /\ t.shown = walk.shown /\ t.place = v.place /\ t.fell = v.fell /\ t.rose = v.rose
      /\ t.loaded = walk.loaded
  BY <1>2, <1>3 DEF Walks, SameList
<1>5. /\ P \in Nat /\ PageSize \in Nat /\ Edge(walk) = P + PageSize
      /\ (walk.page + 1) * PageSize = P + PageSize /\ P + PageSize > 0
      /\ walk.got \in Nat /\ walk.got <= PageSize
      /\ walk.loaded \in Nat /\ walk.loaded <= P + PageSize
  BY <1>1, Edges DEF Edge, Paged, PageFits, Walks
<1>6. ASSUME NEW x \in ListRows
      PROVE  /\ x \notin v.fell => walk.shown[x] >= 1 \/ (v.place[x] >= P + PageSize /\ v.place[x] < Total(walk))
             /\ x \notin v.rose => /\ walk.shown[x] <= 1
                                   /\ walk.shown[x] = 1 => v.place[x] >= 0 /\ v.place[x] < P + PageSize
  <2>1. /\ x \notin v.fell => /\ x \notin walk.fell /\ x \in Filtered(walk)
                              /\ v.place[x] >= walk.place[x]
        /\ x \in Filtered(walk) => v.place[x] = Place(walk, x)
        /\ x \notin v.rose => x \notin walk.rose /\ (walk.place[x] >= 0 => v.place[x] <= walk.place[x])
        /\ walk.place[x] >= 0 => v.place[x] >= 0
    BY Looked
  <2>2. x \in Filtered(walk) => Place(walk, x) < Total(walk)
    BY PlacesDiffer
  <2>3. /\ x \notin walk.fell => walk.shown[x] >= 1 \/ walk.place[x] >= P + PageSize
        /\ x \notin walk.rose => /\ walk.shown[x] <= 1
                                 /\ walk.shown[x] = 1 => walk.place[x] >= 0 /\ walk.place[x] < P + PageSize
    BY <1>1, <1>5 DEF Paged, NoneMissed, NoneTwice, Between
  <2>4. walk.place[x] \in Int /\ v.place[x] \in Int /\ walk.shown[x] \in 0..2
    BY <1>2 DEF Walks
  <2> HIDE DEF v, P
  <2> QED BY <1>3, <1>5, <2>1, <2>2, <2>3, <2>4
<1> HIDE DEF v, t, P
<1>7. FirstTotal(t) \in Nat /\ (Ends(t) <=> P + walk.got >= Total(walk) \/ walk.loaded >= FirstTotal(t))
  BY <1>4 DEF Ends, FirstTotal, Walks, P
<1>8. CASE Ends(t)
  <2>1. /\ walk'.step = "done" /\ walk'.shown = walk.shown /\ walk'.fell = v.fell
        /\ walk'.rose = v.rose /\ walk'.beyond = {x \in ListRows : v.place[x] >= FirstTotal(t)}
        /\ walk'.page = 0 /\ walk'.loaded = 0
    BY <1>1, <1>4, <1>8, Turns
  <2>2. \A x \in ListRows \ v.fell : walk.shown[x] >= 1 \/ v.place[x] >= FirstTotal(t)
    <3> TAKE x \in ListRows \ v.fell
    <3>1. walk.shown[x] >= 1 \/ (v.place[x] >= P + PageSize /\ v.place[x] < Total(walk))
      BY <1>6
    <3>2. v.place[x] \in Int
      BY <1>2 DEF Walks
    <3> QED BY <1>3, <1>5, <1>7, <1>8, <3>1, <3>2
  <2>3. NoneMissed(walk') /\ NoneTwice(walk')
    BY <1>6, <2>1, <2>2 DEF NoneMissed, NoneTwice, Between
  <2>4. PageFits(walk')
    BY <2>1, NothingLoaded
  <2> QED BY <2>3, <2>4 DEF Paged
<1>9. CASE ~Ends(t)
  <2>1. /\ walk'.step = "page" /\ walk'.shown = walk.shown /\ walk'.fell = v.fell
        /\ walk'.rose = v.rose /\ walk'.place = v.place /\ walk'.page = walk.page + 1
        /\ walk'.loaded = walk.loaded
    BY <1>1, <1>4, <1>9, Turns
  <2>2. Edge(walk') = P + PageSize /\ walk'.page * PageSize = P + PageSize
    BY <1>5, <2>1 DEF Edge
  <2>3. NoneMissed(walk') /\ NoneTwice(walk')
    BY <1>6, <2>1, <2>2 DEF NoneMissed, NoneTwice, Between
  <2> QED BY <1>5, <2>1, <2>2, <2>3 DEF Paged, PageFits
<1> QED BY <1>8, <1>9

\* A page of ids: who is still to come is on it, or further down and counted.
LEMMA ScanPaged ==
  ASSUME Typed, walk \in Walks, Paged, ScanIds
  PROVE  Paged'
<1> DEFINE v == Watched(walk)
           P == walk.page * PageSize
<1>1. walk' = [v EXCEPT !.ids = PageOf(walk), !.total = Total(walk), !.step = "hydrate"]
      /\ walk.step = "ids"
  BY OnePage DEF ScanIds
<1>2. v \in Walks /\ SameList(v, walk) /\ v.shown = walk.shown /\ v.loaded = walk.loaded
  BY WatchedTyped
<1>3. /\ walk'.step = "hydrate" /\ walk'.page = walk.page /\ walk'.ids = PageOf(walk)
      /\ walk'.total = Total(walk) /\ walk'.shown = walk.shown /\ walk'.place = v.place
      /\ walk'.fell = v.fell /\ walk'.rose = v.rose /\ walk'.loaded = walk.loaded
  BY <1>1, <1>2 DEF Walks, SameList
<1>4. /\ P \in Nat /\ PageSize \in Nat /\ Edge(walk) = P /\ Edge(walk') = P + PageSize
      /\ (walk.page + 1) * PageSize = P + PageSize
  BY <1>1, <1>3, Edges DEF Edge
<1>5. Total(walk) \in Nat
  BY ListFinite
<1>6. ASSUME NEW x \in ListRows
      PROVE  /\ x \notin v.fell => walk.shown[x] >= 1 \/ x \in PageOf(walk)
                                   \/ (v.place[x] >= P + PageSize /\ P + PageSize < Total(walk))
             /\ x \notin v.rose =>
                  /\ walk.shown[x] <= 1
                  /\ walk.shown[x] = 1 => v.place[x] >= 0 /\ v.place[x] < P + PageSize
                  /\ x \in PageOf(walk) => v.place[x] >= 0 /\ v.place[x] < P + PageSize /\ walk.shown[x] = 0
  <2>1. /\ x \notin v.fell => /\ x \notin walk.fell /\ x \in Filtered(walk)
                              /\ v.place[x] >= walk.place[x]
        /\ x \in Filtered(walk) => v.place[x] = Place(walk, x) /\ Place(walk, x) \in Nat
        /\ x \notin v.rose => x \notin walk.rose /\ (walk.place[x] >= 0 => v.place[x] <= walk.place[x])
        /\ walk.place[x] >= 0 => v.place[x] >= 0
    BY Looked
  <2>2. x \in Filtered(walk) => Place(walk, x) < Total(walk)
    BY PlacesDiffer
  <2>3. x \in PageOf(walk) <=> x \in Filtered(walk) /\ Place(walk, x) >= P /\ Place(walk, x) < P + PageSize
    BY <1>4 DEF PageOf
  <2>4. /\ x \notin walk.fell => walk.shown[x] >= 1 \/ walk.place[x] >= P \/ P = 0
        /\ x \notin walk.rose => /\ walk.shown[x] <= 1
                                 /\ walk.shown[x] = 1 => walk.place[x] >= 0 /\ walk.place[x] < P
    BY <1>1, <1>4 DEF Paged, NoneMissed, NoneTwice, Between
  <2>5. walk.place[x] \in Int /\ v.place[x] \in Int /\ walk.shown[x] \in 0..2
    BY <1>2 DEF Walks
  <2> HIDE DEF v, P
  <2>6. x \notin v.fell => walk.shown[x] >= 1 \/ x \in PageOf(walk)
                           \/ (v.place[x] >= P + PageSize /\ P + PageSize < Total(walk))
    BY <1>4, <1>5, <2>1, <2>2, <2>3, <2>4, <2>5
  <2>7. x \notin v.rose =>
          /\ walk.shown[x] <= 1
          /\ walk.shown[x] = 1 => v.place[x] >= 0 /\ v.place[x] < P + PageSize
          /\ x \in PageOf(walk) => v.place[x] >= 0 /\ v.place[x] < P + PageSize /\ walk.shown[x] = 0
    BY <1>4, <2>1, <2>3, <2>4, <2>5
  <2> QED BY <2>6, <2>7
<1> HIDE DEF v, P
<1>7. NoneMissed(walk')
  BY <1>3, <1>4, <1>6 DEF NoneMissed, Between
<1>8. NoneTwice(walk')
  BY <1>3, <1>4, <1>6 DEF NoneTwice, Between
<1>9. PageFits(walk')
  BY <1>1, <1>3, PageSized DEF PageFits, Paged
<1> QED BY <1>7, <1>8, <1>9 DEF Paged

\* The rows of a page: who was deleted since is not on it, but then they have left the list.
LEMMA HydratePaged ==
  ASSUME Typed, WalkTyped, Paged, Hydrate
  PROVE  Paged'
<1> DEFINE v == Watched(walk)
           Q == RowsOf(walk.ids)
           q == Showing(v, Q)
           h == [q EXCEPT !.ids = {}]
           P == walk.page * PageSize
<1>1. walk' = Turned(h) /\ walk.step = "hydrate" /\ walk \in Walks
  BY DEF Hydrate, WalkTyped
<1>2. v \in Walks /\ SameList(v, walk) /\ v.shown = walk.shown /\ v.loaded = walk.loaded
  BY <1>1, WatchedTyped
<1>3. Cardinality(Q) \in Nat /\ Cardinality(Q) <= PageSize
  <2>1. IsFiniteSet(walk.ids) /\ Cardinality(walk.ids) <= PageSize /\ Q \in SUBSET walk.ids
    BY <1>1 DEF Paged, PageFits, RowsOf
  <2>2. IsFiniteSet(Q) /\ Cardinality(Q) <= Cardinality(walk.ids)
    BY <2>1, FS_Subset
  <2>3. Cardinality(Q) \in Nat /\ Cardinality(walk.ids) \in Nat /\ PageSize \in Nat
    BY <2>1, <2>2, FS_CardinalityType, PageAssumption
  <2> HIDE DEF Q
  <2> QED BY <2>1, <2>2, <2>3
<1>4. /\ q \in Walks /\ SameList(q, v) /\ q.got = Cardinality(Q)
      /\ q.loaded = walk.loaded + Cardinality(Q)
  BY <1>2, <1>3, ShowingTyped
<1>5. /\ h \in Walks /\ h.total = walk.total /\ h.page = walk.page /\ h.got = Cardinality(Q)
      /\ h.shown = q.shown /\ h.place = q.place /\ h.fell = q.fell /\ h.rose = q.rose
      /\ h.loaded = walk.loaded + Cardinality(Q)
  <2> HIDE DEF q, v, Q
  <2> QED BY <1>2, <1>4 DEF Walks, SameList
<1>6. /\ P \in Nat /\ PageSize \in Nat /\ Edge(walk) = P + PageSize /\ walk.total \in Nat
      /\ (walk.page + 1) * PageSize = P + PageSize
      /\ walk.loaded \in Nat /\ walk.loaded <= P
  BY <1>1, Edges DEF Edge, Walks, Paged, PageFits
<1>7. ASSUME NEW x \in ListRows
      PROVE  /\ x \notin h.fell => h.shown[x] >= 1 \/ (h.place[x] >= P + PageSize /\ P + PageSize < walk.total)
             /\ x \notin h.rose => /\ h.shown[x] <= 1
                                   /\ h.shown[x] = 1 => h.place[x] >= 0 /\ h.place[x] < P + PageSize
  <2>1. /\ x \notin v.fell => /\ x \notin walk.fell /\ x \in Filtered(walk)
                              /\ v.place[x] >= walk.place[x]
        /\ x \notin v.rose => x \notin walk.rose /\ (walk.place[x] >= 0 => v.place[x] <= walk.place[x])
        /\ walk.place[x] >= 0 => v.place[x] >= 0
    BY <1>1, Looked
  <2>2. x \in Filtered(walk) => x \in There
    BY <1>1, ListFinite DEF WalkTyped
  <2>3. /\ q.place = v.place /\ q.fell = v.fell /\ q.rose = v.rose
        /\ x \notin Q => q.shown[x] = walk.shown[x]
        /\ x \in Q => q.shown[x] = IF walk.shown[x] < 2 THEN walk.shown[x] + 1 ELSE walk.shown[x]
        /\ walk.shown[x] \in 0..2
    BY <1>2, Shows
  <2>4. x \in Q <=> x \in walk.ids /\ x \in There
    BY DEF RowsOf
  <2>5. /\ x \notin walk.fell => walk.shown[x] >= 1 \/ x \in walk.ids
                                 \/ (walk.place[x] >= P + PageSize /\ P + PageSize < walk.total)
        /\ x \notin walk.rose =>
             /\ walk.shown[x] <= 1
             /\ walk.shown[x] = 1 => walk.place[x] >= 0 /\ walk.place[x] < P + PageSize
             /\ x \in walk.ids => walk.place[x] >= 0 /\ walk.place[x] < P + PageSize /\ walk.shown[x] = 0
    BY <1>1, <1>6 DEF Paged, NoneMissed, NoneTwice, Between
  <2>6. walk.place[x] \in Int /\ v.place[x] \in Int
    BY <1>1, <1>2 DEF Walks
  <2> HIDE DEF v, q, Q, h, P
  <2>7. x \notin h.fell => h.shown[x] >= 1 \/ (h.place[x] >= P + PageSize /\ P + PageSize < walk.total)
    BY <1>5, <1>6, <2>1, <2>2, <2>3, <2>4, <2>5, <2>6
  <2>8. x \notin h.rose => /\ h.shown[x] <= 1
                           /\ h.shown[x] = 1 => h.place[x] >= 0 /\ h.place[x] < P + PageSize
    BY <1>5, <1>6, <2>1, <2>3, <2>4, <2>5, <2>6
  <2> QED BY <2>7, <2>8
<1> HIDE DEF v, q, Q, h, P
<1>8. /\ FirstTotal(h) \in Nat
      /\ Ends(h) <=> P + Cardinality(Q) >= walk.total \/ h.loaded >= FirstTotal(h)
  BY <1>5 DEF Ends, FirstTotal, Walks, P
<1>9. CASE Ends(h)
  <2>1. /\ walk'.step = "done" /\ walk'.shown = h.shown /\ walk'.fell = h.fell
        /\ walk'.rose = h.rose /\ walk'.beyond = {x \in ListRows : h.place[x] >= FirstTotal(h)}
        /\ walk'.page = 0 /\ walk'.loaded = 0
    BY <1>1, <1>5, <1>9, Turns
  <2>2. \A x \in ListRows \ h.fell : h.shown[x] >= 1 \/ h.place[x] >= FirstTotal(h)
    <3> TAKE x \in ListRows \ h.fell
    <3>1. h.shown[x] >= 1 \/ (h.place[x] >= P + PageSize /\ P + PageSize < walk.total)
      BY <1>7
    <3>2. h.place[x] \in Int
      BY <1>5 DEF Walks
    <3> QED BY <1>3, <1>5, <1>6, <1>8, <1>9, <3>1, <3>2
  <2>3. NoneMissed(walk') /\ NoneTwice(walk')
    BY <1>7, <2>1, <2>2 DEF NoneMissed, NoneTwice, Between
  <2>4. PageFits(walk')
    BY <2>1, NothingLoaded
  <2> QED BY <2>3, <2>4 DEF Paged
<1>10. CASE ~Ends(h)
  <2>1. /\ walk'.step = "page" /\ walk'.shown = h.shown /\ walk'.fell = h.fell
        /\ walk'.rose = h.rose /\ walk'.place = h.place /\ walk'.page = walk.page + 1
        /\ walk'.loaded = h.loaded
    BY <1>1, <1>5, <1>10, Turns
  <2>2. Edge(walk') = P + PageSize /\ walk'.page * PageSize = P + PageSize
    BY <1>6, <2>1 DEF Edge
  <2>3. NoneMissed(walk') /\ NoneTwice(walk')
    BY <1>7, <2>1, <2>2 DEF NoneMissed, NoneTwice, Between
  <2> QED BY <1>3, <1>5, <1>6, <2>1, <2>2, <2>3 DEF Paged, PageFits
<1> QED BY <1>9, <1>10

LEMMA WalkPaged ==
  ASSUME Typed, WalkTyped, Paged, Walk
  PROVE  Paged'
<1>1. ASSUME Lists PROVE Paged'
  BY <1>1, BegunPaged DEF Lists, Sorts, ListStaff, ListStudents, ListEvents
<1>2. walk \in Walks
  BY DEF WalkTyped
<1> QED BY <1>1, <1>2, ScopePaged, RowsPaged, TotalPaged, ScanPaged, HydratePaged DEF Walk

\* Whoever else moves leaves the walk alone.
LEMMA PagedNext == Shaped /\ Paged /\ [Next]_vars => Paged'
<1> SUFFICES ASSUME Shaped, Paged, [Next]_vars PROVE Paged'
  OBVIOUS
<1>1. Typed /\ WalkTyped
  BY DEF Shaped
<1>2. ASSUME walk' = walk PROVE Paged'
  BY <1>2 DEF Paged
<1>3. ASSUME Catalogue PROVE walk' = walk
  BY <1>3 DEF Catalogue, Changes, CreateClass, DeleteClass, BeginAssign, BeginRemove, BeginTag,
              Match, BeginLink, Unlink, BeginReplace, AssignStudents, RemoveStudent, TagEvent,
              CheckTeacher, LinkTeacher, SiftClass, ReplaceLinks
<1>4. ASSUME ListingsStep PROVE Paged'
  BY <1>1, <1>2, <1>3, <1>4, WalkPaged DEF ListingsStep
<1>5. ASSUME OfficeStep PROVE walk' = walk
  BY <1>5 DEF OfficeStep, CreateStudent, DeleteStudent, Enter, Delete
<1>6. ASSUME UNCHANGED listings PROVE walk' = walk
  BY <1>6 DEF listings
<1> QED BY <1>2, <1>4, <1>5, <1>6 DEF Next, vars

\* Whatever happens between and within the requests for its pages, a list that is read until
\* the client stops leaves out nobody who kept their place or moved down, except below what the
\* first page announced, and shows nobody twice who kept it or moved up.
THEOREM ListsMissNobody == Spec => []PagesMissNobody
<1>1. Init => Paged
  BY NoWalkPaged DEF Init, ListingsInit, Paged
<1>2. Paged => PagesMissNobody
  BY DEF Paged, NoneMissed, NoneTwice, PagesMissNobody
<1>3. Spec => []Paged
  BY <1>1, AlwaysShaped, PagedNext, PTL DEF Spec
<1> QED BY <1>2, <1>3, PTL

------------------------------------------------------------------------------
(* What a batch answers.                                                   *)

\* The steps that come after what a row writes, ...
Dated == {"audit", "class", "assign", "reread"}

\* ... and those of a row whose answer will be that it was written.
Sure(r) == desk[r].step \in {"audit", "class", "assign"} /\ desk[r].kind \in {"import", "resend"}

\* No two batches at work are the same, and what was answered or written was by one of those
\* begun; where it is one at work, then by a row before the one in hand, or by that one.
KeysTrue ==
  /\ \A r \in Requests : AtWork(r) =>
       \A o \in Requests : AtWork(o) /\ desk[o].job = desk[r].job => o = r
  /\ \A r \in Requests : \A i \in DOMAIN desk[r].answers :
       LET k == desk[r].answers[i].key
       IN /\ k[1] \in 1..jobs
          /\ AtWork(r) => k[1] = desk[r].job /\ k[2] <= Len(desk[r].answers)
          /\ \A o \in Requests \ {r} : AtWork(o) => desk[o].job # k[1]
  /\ \A d \in deeds :
       /\ d.key[1] \in 1..jobs /\ d.key[2] \in Nat
       /\ \A r \in Requests : AtWork(r) /\ desk[r].job = d.key[1] =>
            \/ d.key[2] <= Len(desk[r].answers)
            \/ d.key[2] = Len(desk[r].answers) + 1 /\ desk[r].step \in Dated

Truthful(a) ==
  /\ a.said \in {"created", "sent"} => Written(a.key)
  /\ a.said \in {"duplicate", "invalid"} => ~Written(a.key)
  /\ a.said = "error" =>
       (Written(a.key) => rows[a.who] = "gone" \/ Slipped(a.key, {"reread"}))

TruthTold ==
  /\ \A r \in Requests : \A i \in DOMAIN desk[r].answers : Truthful(desk[r].answers[i])
  /\ \A r \in Requests : Sure(r) => Written(Key(r))

\* A password is that of the row in hand, or of a row before it that was answered so.
InHand(r, s, pw) ==
  /\ AtWork(r) /\ pw = Key(r) /\ Who(r) = s
  /\ desk[r].step \in Waits \/ Sure(r)

Promised(r, pw) ==
  /\ AtWork(r)
  /\ \E i \in DOMAIN desk[r].answers :
       desk[r].answers[i].key = pw /\ desk[r].answers[i].said \in {"created", "sent"}

Lost(pw) ==
  \/ \E l \in slips : l.key[1] = pw[1] /\ l.died
  \/ Slipped(pw, {"undo"})

\* A login without a profile waits for it, unless it was lost; and a password that a batch
\* made was answered or will be.
PasswordsKnown ==
  \A s \in Students : pupils[s] # NoRow =>
    LET pw == pupils[s].pw
    IN /\ rows[s] # "there" =>
            Lost(pw) \/ \E r \in Requests : InHand(r, s, pw) /\ desk[r].step \in Waits
       /\ pw[1] > 0 =>
            \/ pw \in handed \/ Lost(pw)
            \/ \E r \in Requests : InHand(r, s, pw) \/ Promised(r, pw)

\* A batch goes on with the row in hand.
Onward(r, b) ==
  /\ b \in Desks /\ b.step \in Past \cup Waits
  /\ b.job = desk[r].job /\ b.kind = desk[r].kind /\ b.list = desk[r].list
  /\ b.answers = desk[r].answers

\* What a row writes, if anything, is under its own key.
WritesOwn(r) == deeds' = deeds \/ \E d : deeds' = deeds \cup {d} /\ d.key = Key(r)

LEMMA KeysStepped ==
  ASSUME DeskTyped, KeysTrue, NEW r \in Requests, AtWork(r), NEW b, Onward(r, b),
         desk' = [desk EXCEPT ![r] = b], jobs' = jobs,
         desk[r].step \in Dated => b.step \in Dated,
         WritesOwn(r), deeds' # deeds => b.step \in Dated
  PROVE  KeysTrue'
<1>1. \A o \in Requests : /\ o # r => desk'[o] = desk[o]
                          /\ AtWork(o)' <=> AtWork(o)
                          /\ desk'[o].job = desk[o].job /\ desk'[o].answers = desk[o].answers
                          /\ desk[o].step \in Dated => desk'[o].step \in Dated
  BY DEF Onward, DeskTyped, AtWork, Past, Waits
<1>2. /\ desk'[r].step = b.step
      /\ Key(r)[1] = desk[r].job /\ Key(r)[2] = Len(desk[r].answers) + 1 /\ desk[r].job \in 1..jobs
      /\ Len(desk[r].answers) \in Nat
  BY RowInHand DEF DeskTyped
<1>3. \A q, o \in Requests : AtWork(q)' /\ AtWork(o)' /\ desk'[o].job = desk'[q].job => o = q
  BY <1>1 DEF KeysTrue
<1>4. ASSUME NEW d \in deeds', NEW o \in Requests, AtWork(o)', desk'[o].job = d.key[1]
      PROVE  \/ d.key[2] <= Len(desk'[o].answers)
             \/ d.key[2] = Len(desk'[o].answers) + 1 /\ desk'[o].step \in Dated
  <2>1. CASE d \in deeds
    BY <1>1, <1>4, <2>1 DEF KeysTrue
  <2>2. CASE d \notin deeds
    <3>1. d.key = Key(r) /\ desk'[r].step \in Dated
      BY <1>2, <2>2 DEF WritesOwn
    <3>2. o = r
      BY <1>1, <1>2, <1>4, <3>1 DEF KeysTrue
    <3> QED BY <1>1, <1>2, <3>1, <3>2
  <2> QED BY <2>1, <2>2
<1>5. \A d \in deeds' : d.key[1] \in 1..jobs /\ d.key[2] \in Nat
  BY <1>2 DEF KeysTrue, WritesOwn
<1>6. ASSUME NEW q \in Requests, NEW i \in DOMAIN desk'[q].answers
      PROVE  LET k == desk'[q].answers[i].key
             IN /\ k[1] \in 1..jobs'
                /\ AtWork(q)' => k[1] = desk'[q].job /\ k[2] <= Len(desk'[q].answers)
                /\ \A o \in Requests \ {q} : AtWork(o)' => desk'[o].job # k[1]
  BY <1>1, <1>6 DEF KeysTrue
<1> QED BY <1>3, <1>4, <1>5, <1>6 DEF KeysTrue

\* The answers of a row, and the ones before it.
LEMMA ToldIs ==
  ASSUME DeskTyped, NEW r \in Requests, AtWork(r), NEW said, NEW b, Ended(r, b, said)
  PROVE  /\ Len(b.answers) = Len(desk[r].answers) + 1
         /\ DOMAIN b.answers = 1..(Len(desk[r].answers) + 1)
         /\ DOMAIN desk[r].answers = 1..Len(desk[r].answers) /\ Len(desk[r].answers) \in Nat
         /\ \A i \in DOMAIN desk[r].answers : i \in DOMAIN b.answers /\ b.answers[i] = desk[r].answers[i]
         /\ \A i \in DOMAIN b.answers : i \in DOMAIN desk[r].answers \/ i = Len(desk[r].answers) + 1
         /\ b.answers[Len(desk[r].answers) + 1] = [who |-> Who(r), said |-> said, key |-> Key(r)]
<1>1. PICK a : a = [who |-> Who(r), said |-> said, key |-> Key(r)]
  OBVIOUS
<1>2. desk[r].answers \in Seq([who : Students, said : Saids, key : Keys])
  BY RowInHand DEF Desks
<1>3. b.answers = Append(desk[r].answers, a)
  BY <1>1 DEF Ended, AllTold
<1>4. PICK q \in Seq([who : Students, said : Saids, key : Keys]) : q = desk[r].answers
  BY <1>2
<1>5. /\ Len(q) \in Nat /\ DOMAIN q = 1..Len(q)
      /\ Len(Append(q, a)) = Len(q) + 1 /\ DOMAIN Append(q, a) = 1..(Len(q) + 1)
      /\ Append(q, a)[Len(q) + 1] = a /\ \A i \in 1..Len(q) : Append(q, a)[i] = q[i]
  OBVIOUS
<1> QED BY <1>1, <1>3, <1>4, <1>5

LEMMA KeysAnswered ==
  ASSUME DeskTyped, KeysTrue, NEW r \in Requests, AtWork(r), NEW b, NEW said, Ended(r, b, said),
         desk' = [desk EXCEPT ![r] = b], jobs' = jobs, deeds' = deeds
  PROVE  KeysTrue'
<1>1. \A o \in Requests : o # r => desk'[o] = desk[o] /\ (AtWork(o)' <=> AtWork(o))
  BY DEF DeskTyped, AtWork
<1>2. desk'[r] = b /\ (AtWork(r)' => b.job = desk[r].job)
  BY DEF DeskTyped, Ended, AtWork
<1>3. /\ Key(r)[1] = desk[r].job /\ Key(r)[2] = Len(desk[r].answers) + 1 /\ desk[r].job \in 1..jobs
      /\ Len(desk[r].answers) \in Nat
  BY RowInHand DEF DeskTyped
<1>4. \A q, o \in Requests : AtWork(q)' /\ AtWork(o)' /\ desk'[o].job = desk'[q].job => o = q
  BY <1>1, <1>2 DEF KeysTrue
<1>8. /\ Len(b.answers) = Len(desk[r].answers) + 1
      /\ \A i \in DOMAIN desk[r].answers : b.answers[i] = desk[r].answers[i]
      /\ \A i \in DOMAIN b.answers : i \in DOMAIN desk[r].answers \/ i = Len(desk[r].answers) + 1
      /\ b.answers[Len(desk[r].answers) + 1].key = Key(r)
  <2>1. PICK a : a = [who |-> Who(r), said |-> said, key |-> Key(r)]
    OBVIOUS
  <2>2. b.answers[Len(desk[r].answers) + 1] = a
    BY <2>1, ToldIs
  <2>3. a.key = Key(r)
    BY <2>1
  <2>4. /\ Len(b.answers) = Len(desk[r].answers) + 1
        /\ \A i \in DOMAIN desk[r].answers : b.answers[i] = desk[r].answers[i]
        /\ \A i \in DOMAIN b.answers : i \in DOMAIN desk[r].answers \/ i = Len(desk[r].answers) + 1
    BY ToldIs
  <2> QED BY <2>2, <2>3, <2>4
<1>5. ASSUME NEW d \in deeds', NEW o \in Requests, AtWork(o)', desk'[o].job = d.key[1]
      PROVE  \/ d.key[2] <= Len(desk'[o].answers)
             \/ d.key[2] = Len(desk'[o].answers) + 1 /\ desk'[o].step \in Dated
  <2>1. CASE o # r
    BY <1>1, <1>5, <2>1 DEF KeysTrue
  <2>2. CASE o = r
    <3>1. desk[r].job = d.key[1] /\ d \in deeds
      BY <1>2, <1>5, <2>2
    <3>2. d.key[2] <= Len(desk[r].answers) \/ d.key[2] = Len(desk[r].answers) + 1
      BY <3>1 DEF KeysTrue
    <3>3. Len(desk'[o].answers) = Len(desk[r].answers) + 1 /\ d.key[2] \in Nat
      BY <1>2, <1>8, <2>2, <3>1 DEF KeysTrue
    <3> QED BY <1>3, <3>2, <3>3
  <2> QED BY <2>1, <2>2
<1>6. ASSUME NEW q \in Requests, NEW i \in DOMAIN desk'[q].answers
      PROVE  LET k == desk'[q].answers[i].key
             IN /\ k[1] \in 1..jobs'
                /\ AtWork(q)' => k[1] = desk'[q].job /\ k[2] <= Len(desk'[q].answers)
                /\ \A o \in Requests \ {q} : AtWork(o)' => desk'[o].job # k[1]
  <2>1. CASE q # r
    <3>1. desk'[q] = desk[q] /\ (AtWork(q)' <=> AtWork(q)) /\ i \in DOMAIN desk[q].answers
      BY <1>1, <1>6, <2>1
    <3> QED BY <1>1, <1>2, <2>1, <3>1 DEF KeysTrue
  <2>2. CASE q = r /\ i \in DOMAIN desk[r].answers
    <3>1. /\ desk'[q].answers[i] = desk[r].answers[i] /\ Len(desk'[q].answers) = Len(desk[r].answers) + 1
          /\ desk[r].answers \in Seq([who : Students, said : Saids, key : Keys])
      BY <1>2, <1>8, <2>2, RowInHand DEF Desks
    <3>2. desk[r].answers[i].key \in Keys
      <4>1. \A R : \A q0 \in Seq(R) : \A j \in DOMAIN q0 : q0[j] \in R
        OBVIOUS
      <4>2. desk[r].answers[i] \in [who : Students, said : Saids, key : Keys]
        BY <2>2, <3>1, <4>1
      <4> QED BY <4>2
    <3>3. desk[r].answers[i].key[2] \in Nat
      BY <3>2 DEF Keys
    <3>4. /\ desk[r].answers[i].key[1] \in 1..jobs
          /\ desk[r].answers[i].key[1] = desk[r].job
          /\ desk[r].answers[i].key[2] <= Len(desk[r].answers)
          /\ \A o \in Requests \ {r} : AtWork(o) => desk[o].job # desk[r].answers[i].key[1]
      BY <2>2 DEF KeysTrue
    <3>5. PICK k : k = desk[r].answers[i].key
      OBVIOUS
    <3>6. /\ desk'[q].answers[i].key = k /\ k[1] \in 1..jobs'
          /\ AtWork(q)' => k[1] = desk'[q].job
          /\ \A o \in Requests \ {q} : AtWork(o)' => desk'[o].job # k[1]
      BY <1>1, <1>2, <2>2, <3>1, <3>4, <3>5
    <3>7. k[2] <= Len(desk'[q].answers)
      BY <1>3, <3>1, <3>3, <3>4, <3>5
    <3> QED BY <3>6, <3>7
  <2>3. CASE q = r /\ i \notin DOMAIN desk[r].answers
    <3>1. desk'[q].answers[i].key = Key(r) /\ Len(desk'[q].answers) = Len(desk[r].answers) + 1
      BY <1>2, <1>6, <1>8, <2>3
    <3>2. \A o \in Requests \ {r} : AtWork(o) => desk[o].job # desk[r].job
      BY DEF KeysTrue
    <3> QED BY <1>1, <1>2, <1>3, <2>3, <3>1, <3>2
  <2> QED BY <2>1, <2>2, <2>3
<1>7. \A d \in deeds' : d.key[1] \in 1..jobs' /\ d.key[2] \in Nat
  BY DEF KeysTrue
<1> QED BY <1>4, <1>5, <1>6, <1>7 DEF KeysTrue

\* A batch begins under a number of its own, or dies.
LEMMA KeysBegun ==
  ASSUME DeskTyped, KeysTrue, NEW r \in Requests, NEW b, b.answers = <<>>,
         b.step \notin {"idle", "done"} => b.job = jobs + 1 /\ jobs' = jobs + 1,
         desk' = [desk EXCEPT ![r] = b], jobs' \in {jobs, jobs + 1}, deeds' = deeds
  PROVE  KeysTrue'
<1>1. \A o \in Requests : o # r => desk'[o] = desk[o] /\ (AtWork(o)' <=> AtWork(o))
  BY DEF DeskTyped, AtWork
<1>2. desk'[r] = b /\ (AtWork(r)' => b.job = jobs + 1 /\ jobs' = jobs + 1)
  BY DEF DeskTyped, AtWork
<1>3. \A o \in Requests : AtWork(o) => desk[o].job \in 1..jobs
  BY RowInHand
<1>4. jobs \in Nat /\ jobs' \in Nat /\ jobs <= jobs'
  BY OfficeBoundsAssumption DEF DeskTyped
<1>5. \A q, o \in Requests : AtWork(q)' /\ AtWork(o)' /\ desk'[o].job = desk'[q].job => o = q
  <2>1. \A q \in Requests \ {r} : AtWork(q)' => desk'[q].job \in 1..jobs
    BY <1>1, <1>3
  <2>2. AtWork(r)' => desk'[r].job \notin 1..jobs
    BY <1>2, <1>4
  <2>3. \A q, o \in Requests \ {r} : AtWork(q)' /\ AtWork(o)' /\ desk'[o].job = desk'[q].job => o = q
    BY <1>1 DEF KeysTrue
  <2> QED BY <2>1, <2>2, <2>3
<1>6. ASSUME NEW d \in deeds', NEW o \in Requests, AtWork(o)', desk'[o].job = d.key[1]
      PROVE  \/ d.key[2] <= Len(desk'[o].answers)
             \/ d.key[2] = Len(desk'[o].answers) + 1 /\ desk'[o].step \in Dated
  <2>1. d.key[1] \in 1..jobs
    BY DEF KeysTrue
  <2>2. o # r
    BY <1>2, <1>4, <1>6, <2>1
  <2> QED BY <1>1, <1>6, <2>2 DEF KeysTrue
<1>7. ASSUME NEW q \in Requests, NEW i \in DOMAIN desk'[q].answers
      PROVE  LET k == desk'[q].answers[i].key
             IN /\ k[1] \in 1..jobs'
                /\ AtWork(q)' => k[1] = desk'[q].job /\ k[2] <= Len(desk'[q].answers)
                /\ \A o \in Requests \ {q} : AtWork(o)' => desk'[o].job # k[1]
  <2>1. q # r
    BY <1>2, <1>7
  <2>2. desk'[q] = desk[q] /\ (AtWork(q)' <=> AtWork(q)) /\ i \in DOMAIN desk[q].answers
    BY <1>1, <1>7, <2>1
  <2>3. desk[q].answers[i].key[1] \in 1..jobs
    BY <2>2 DEF KeysTrue
  <2>4. desk[q].answers[i].key[1] \in 1..jobs'
    BY <1>4, <2>3
  <2>5. AtWork(r)' => desk'[r].job # desk[q].answers[i].key[1]
    BY <1>2, <1>4, <2>3
  <2> QED BY <1>1, <2>1, <2>2, <2>4, <2>5 DEF KeysTrue
<1>8. \A d \in deeds' : d.key[1] \in 1..jobs' /\ d.key[2] \in Nat
  BY <1>4 DEF KeysTrue
<1> QED BY <1>5, <1>6, <1>7, <1>8 DEF KeysTrue

LEMMA KeysLeft ==
  ASSUME DeskTyped, KeysTrue, UNCHANGED <<desk, deeds>>, jobs' \in {jobs, jobs + 1}
  PROVE  KeysTrue'
<1>1. \A o \in Requests : AtWork(o)' <=> AtWork(o)
  BY DEF AtWork
<1>2. \A k : k \in 1..jobs => k \in 1..jobs'
  BY OfficeBoundsAssumption DEF DeskTyped
<1> QED BY <1>1, <1>2 DEF KeysTrue

\* A row that has not come to what it writes has written nothing.
LEMMA Unwritten ==
  ASSUME DeskTyped, KeysTrue, NEW r \in Requests, AtWork(r), desk[r].step \notin Dated
  PROVE  ~Written(Key(r))
<1> SUFFICES ASSUME NEW d \in deeds, d.key = Key(r) PROVE FALSE
  BY DEF Written
<1>1. /\ d.key[1] = desk[r].job /\ d.key[2] = Len(desk[r].answers) + 1
      /\ Len(desk[r].answers) \in Nat
  BY RowInHand
<1>2. d.key[2] <= Len(desk[r].answers)
  BY <1>1 DEF KeysTrue
<1> QED BY <1>1, <1>2

\* The key of the row in hand is on no answer yet.
LEMMA AnswersBefore ==
  ASSUME DeskTyped, KeysTrue, NEW o \in Requests, NEW i \in DOMAIN desk[o].answers
  PROVE  /\ desk[o].answers[i].who \in Students
         /\ \A r \in Requests : AtWork(r) => desk[o].answers[i].key # Key(r)
<1>1. desk[o].answers[i].who \in Students
  <2>1. \A R : \A q \in Seq(R) : \A j \in DOMAIN q : q[j] \in R
    OBVIOUS
  <2>2. desk[o].answers \in Seq([who : Students, said : Saids, key : Keys])
    BY DEF DeskTyped, Desks
  <2>3. desk[o].answers[i] \in [who : Students, said : Saids, key : Keys]
    BY <2>1, <2>2
  <2> QED BY <2>3
<1>2. ASSUME NEW r \in Requests, AtWork(r), desk[o].answers[i].key = Key(r) PROVE FALSE
  <2>1. PICK k : k = desk[o].answers[i].key
    OBVIOUS
  <2>2. k[1] = desk[r].job /\ k[2] = Len(desk[r].answers) + 1 /\ Len(desk[r].answers) \in Nat
    BY <1>2, <2>1, RowInHand
  <2>3. /\ AtWork(o) => k[2] <= Len(desk[o].answers)
        /\ o # r => desk[r].job # k[1]
    BY <1>2, <2>1 DEF KeysTrue
  <2> QED BY <1>2, <2>2, <2>3
<1> QED BY <1>1, <1>2

LEMMA StaysTruthful ==
  ASSUME NEW r \in Requests, NEW a, Truthful(a), WritesOwn(r), a.key # Key(r) \/ deeds' = deeds,
         slips \subseteq slips', rows[a.who] = "gone" => rows'[a.who] = "gone"
  PROVE  Truthful(a)'
<1>1. Written(a.key)' <=> Written(a.key)
  BY DEF Written, WritesOwn
<1>2. Slipped(a.key, {"reread"}) => Slipped(a.key, {"reread"})'
  BY DEF Slipped
<1> QED BY <1>1, <1>2 DEF Truthful

LEMMA WrittenStays ==
  ASSUME NEW r \in Requests, WritesOwn(r), NEW k, Written(k)
  PROVE  Written(k)'
BY DEF Written, WritesOwn

\* What is to be shown of the answers afterwards, one by one.
LEMMA TruthAgain ==
  ASSUME \A o \in Requests : \A i \in DOMAIN desk'[o].answers : \A a :
           a = desk'[o].answers[i] => Truthful(a)',
         \A o \in Requests : Sure(o)' => Written(Key(o))'
  PROVE  TruthTold'
<1>1. TruthTold' <=> /\ \A o \in Requests : \A i \in DOMAIN desk'[o].answers :
                          Truthful(desk[o].answers[i])'
                     /\ \A o \in Requests : (Sure(o) => Written(Key(o)))'
  BY DEF TruthTold
<1>2. ASSUME NEW o \in Requests, NEW i \in DOMAIN desk'[o].answers
      PROVE  Truthful(desk[o].answers[i])'
  <2>1. PICK a : a = desk'[o].answers[i]
    OBVIOUS
  <2>2. Truthful(a)'
    BY <2>1
  <2> QED BY <2>1, <2>2 DEF Truthful, Written, Slipped
<1> QED BY <1>1, <1>2

LEMMA TruthStepped ==
  ASSUME DeskTyped, KeysTrue, TruthTold, NEW r \in Requests, AtWork(r), NEW b, Onward(r, b),
         desk' = [desk EXCEPT ![r] = b], WritesOwn(r), slips \subseteq slips',
         \A s \in Students : rows[s] = "gone" => rows'[s] = "gone",
         b.step \in {"audit", "class", "assign"} /\ desk[r].kind \in {"import", "resend"} =>
           Sure(r) \/ \E d \in deeds' : d.key = Key(r)
  PROVE  TruthTold'
<1>1. \A o \in Requests : /\ o # r => desk'[o] = desk[o]
                          /\ desk'[o].answers = desk[o].answers /\ Key(o)' = Key(o)
  BY DEF Onward, DeskTyped, Key
<1>2. desk'[r].step = b.step /\ desk'[r].kind = desk[r].kind
  BY DEF Onward, DeskTyped
<1>3. ASSUME NEW o \in Requests, NEW i \in DOMAIN desk'[o].answers, NEW a, a = desk'[o].answers[i]
      PROVE  Truthful(a)'
  <2>1. a = desk[o].answers[i] /\ i \in DOMAIN desk[o].answers
    BY <1>1, <1>3
  <2>2. Truthful(a) /\ a.key # Key(r) /\ a.who \in Students
    BY <2>1, AnswersBefore DEF TruthTold
  <2> QED BY <2>2, StaysTruthful
<1>4. ASSUME NEW o \in Requests, Sure(o)' PROVE Written(Key(o))'
  <2>1. CASE Sure(o)
    <3>1. PICK k : k = Key(o)
      OBVIOUS
    <3>2. Written(k)
      BY <2>1, <3>1 DEF TruthTold
    <3>3. Written(k)'
      BY <3>2, WrittenStays
    <3> QED BY <1>1, <3>1, <3>3 DEF Written
  <2>2. CASE ~Sure(o)
    <3>1. o = r
      BY <1>1, <1>4, <2>2 DEF Sure
    <3>2. \E d \in deeds' : d.key = Key(r)
      BY <1>2, <1>4, <2>2, <3>1 DEF Sure
    <3> QED BY <1>1, <3>1, <3>2 DEF Written
  <2> QED BY <2>1, <2>2
<1> QED BY <1>3, <1>4, TruthAgain

LEMMA TruthAnswered ==
  ASSUME DeskTyped, KeysTrue, TruthTold, NEW r \in Requests, AtWork(r), NEW b, NEW said,
         Ended(r, b, said), desk' = [desk EXCEPT ![r] = b], deeds' = deeds, slips \subseteq slips',
         \A s \in Students : rows[s] = "gone" => rows'[s] = "gone",
         said \in {"created", "sent"} => Written(Key(r)),
         said \in {"duplicate", "invalid"} => ~Written(Key(r)),
         said = "error" /\ Written(Key(r)) =>
           rows'[Who(r)] = "gone" \/ \E l \in slips' : l.key = Key(r) /\ l.step = "reread"
  PROVE  TruthTold'
<1>1. \A o \in Requests : o # r => desk'[o] = desk[o] /\ Key(o)' = Key(o)
  BY DEF DeskTyped, Key
<1>2. desk'[r] = b /\ b.step \in {"done", "login", "find"}
  BY DEF DeskTyped, Ended, FirstStep
<1>3. PICK n : n = [who |-> Who(r), said |-> said, key |-> Key(r)]
  OBVIOUS
<1>4. /\ \A i \in DOMAIN desk[r].answers : b.answers[i] = desk[r].answers[i]
      /\ \A i \in DOMAIN b.answers : i \in DOMAIN desk[r].answers \/ i = Len(desk[r].answers) + 1
      /\ b.answers[Len(desk[r].answers) + 1] = n
  BY <1>3, ToldIs
<1>5. Truthful(n)'
  <2>1. n.who = Who(r) /\ n.said = said /\ n.key = Key(r)
    BY <1>3
  <2>2. Written(n.key)' <=> Written(Key(r))
    BY <2>1 DEF Written
  <2>3. \A l \in slips' : l.key = Key(r) /\ l.step = "reread" => Slipped(n.key, {"reread"})'
    BY <2>1 DEF Slipped
  <2> QED BY <2>1, <2>2, <2>3 DEF Truthful
<1>6. ASSUME NEW o \in Requests, NEW i \in DOMAIN desk[o].answers, NEW a, a = desk[o].answers[i]
      PROVE  Truthful(a)'
  <2>1. Truthful(a) /\ a.who \in Students
    BY <1>6, AnswersBefore DEF TruthTold
  <2>2. Written(a.key)' <=> Written(a.key)
    BY DEF Written
  <2>3. Slipped(a.key, {"reread"}) => Slipped(a.key, {"reread"})'
    BY DEF Slipped
  <2> QED BY <2>1, <2>2, <2>3 DEF Truthful
<1>7. ASSUME NEW o \in Requests, NEW i \in DOMAIN desk'[o].answers, NEW a, a = desk'[o].answers[i]
      PROVE  Truthful(a)'
  <2>1. CASE o # r
    BY <1>1, <1>6, <1>7, <2>1
  <2>2. CASE o = r /\ i \in DOMAIN desk[r].answers
    BY <1>2, <1>4, <1>6, <1>7, <2>2
  <2>3. CASE o = r /\ i \notin DOMAIN desk[r].answers
    <3>1. a = n
      BY <1>2, <1>4, <1>7, <2>3
    <3> QED BY <1>5, <3>1
  <2> QED BY <2>1, <2>2, <2>3
<1>8. ASSUME NEW o \in Requests, Sure(o)' PROVE Written(Key(o))'
  <2>1. o # r
    BY <1>2, <1>8 DEF Sure
  <2>2. Sure(o) /\ Key(o)' = Key(o)
    BY <1>1, <1>8, <2>1 DEF Sure
  <2> QED BY <2>2 DEF TruthTold, Written
<1> QED BY <1>7, <1>8, TruthAgain

LEMMA TruthBegun ==
  ASSUME DeskTyped, KeysTrue, TruthTold, NEW r \in Requests, NEW b, b.answers = <<>>,
         b.step \notin {"audit", "class", "assign"},
         desk' = [desk EXCEPT ![r] = b], deeds' = deeds, slips \subseteq slips',
         \A s \in Students : rows[s] = "gone" => rows'[s] = "gone"
  PROVE  TruthTold'
<1>1. \A o \in Requests : o # r => desk'[o] = desk[o] /\ Key(o)' = Key(o)
  BY DEF DeskTyped, Key
<1>2. desk'[r] = b
  BY DEF DeskTyped
<1>3. ASSUME NEW o \in Requests, NEW i \in DOMAIN desk'[o].answers, NEW a, a = desk'[o].answers[i]
      PROVE  Truthful(a)'
  <2>1. o # r
    BY <1>2, <1>3
  <2>2. a = desk[o].answers[i] /\ i \in DOMAIN desk[o].answers
    BY <1>1, <1>3, <2>1
  <2>3. Truthful(a) /\ a.who \in Students
    BY <2>2, AnswersBefore DEF TruthTold
  <2>4. Written(a.key)' <=> Written(a.key)
    BY DEF Written
  <2>5. Slipped(a.key, {"reread"}) => Slipped(a.key, {"reread"})'
    BY DEF Slipped
  <2> QED BY <2>3, <2>4, <2>5 DEF Truthful
<1>4. ASSUME NEW o \in Requests, Sure(o)' PROVE Written(Key(o))'
  <2>1. o # r
    BY <1>2, <1>4 DEF Sure
  <2>2. Sure(o) /\ Key(o)' = Key(o)
    BY <1>1, <1>4, <2>1 DEF Sure
  <2> QED BY <2>2 DEF TruthTold, Written
<1> QED BY <1>3, <1>4, TruthAgain

LEMMA TruthLeft ==
  ASSUME DeskTyped, KeysTrue, TruthTold, UNCHANGED <<desk, deeds, slips>>,
         \A s \in Students : rows[s] = "gone" => rows'[s] = "gone"
  PROVE  TruthTold'
<1>1. \A o \in Requests : (Sure(o)' <=> Sure(o)) /\ Key(o)' = Key(o)
  BY DEF Sure, Key
<1>2. ASSUME NEW o \in Requests, NEW i \in DOMAIN desk'[o].answers, NEW a, a = desk'[o].answers[i]
      PROVE  Truthful(a)'
  <2>1. Truthful(a) /\ a.who \in Students
    BY <1>2, AnswersBefore DEF TruthTold
  <2> QED BY <2>1 DEF Truthful, Written, Slipped
<1>3. ASSUME NEW o \in Requests, Sure(o)' PROVE Written(Key(o))'
  BY <1>1, <1>3 DEF TruthTold, Written
<1> QED BY <1>2, <1>3, TruthAgain

\* What is to be shown of the passwords afterwards, one by one.
LEMMA PasswordsAgain ==
  ASSUME \A s \in Students : \A pw : pupils'[s] # NoRow /\ pw = pupils'[s].pw =>
           /\ rows'[s] # "there" =>
                Lost(pw)' \/ \E r \in Requests : InHand(r, s, pw)' /\ desk'[r].step \in Waits
           /\ pw[1] > 0 =>
                \/ pw \in handed' \/ Lost(pw)'
                \/ \E r \in Requests : InHand(r, s, pw)' \/ Promised(r, pw)'
  PROVE  PasswordsKnown'
<1> SUFFICES ASSUME NEW s \in Students, pupils'[s] # NoRow
             PROVE  LET pw == pupils[s].pw
                    IN ( /\ rows[s] # "there" =>
                              Lost(pw) \/ \E r \in Requests : InHand(r, s, pw) /\ desk[r].step \in Waits
                         /\ pw[1] > 0 =>
                              \/ pw \in handed \/ Lost(pw)
                              \/ \E r \in Requests : InHand(r, s, pw) \/ Promised(r, pw) )'
  BY DEF PasswordsKnown
<1>1. PICK pw : pw = pupils'[s].pw
  OBVIOUS
<1>2. /\ rows'[s] # "there" =>
           Lost(pw)' \/ \E r \in Requests : InHand(r, s, pw)' /\ desk'[r].step \in Waits
      /\ pw[1] > 0 =>
           \/ pw \in handed' \/ Lost(pw)'
           \/ \E r \in Requests : InHand(r, s, pw)' \/ Promised(r, pw)'
  BY <1>1
<1> QED BY <1>1, <1>2 DEF InHand, Promised, Lost, Slipped

\* A login that was there, or is new, and what is known of its password.
LEMMA PasswordsFrame ==
  ASSUME PasswordsKnown, handed \subseteq handed', slips \subseteq slips',
         \A s \in Students : \A pw : pupils'[s] # NoRow /\ pw = pupils'[s].pw =>
           \/ /\ pupils[s] # NoRow /\ pw = pupils[s].pw
              /\ rows'[s] # "there" => rows[s] # "there"
              /\ \A r \in Requests : InHand(r, s, pw) =>
                   /\ pw \in handed' \/ Lost(pw)' \/ InHand(r, s, pw)' \/ Promised(r, pw)'
                   /\ desk[r].step \in Waits =>
                        rows'[s] = "there" \/ Lost(pw)' \/ (InHand(r, s, pw)' /\ desk'[r].step \in Waits)
              /\ \A r \in Requests : Promised(r, pw) => pw \in handed' \/ Lost(pw)' \/ Promised(r, pw)'
           \/ /\ rows'[s] # "there" => \E r \in Requests : InHand(r, s, pw)' /\ desk'[r].step \in Waits
              /\ pw[1] > 0 => \E r \in Requests : InHand(r, s, pw)'
  PROVE  PasswordsKnown'
<1>1. \A pw : Lost(pw) => Lost(pw)'
  BY DEF Lost, Slipped
<1>2. ASSUME NEW s \in Students, NEW pw, pupils'[s] # NoRow, pw = pupils'[s].pw
      PROVE  /\ rows'[s] # "there" =>
                  Lost(pw)' \/ \E r \in Requests : InHand(r, s, pw)' /\ desk'[r].step \in Waits
             /\ pw[1] > 0 =>
                  \/ pw \in handed' \/ Lost(pw)'
                  \/ \E r \in Requests : InHand(r, s, pw)' \/ Promised(r, pw)'
  <2>1. CASE pupils[s] # NoRow /\ pw = pupils[s].pw
    <3>1. /\ rows[s] # "there" =>
               Lost(pw) \/ \E r \in Requests : InHand(r, s, pw) /\ desk[r].step \in Waits
          /\ pw[1] > 0 =>
               \/ pw \in handed \/ Lost(pw)
               \/ \E r \in Requests : InHand(r, s, pw) \/ Promised(r, pw)
      BY <2>1 DEF PasswordsKnown
    <3> QED BY <1>1, <1>2, <2>1, <3>1
  <2>2. CASE ~(pupils[s] # NoRow /\ pw = pupils[s].pw)
    BY <1>2, <2>2
  <2> QED BY <2>1, <2>2
<1> QED BY <1>2, PasswordsAgain

\* Which batch a slot holds, and how far it is, is all that InHand and Promised ask.
LEMMA HandsKept ==
  ASSUME DeskTyped, NEW r \in Requests, NEW b, desk' = [desk EXCEPT ![r] = b],
         NEW o \in Requests, o # r
  PROVE  /\ desk'[o] = desk[o]
         /\ \A s, pw : InHand(o, s, pw)' <=> InHand(o, s, pw)
         /\ \A pw : Promised(o, pw)' <=> Promised(o, pw)
<1>1. desk'[o] = desk[o]
  BY DEF DeskTyped
<1> QED BY <1>1 DEF InHand, Promised, AtWork, Key, Who, Row, Sure

LEMMA PasswordsStepped ==
  ASSUME DeskTyped, PasswordsKnown, NEW r \in Requests, AtWork(r), NEW b, Onward(r, b),
         desk' = [desk EXCEPT ![r] = b], handed' = handed, slips \subseteq slips',
         desk[r].step \in Waits => b.step \in Waits \/ rows'[Who(r)] = "there",
         desk[r].step \in Waits \/ Sure(r) => b.step \in Waits \cup {"audit", "class", "assign"},
         \A s \in Students \ {Who(r)} : pupils'[s] = pupils[s] /\ rows'[s] = rows[s],
         \/ pupils'[Who(r)] = NoRow
         \/ /\ pupils[Who(r)] # NoRow /\ pupils'[Who(r)].pw = pupils[Who(r)].pw
            /\ rows'[Who(r)] # "there" => rows[Who(r)] # "there"
         \/ pupils'[Who(r)].pw = Key(r) /\ b.step \in Waits
         \/ /\ pupils'[Who(r)].pw = Key(r) /\ b.step = "audit" /\ desk[r].kind = "resend"
            /\ rows'[Who(r)] = "there"
  PROVE  PasswordsKnown'
<1>1. /\ desk'[r] = b /\ (AtWork(r))' /\ Key(r)' = Key(r) /\ Who(r)' = Who(r)
      /\ b.answers = desk[r].answers /\ b.kind = desk[r].kind
  BY DEF DeskTyped, Onward, Past, Waits, Key, Who, Row, AtWork
<1>2. desk[r].step \in Waits => desk[r].kind = "import"
  BY DEF DeskTyped, InKind, Waits
<1>3. \A s, pw : InHand(r, s, pw) =>
        /\ InHand(r, s, pw)'
        /\ desk[r].step \in Waits => rows'[s] = "there" \/ desk'[r].step \in Waits
  BY <1>1, <1>2 DEF InHand, Sure
<1>4. \A pw : Promised(r, pw) => Promised(r, pw)'
  BY <1>1 DEF Promised
<1>5. \A o \in Requests : \A s, pw : InHand(o, s, pw) =>
        /\ InHand(o, s, pw)'
        /\ desk[o].step \in Waits => rows'[s] = "there" \/ desk'[o].step \in Waits
  BY <1>3, HandsKept
<1>6. \A o \in Requests : \A pw : Promised(o, pw) => Promised(o, pw)'
  BY <1>4, HandsKept
<1>7. pupils'[Who(r)].pw = Key(r) /\ (b.step \in Waits \/ (b.step = "audit" /\ desk[r].kind = "resend"))
      => InHand(r, Who(r), Key(r))'
  BY <1>1 DEF InHand, Sure
<1>8. ASSUME NEW s \in Students, NEW pw, pupils'[s] # NoRow, pw = pupils'[s].pw
      PROVE  \/ /\ pupils[s] # NoRow /\ pw = pupils[s].pw
                /\ rows'[s] # "there" => rows[s] # "there"
             \/ /\ rows'[s] # "there" => \E o \in Requests : InHand(o, s, pw)' /\ desk'[o].step \in Waits
                /\ pw[1] > 0 => \E o \in Requests : InHand(o, s, pw)'
  <2>1. CASE s # Who(r)
    BY <1>8, <2>1
  <2>2. CASE s = Who(r)
    BY <1>1, <1>7, <1>8, <2>2
  <2> QED BY <2>1, <2>2
<1> QED BY <1>5, <1>6, <1>8, PasswordsFrame

LEMMA PasswordsAnswered ==
  ASSUME DeskTyped, PasswordsKnown, NEW r \in Requests, AtWork(r), NEW b, NEW said, Ended(r, b, said),
         desk' = [desk EXCEPT ![r] = b], slips \subseteq slips',
         Sure(r) => said \in {"created", "sent"},
         NEW k, k = Key(r), desk[r].step \in Waits => pupils'[Who(r)] = NoRow \/ Lost(k)',
         \A s \in Students : pupils'[s] = pupils[s] \/ pupils'[s] = NoRow,
         \A s \in Students : rows'[s] = rows[s]
  PROVE  PasswordsKnown'
<1>1. desk'[r] = b
  BY DEF DeskTyped
<1>2. PICK n : n = [who |-> Who(r), said |-> said, key |-> Key(r)]
  OBVIOUS
<1>3. /\ \A i \in DOMAIN desk[r].answers : i \in DOMAIN b.answers /\ b.answers[i] = desk[r].answers[i]
      /\ b.answers[Len(desk[r].answers) + 1] = n
      /\ Len(desk[r].answers) + 1 \in DOMAIN b.answers
  BY <1>2, ToldIs
<1>4. n.said = said /\ n.key = Key(r)
  BY <1>2
<1>5. ASSUME NEW pw, NEW i \in DOMAIN b.answers, b.answers[i].key = pw,
             b.answers[i].said \in {"created", "sent"}
      PROVE  pw \in handed' \/ Promised(r, pw)'
  <2>1. CASE AtWork(r)'
    BY <1>1, <1>5, <2>1 DEF Promised
  <2>2. CASE ~AtWork(r)'
    <3>1. b.answers = AllTold(r, said) /\ b.step = "done"
      BY <1>1, <2>2 DEF Ended, AtWork, FirstStep
    <3>2. handed' = handed \cup {AllTold(r, said)[j].key :
             j \in {j \in DOMAIN AllTold(r, said) : AllTold(r, said)[j].said \in {"created", "sent"}}}
      BY <3>1 DEF Ended, FirstStep
    <3> QED BY <1>5, <3>1, <3>2
  <2> QED BY <2>1, <2>2
<1>6. \A pw : Promised(r, pw) => pw \in handed' \/ Promised(r, pw)'
  BY <1>3, <1>5 DEF Promised
<1>7. Sure(r) => k \in handed' \/ Promised(r, k)'
  BY <1>3, <1>4, <1>5
<1>8. handed \subseteq handed'
  BY DEF Ended
<1>9. ASSUME NEW s \in Students, NEW pw, pupils'[s] # NoRow, pw = pupils'[s].pw, NEW o \in Requests,
             InHand(o, s, pw)
      PROVE  /\ pw \in handed' \/ Lost(pw)' \/ InHand(o, s, pw)' \/ Promised(o, pw)'
             /\ desk[o].step \in Waits =>
                  Lost(pw)' \/ (InHand(o, s, pw)' /\ desk'[o].step \in Waits)
  <2>1. CASE o # r
    BY <1>9, <2>1, HandsKept
  <2>2. CASE o = r
    <3>1. pw = k /\ s = Who(r) /\ (desk[r].step \in Waits \/ Sure(r))
      BY <1>9, <2>2 DEF InHand
    <3>2. CASE desk[r].step \in Waits
      BY <1>9, <2>2, <3>1, <3>2
    <3>3. CASE desk[r].step \notin Waits
      BY <1>7, <2>2, <3>1, <3>3
    <3> QED BY <3>2, <3>3
  <2> QED BY <2>1, <2>2
<1>10. \A o \in Requests : \A pw : Promised(o, pw) => pw \in handed' \/ Promised(o, pw)'
  BY <1>6, HandsKept
<1> QED BY <1>8, <1>9, <1>10, PasswordsFrame

LEMMA PasswordsBroken ==
  ASSUME DeskTyped, KeysTrue, PasswordsKnown, NEW r \in Requests, AtWork(r),
         desk' = [desk EXCEPT ![r] = NoBatch], UNCHANGED <<handed, pupils, rows>>,
         slips \subseteq slips', \E l \in slips' : l.key = Key(r) /\ l.died
  PROVE  PasswordsKnown'
<1>1. Key(r)[1] = desk[r].job
  BY RowInHand
<1>2. \A pw : pw[1] = desk[r].job => Lost(pw)'
  BY <1>1 DEF Lost
<1>3. \A s, pw : InHand(r, s, pw) => Lost(pw)'
  BY <1>1, <1>2 DEF InHand
<1>4. \A pw : Promised(r, pw) => Lost(pw)'
  BY <1>2 DEF Promised, KeysTrue
<1>5. \A o \in Requests : \A s, pw : InHand(o, s, pw) =>
        Lost(pw)' \/ (InHand(o, s, pw)' /\ desk'[o] = desk[o])
  BY <1>3, HandsKept
<1>6. \A o \in Requests : \A pw : Promised(o, pw) => Lost(pw)' \/ Promised(o, pw)'
  BY <1>4, HandsKept
<1> QED BY <1>5, <1>6, PasswordsFrame

LEMMA PasswordsBegun ==
  ASSUME DeskTyped, PasswordsKnown, NEW r \in Requests, ~AtWork(r), NEW b,
         desk' = [desk EXCEPT ![r] = b], UNCHANGED <<handed, pupils, rows, slips>>
  PROVE  PasswordsKnown'
<1>1. \A o \in Requests : \A s, pw : InHand(o, s, pw) => InHand(o, s, pw)' /\ desk'[o] = desk[o]
  BY HandsKept DEF InHand
<1>2. \A o \in Requests : \A pw : Promised(o, pw) => Promised(o, pw)'
  <2> TAKE o \in Requests
  <2>1. CASE o = r
    BY <2>1 DEF Promised
  <2>2. CASE o # r
    BY <2>2, HandsKept
  <2> QED BY <2>1, <2>2
<1> QED BY <1>1, <1>2, PasswordsFrame

LEMMA PasswordsLeft ==
  ASSUME PasswordsKnown, UNCHANGED <<desk, handed, slips>>,
         \A s \in Students : pupils'[s] # NoRow =>
           \/ pupils[s] # NoRow /\ pupils'[s].pw = pupils[s].pw /\ rows'[s] = rows[s]
           \/ pupils'[s].pw = <<0, 0>> /\ rows'[s] = "there"
  PROVE  PasswordsKnown'
<1>1. \A o \in Requests : \A s, pw : InHand(o, s, pw) => InHand(o, s, pw)' /\ desk'[o] = desk[o]
  BY DEF InHand, AtWork, Key, Who, Row, Sure
<1>2. \A o \in Requests : \A pw : Promised(o, pw) => Promised(o, pw)'
  BY DEF Promised, AtWork
<1> QED BY <1>1, <1>2, PasswordsFrame

\* What is known of answers and of passwords, together.
Known == KeysTrue /\ TruthTold /\ PasswordsKnown

\* A row is answered.
LEMMA KnownAnswered ==
  ASSUME DeskTyped, Known, NEW r \in Requests, AtWork(r), NEW said \in Saids, Answer(r, said),
         UNCHANGED <<jobs, deeds, rows>>, slips \subseteq slips',
         said \in {"created", "sent"} => Sure(r),
         said \in {"duplicate", "invalid"} => desk[r].step \notin Dated,
         said = "error" => \/ desk[r].step \notin Dated \/ rows[Who(r)] = "gone"
                           \/ \E l \in slips' : l.key = Key(r) /\ l.step = "reread",
         Sure(r) => said \in {"created", "sent"},
         NEW k, k = Key(r), desk[r].step \in Waits => pupils'[Who(r)] = NoRow \/ Lost(k)',
         \A s \in Students : pupils'[s] = pupils[s] \/ pupils'[s] = NoRow
  PROVE  Known'
<1>1. PICK b : Ended(r, b, said) /\ desk' = [desk EXCEPT ![r] = b]
  BY Answering
<1>2. Sure(r) => Written(Key(r))
  BY DEF Known, TruthTold
<1>3. desk[r].step \notin Dated => ~Written(Key(r))
  BY Unwritten DEF Known
<1>4. KeysTrue'
  BY <1>1, KeysAnswered DEF Known
<1>5. TruthTold'
  BY <1>1, <1>2, <1>3, TruthAnswered DEF Known
<1>6. PasswordsKnown'
  BY <1>1, PasswordsAnswered DEF Known
<1> QED BY <1>4, <1>5, <1>6 DEF Known

\* A row goes on to a step before or after what it writes.
LEMMA KnownStepped ==
  ASSUME DeskTyped, Known, NEW r \in Requests, AtWork(r), NEW b, Onward(r, b),
         desk' = [desk EXCEPT ![r] = b],
         UNCHANGED <<jobs, deeds, rows, pupils, handed>>, slips \subseteq slips',
         desk[r].step \in Dated <=> b.step \in Dated,
         b.step \in {"audit", "class", "assign"} => desk[r].step \in {"audit", "class", "assign"},
         desk[r].step \in Waits => b.step \in Waits,
         Sure(r) => b.step \in {"audit", "class", "assign"}
  PROVE  Known'
<1>1. WritesOwn(r)
  BY DEF WritesOwn
<1>2. KeysTrue'
  BY <1>1, KeysStepped DEF Known
<1>3. TruthTold'
  BY <1>1, TruthStepped DEF Known, Sure
<1>4. PasswordsKnown'
  <2>1. \/ pupils'[Who(r)] = NoRow
        \/ /\ pupils[Who(r)] # NoRow /\ pupils'[Who(r)].pw = pupils[Who(r)].pw
           /\ rows'[Who(r)] # "there" => rows[Who(r)] # "there"
    OBVIOUS
  <2> QED BY <2>1, PasswordsStepped DEF Known
<1> QED BY <1>2, <1>3, <1>4 DEF Known

\* A row writes what it is there to write, and goes on to its entry in the log.
LEMMA KnownWritten ==
  ASSUME DeskTyped, Known, NEW r \in Requests, AtWork(r), Step(r, "audit"), jobs' = jobs,
         WritesOwn(r), slips \subseteq slips',
         desk[r].kind \in {"import", "resend"} => \E d \in deeds' : d.key = Key(r),
         \A s \in Students : rows[s] = "gone" => rows'[s] = "gone",
         desk[r].step \in Waits => rows'[Who(r)] = "there",
         \A s \in Students \ {Who(r)} : pupils'[s] = pupils[s] /\ rows'[s] = rows[s],
         \/ pupils'[Who(r)] = NoRow
         \/ /\ pupils[Who(r)] # NoRow /\ pupils'[Who(r)].pw = pupils[Who(r)].pw
            /\ rows'[Who(r)] # "there" => rows[Who(r)] # "there"
         \/ /\ pupils'[Who(r)].pw = Key(r) /\ desk[r].kind = "resend" /\ rows'[Who(r)] = "there"
  PROVE  Known'
<1>1. PICK b : Onward(r, b) /\ b.step = "audit" /\ desk' = [desk EXCEPT ![r] = b] /\ handed' = handed
  <2>1. "audit" \in Past \cup Waits
    BY DEF Past
  <2> QED BY <2>1, StepIs DEF Onward
<1>2. KeysTrue'
  BY <1>1, KeysStepped DEF Known, Dated
<1>3. TruthTold'
  BY <1>1, TruthStepped DEF Known
<1>4. PasswordsKnown'
  BY <1>1, PasswordsStepped DEF Known
<1> QED BY <1>2, <1>3, <1>4 DEF Known

\* Nothing that is known is about it.
LEMMA KnownLeft ==
  ASSUME DeskTyped, Known, UNCHANGED <<desk, deeds, slips, handed>>, jobs' \in {jobs, jobs + 1},
         \A s \in Students : rows[s] = "gone" => rows'[s] = "gone",
         \A s \in Students : pupils'[s] # NoRow =>
           \/ pupils[s] # NoRow /\ pupils'[s].pw = pupils[s].pw /\ rows'[s] = rows[s]
           \/ pupils'[s].pw = <<0, 0>> /\ rows'[s] = "there"
  PROVE  Known'
BY KeysLeft, TruthLeft, PasswordsLeft DEF Known

LEMMA KnownBegun ==
  ASSUME DeskTyped, Known, NEW r \in Requests, ~AtWork(r), Asks(r), jobs \in 0..MaxJobs
  PROVE  Known'
<1>1. ASSUME NEW kind, NEW list, NEW active, NEW cache, BeginBatch(r, kind, list, active, cache)
      PROVE  \E b : /\ b.answers = <<>> /\ b.step \in {"login", "find"} /\ b.job = jobs + 1
                    /\ jobs' = jobs + 1 /\ desk' = [desk EXCEPT ![r] = b]
                    /\ UNCHANGED <<handed, pupils, rows, slips, deeds>>
  <2>1. PICK b : b = [NoBatch EXCEPT !.kind = kind, !.step = FirstStep(kind),
                        !.job = jobs', !.list = list, !.active = active, !.cache = cache]
    OBVIOUS
  <2>2. /\ desk' = [desk EXCEPT ![r] = b] /\ jobs' = jobs + 1
        /\ UNCHANGED <<handed, pupils, rows, slips, deeds>>
    BY <1>1, <2>1 DEF BeginBatch, Job, catalogue
  <2>3. b.answers = <<>> /\ b.step \in {"login", "find"} /\ b.job = jobs'
    BY <2>1, NoBatchIs DEF Desks, FirstStep
  <2> QED BY <2>2, <2>3
<1>2. PICK b : /\ b.answers = <<>> /\ b.step \in {"login", "find"} /\ b.job = jobs + 1
               /\ jobs' = jobs + 1 /\ desk' = [desk EXCEPT ![r] = b]
               /\ UNCHANGED <<handed, pupils, rows, slips, deeds>>
  BY <1>1 DEF Asks, BeginImport, BeginBulk
<1>3. KeysTrue'
  BY <1>2, KeysBegun DEF Known
<1>4. TruthTold'
  BY <1>2, TruthBegun DEF Known
<1>5. PasswordsKnown'
  BY <1>2, PasswordsBegun DEF Known
<1> QED BY <1>3, <1>4, <1>5 DEF Known

\* What fails is noted with the row and the step.
LEMMA SlipNoted ==
  ASSUME NEW r \in Requests, NEW died \in BOOLEAN, Mishap(r, died)
  PROVE  /\ slips \subseteq slips'
         /\ \E l \in slips' : l.key = Key(r) /\ l.step = desk[r].step /\ l.died = died
<1>1. PICK l : l = [key |-> Key(r), who |-> Who(r), step |-> desk[r].step, died |-> died]
  OBVIOUS
<1>2. l \in slips' /\ slips \subseteq slips'
  BY <1>1 DEF Mishap
<1> QED BY <1>1, <1>2

\* A deed has the row's key.
LEMMA DeedNoted ==
  ASSUME NEW r \in Requests, Deed(r)
  PROVE  WritesOwn(r) /\ \E d \in deeds' : d.key = Key(r)
<1>1. PICK d : d = [key |-> Key(r), who |-> Who(r), what |-> What(r)]
  OBVIOUS
<1>2. deeds' = deeds \cup {d} /\ d.key = Key(r)
  BY <1>1 DEF Deed
<1> QED BY <1>2 DEF WritesOwn

\* The steps that fail or die.
LEMMA MishapsKnown ==
  ASSUME DeskTyped, Known, NEW r \in Requests, AtWork(r), FailRow(r) \/ Break(r)
  PROVE  Known'
<1>1. CASE FailRow(r)
  <2>1. /\ desk[r].step \in {"login", "find", "write", "erase", "drop", "reread"}
        /\ UNCHANGED <<jobs, deeds, rows, pupils>> /\ Answer(r, "error") /\ "error" \in Saids
    BY <1>1 DEF FailRow, NoDeed, catalogue, Saids
  <2>2. /\ slips \subseteq slips'
        /\ \E l \in slips' : l.key = Key(r) /\ l.step = desk[r].step
    BY <1>1, SlipNoted DEF FailRow, Slip
  <2>3. /\ ~Sure(r) /\ desk[r].step \notin Waits
        /\ desk[r].step # "reread" => desk[r].step \notin Dated
    BY <2>1 DEF Sure, Waits, Dated
  <2> QED BY <2>1, <2>2, <2>3, KnownAnswered
<1>2. CASE Break(r)
  <2>1. /\ UNCHANGED <<jobs, deeds, rows, pupils, handed>> /\ desk' = [desk EXCEPT ![r] = NoBatch]
    BY <1>2 DEF Break, NoDeed, catalogue
  <2>2. /\ slips \subseteq slips'
        /\ \E l \in slips' : l.key = Key(r) /\ l.died
    BY <1>2, SlipNoted DEF Break
  <2>3. NoBatch \in Desks /\ NoBatch.answers = <<>> /\ NoBatch.step = "idle"
    BY NoBatchIs
  <2>4. KeysTrue'
    BY <2>1, <2>3, KeysBegun DEF Known
  <2>5. TruthTold'
    BY <2>1, <2>2, <2>3, TruthBegun DEF Known
  <2>6. PasswordsKnown'
    BY <2>1, <2>2, PasswordsBroken DEF Known
  <2> QED BY <2>4, <2>5, <2>6 DEF Known
<1> QED BY <1>1, <1>2

LEMMA AuditKnown ==
  ASSUME DeskTyped, Known, NEW r \in Requests, AtWork(r), Audit(r)
  PROVE  Known'
<1>1. /\ desk[r].step = "audit" /\ UNCHANGED <<jobs, deeds, rows, pupils>>
      /\ {"created", "sent", "ok"} \subseteq Saids
      /\ desk[r].kind \in {"import", "status", "resend", "delete"}
      /\ desk[r].step \notin Waits /\ desk[r].step \in Dated
  BY RowInHand DEF Audit, At, NoDeed, catalogue, Saids, Desks, Waits, Dated
<1>2. slips \subseteq slips'
  BY SlipNoted DEF Audit, Slip
<1>3. \/ Step(r, "class") /\ desk[r].kind = "import"
      \/ Step(r, "reread") /\ desk[r].kind = "status"
      \/ Answer(r, "created") /\ desk[r].kind = "import"
      \/ Answer(r, "sent") /\ desk[r].kind = "resend"
      \/ Answer(r, "ok") /\ desk[r].kind = "delete"
  BY <1>1 DEF Audit
<1>4. Sure(r) <=> desk[r].kind \in {"import", "resend"}
  BY <1>1 DEF Sure
<1>5. ASSUME NEW step \in {"class", "reread"}, Step(r, step), step = "reread" => desk[r].kind = "status"
      PROVE  Known'
  <2>1. step \in Past \cup Waits /\ step \in Dated /\ step \notin Waits
    BY DEF Past, Dated, Waits
  <2>2. PICK b : /\ Onward(r, b) /\ b.step = step /\ desk' = [desk EXCEPT ![r] = b]
                 /\ handed' = handed
    BY <1>5, <2>1, StepIs DEF Onward
  <2> QED BY <1>1, <1>2, <1>4, <1>5, <2>1, <2>2, KnownStepped
<1>6. ASSUME NEW said \in {"created", "sent", "ok"}, Answer(r, said),
             said \in {"created", "sent"} <=> desk[r].kind \in {"import", "resend"}
      PROVE  Known'
  BY <1>1, <1>2, <1>4, <1>6, KnownAnswered
<1> QED BY <1>3, <1>5, <1>6

LEMMA LoginKnown ==
  ASSUME DeskTyped, Known, NEW r \in Requests, AtWork(r), CreateLogin(r),
         pupils \in [Students -> Pupils \cup {NoRow}]
  PROVE  Known'
<1>1. /\ desk[r].step = "login" /\ UNCHANGED <<jobs, deeds, rows, slips>>
      /\ {"invalid", "duplicate"} \subseteq Saids /\ desk[r].step \notin Dated
      /\ ~Sure(r) /\ desk[r].step \notin Waits
  BY DEF CreateLogin, At, NoDeed, catalogue, Saids, Dated, Sure, Waits
<1>2. CASE ~Row(r).valid \/ pupils[Who(r)] # NoRow
  <2>1. pupils' = pupils /\ (Answer(r, "invalid") \/ Answer(r, "duplicate"))
    BY <1>2 DEF CreateLogin
  <2> QED BY <1>1, <2>1, KnownAnswered
<1>3. CASE Row(r).valid /\ pupils[Who(r)] = NoRow
  <2>1. PICK p : p = [active |-> TRUE, pw |-> Key(r), seen |-> FALSE]
    OBVIOUS
  <2>2. pupils' = [pupils EXCEPT ![Who(r)] = p] /\ Step(r, "profile")
    BY <1>3, <2>1 DEF CreateLogin
  <2>3. /\ pupils'[Who(r)] = p /\ p.pw = Key(r)
        /\ \A s \in Students \ {Who(r)} : pupils'[s] = pupils[s] /\ rows'[s] = rows[s]
    BY <1>1, <2>1, <2>2, RowInHand
  <2>4. PICK b : /\ Onward(r, b) /\ b.step = "profile" /\ desk' = [desk EXCEPT ![r] = b]
                 /\ handed' = handed
    <3>1. "profile" \in Past \cup Waits
      BY DEF Waits
    <3> QED BY <2>2, <3>1, StepIs DEF Onward
  <2>5. WritesOwn(r) /\ b.step \in Waits /\ slips \subseteq slips' /\ desk[r].step \notin Dated
    BY <1>1, <2>4 DEF WritesOwn, Waits
  <2>6. KeysTrue'
    BY <1>1, <2>4, <2>5, KeysStepped DEF Known
  <2>7. TruthTold'
    BY <1>1, <2>4, <2>5, TruthStepped DEF Known
  <2>8. PasswordsKnown'
    BY <1>1, <2>3, <2>4, <2>5, PasswordsStepped DEF Known
  <2> QED BY <2>6, <2>7, <2>8 DEF Known
<1> QED BY <1>2, <1>3

LEMMA ProfileKnown ==
  ASSUME DeskTyped, RowsHeld, Known, NEW r \in Requests, AtWork(r), CreateProfile(r),
         rows \in [Items -> {"new", "there", "gone"}]
  PROVE  Known'
<1>1. /\ desk[r].step = "profile" /\ UNCHANGED <<jobs, pupils>> /\ rows[Who(r)] = "new"
      /\ pupils[Who(r)] # NoRow /\ Who(r) \in Students /\ Students \subseteq Items
  BY RowInHand DEF CreateProfile, At, RowsHeld, Items
<1>2. CASE rows' = [rows EXCEPT ![Who(r)] = "there"] /\ Deed(r) /\ Step(r, "audit") /\ UNCHANGED slips
  <2>1. rows'[Who(r)] = "there" /\ \A s \in Students \ {Who(r)} : rows'[s] = rows[s]
    BY <1>1, <1>2
  <2>2. \A s \in Students : rows[s] = "gone" => rows'[s] = "gone"
    BY <1>1, <2>1
  <2>3. \A s \in Students \ {Who(r)} : pupils'[s] = pupils[s] /\ rows'[s] = rows[s]
    BY <1>1, <2>1
  <2>4. pupils'[Who(r)].pw = pupils[Who(r)].pw
    BY <1>1
  <2>5. slips \subseteq slips'
    BY <1>2
  <2> QED BY <1>1, <1>2, <2>1, <2>2, <2>3, <2>4, <2>5, DeedNoted, KnownWritten
<1>3. CASE Slip(r) /\ Step(r, "undo") /\ UNCHANGED rows /\ NoDeed
  <2>1. slips \subseteq slips' /\ deeds' = deeds
    BY <1>3, SlipNoted DEF Slip, NoDeed
  <2>2. PICK b : /\ Onward(r, b) /\ b.step = "undo" /\ desk' = [desk EXCEPT ![r] = b]
                 /\ handed' = handed
    <3>1. "undo" \in Past \cup Waits
      BY DEF Waits
    <3> QED BY <1>3, <3>1, StepIs DEF Onward
  <2>3. b.step \in Waits /\ b.step \notin Dated /\ desk[r].step \notin Dated /\ ~Sure(r)
    BY <1>1, <2>2 DEF Waits, Dated, Sure
  <2> QED BY <1>1, <1>3, <2>1, <2>2, <2>3, KnownStepped
<1> QED BY <1>2, <1>3 DEF CreateProfile

LEMMA UndoKnown ==
  ASSUME DeskTyped, Known, NEW r \in Requests, AtWork(r), UndoLogin(r),
         pupils \in [Students -> Pupils \cup {NoRow}]
  PROVE  Known'
<1>1. /\ desk[r].step = "undo" /\ UNCHANGED <<jobs, deeds, rows>> /\ "error" \in Saids
      /\ Answer(r, "error") /\ desk[r].step \notin Dated /\ ~Sure(r) /\ Who(r) \in Students
  BY RowInHand DEF UndoLogin, At, NoDeed, catalogue, Saids, Dated, Sure
<1>2. PICK k : k = Key(r)
  OBVIOUS
<1>3. CASE pupils' = [pupils EXCEPT ![Who(r)] = NoRow] /\ UNCHANGED slips
  <2>1. /\ pupils'[Who(r)] = NoRow
        /\ \A s \in Students : pupils'[s] = pupils[s] \/ pupils'[s] = NoRow
    BY <1>1, <1>3
  <2>2. slips \subseteq slips'
    BY <1>3
  <2> QED BY <1>1, <1>2, <2>1, <2>2, KnownAnswered
<1>4. CASE Slip(r) /\ UNCHANGED pupils
  <2>1. slips \subseteq slips' /\ \E l \in slips' : l.key = k /\ l.step = "undo"
    BY <1>1, <1>2, <1>4, SlipNoted DEF Slip
  <2>2. Lost(k)'
    BY <2>1 DEF Lost, Slipped
  <2>3. \A s \in Students : pupils'[s] = pupils[s]
    BY <1>4
  <2> QED BY <1>1, <1>2, <2>1, <2>2, <2>3, KnownAnswered
<1> QED BY <1>3, <1>4 DEF UndoLogin

LEMMA ClassKnown ==
  ASSUME DeskTyped, Known, NEW r \in Requests, AtWork(r), ResolveClass(r) \/ AssignClass(r)
  PROVE  Known'
<1>1. /\ desk[r].step \in {"class", "assign"} /\ UNCHANGED <<jobs, deeds, rows, pupils>>
      /\ "created" \in Saids /\ desk[r].kind = "import" /\ desk[r] \in Desks
      /\ desk[r].step \in Dated /\ desk[r].step \notin Waits /\ Sure(r)
      /\ AssignClass(r) => Answer(r, "created")
      /\ Row(r).class \in Names \cup {NoName}
  <2>1. /\ desk[r].step \in {"class", "assign"} /\ UNCHANGED <<jobs, deeds, rows, pupils>>
        /\ AssignClass(r) => Answer(r, "created")
    BY DEF ResolveClass, AssignClass, At, NoDeed
  <2>2. desk[r].kind = "import"
    BY <2>1 DEF DeskTyped, InKind
  <2> QED BY <2>1, <2>2, RowInHand DEF Saids, Dated, Waits, Sure
<1>2. slips \subseteq slips'
  BY SlipNoted DEF ResolveClass, AssignClass, Slip
<1>3. ASSUME Answer(r, "created") PROVE Known'
  BY <1>1, <1>2, <1>3, KnownAnswered
<1>4. ASSUME NEW b, Onward(r, b), b.step = "assign", desk' = [desk EXCEPT ![r] = b], handed' = handed
      PROVE  Known'
  <2>1. b.step \in Dated
    BY <1>4 DEF Dated
  <2> QED BY <1>1, <1>2, <1>4, <2>1, KnownStepped
<1>5. ASSUME Step(r, "assign") PROVE Known'
  <2>1. "assign" \in Past \cup Waits
    BY DEF Past
  <2> QED BY <1>4, <1>5, <2>1, StepIs DEF Onward
<1>6. ASSUME NEW g \in Groups,
             desk' = [desk EXCEPT ![r].cache[Row(r).class] = g, ![r].step = "assign"], handed' = handed
      PROVE  Known'
  <2>1. PICK c \in [Names -> Groups \cup {NoGroup}] : c = [desk[r].cache EXCEPT ![Row(r).class] = g]
    BY <1>1 DEF Desks
  <2>2. PICK b : b = [desk[r] EXCEPT !.cache = c, !.step = "assign"]
    OBVIOUS
  <2>3. desk' = [desk EXCEPT ![r] = b]
    <3>1. desk \in [Requests -> Desks]
      BY DEF DeskTyped
    <3> QED BY <1>6, <2>1, <2>2, <3>1 DEF Desks
  <2>4. Onward(r, b) /\ b.step = "assign"
    BY <1>1, <2>1, <2>2 DEF Onward, Desks, Past
  <2> QED BY <1>4, <1>6, <2>3, <2>4
<1> QED BY <1>1, <1>3, <1>5, <1>6 DEF ResolveClass

\* The steps of a row of a selection.
LEMMA FindKnown ==
  ASSUME DeskTyped, Known, NEW r \in Requests, AtWork(r), FindStudent(r) \/ Erase(r)
  PROVE  Known'
<1>1. /\ desk[r].step \in {"find", "erase"} /\ UNCHANGED <<jobs, deeds, rows, pupils, slips>>
      /\ "error" \in Saids /\ desk[r].step \notin Dated /\ ~Sure(r) /\ desk[r].step \notin Waits
  BY DEF FindStudent, Erase, At, NoDeed, catalogue, Saids, Dated, Sure, Waits
<1>2. ASSUME Answer(r, "error") PROVE Known'
  BY <1>1, <1>2, KnownAnswered
<1>3. ASSUME NEW step \in {"erase", "write", "drop"}, Step(r, step) PROVE Known'
  <2>1. step \in Past \cup Waits /\ step \notin Dated
    BY DEF Past, Dated
  <2>2. PICK b : /\ Onward(r, b) /\ b.step = step /\ desk' = [desk EXCEPT ![r] = b]
                 /\ handed' = handed
    BY <1>3, <2>1, StepIs DEF Onward
  <2> QED BY <1>1, <2>1, <2>2, KnownStepped
<1>4. ASSUME Step(r, "reread") PROVE Known'
  <2>1. "reread" \in Past \cup Waits
    BY DEF Past
  <2>2. PICK b : /\ Onward(r, b) /\ b.step = "reread" /\ desk' = [desk EXCEPT ![r] = b]
                 /\ handed' = handed
    BY <1>4, <2>1, StepIs DEF Onward
  <2>3. KeysTrue'
    BY <1>1, <2>2, KeysStepped DEF Known, WritesOwn
  <2>4. TruthTold'
    BY <1>1, <2>2, TruthStepped DEF Known, WritesOwn
  <2>5. PasswordsKnown'
    BY <1>1, <2>2, PasswordsStepped DEF Known
  <2> QED BY <2>3, <2>4, <2>5 DEF Known
<1> QED BY <1>2, <1>3, <1>4 DEF FindStudent, Erase

LEMMA WriteKnown ==
  ASSUME DeskTyped, PupilsTyped, RowsHeld, Known, NEW r \in Requests, AtWork(r),
         WriteStatus(r) \/ WritePassword(r), rows \in [Items -> {"new", "there", "gone"}]
  PROVE  Known'
<1>1. /\ desk[r].step = "write" /\ UNCHANGED <<jobs, rows, slips>> /\ Who(r) \in Students
      /\ "error" \in Saids /\ desk[r].step \notin Dated /\ ~Sure(r) /\ desk[r].step \notin Waits
      /\ rows[Who(r)] # "new" /\ pupils \in [Students -> Pupils \cup {NoRow}]
      /\ Students \subseteq Items
  <2>1. desk[r].step = "write" /\ UNCHANGED <<jobs, rows, slips>>
    BY DEF WriteStatus, WritePassword, At, catalogue
  <2> QED BY <2>1, RowInHand DEF Saids, Dated, Sure, Waits, RowsHeld, PupilsTyped, Items
<1>2. CASE pupils[Who(r)] = NoRow
  <2>1. Answer(r, "error") /\ UNCHANGED <<deeds, pupils>>
    BY <1>2 DEF WriteStatus, WritePassword, NoDeed
  <2> QED BY <1>1, <2>1, KnownAnswered
<1>3. CASE pupils[Who(r)] # NoRow
  <2>1. rows[Who(r)] = "there" /\ pupils[Who(r)] \in Pupils
    BY <1>1, <1>3 DEF PupilsTyped
  <2>2. Deed(r) /\ Step(r, "audit")
    BY <1>3 DEF WriteStatus, WritePassword
  <2>3. PICK p : pupils' = [pupils EXCEPT ![Who(r)] = p] /\
                 \/ p.pw = pupils[Who(r)].pw /\ desk[r].kind = "status"
                 \/ p.pw = Key(r) /\ desk[r].kind = "resend"
    <3>1. CASE WriteStatus(r)
      <4>1. PICK p : p = [pupils[Who(r)] EXCEPT !.active = desk[r].active]
        OBVIOUS
      <4>2. p.pw = pupils[Who(r)].pw
        BY <2>1, <4>1 DEF Pupils
      <4>3. pupils' = [pupils EXCEPT ![Who(r)] = p] /\ desk[r].kind = "status"
        BY <1>1, <1>3, <2>1, <3>1, <4>1 DEF WriteStatus
      <4> QED BY <4>2, <4>3
    <3>2. CASE WritePassword(r)
      <4>1. PICK p : p = [pupils[Who(r)] EXCEPT !.pw = Key(r)]
        OBVIOUS
      <4>2. p.pw = Key(r)
        BY <2>1, <4>1 DEF Pupils
      <4>3. pupils' = [pupils EXCEPT ![Who(r)] = p] /\ desk[r].kind = "resend"
        BY <1>1, <1>3, <2>1, <3>2, <4>1 DEF WritePassword
      <4> QED BY <4>2, <4>3
    <3> QED BY <3>1, <3>2
  <2>4. /\ pupils'[Who(r)] = p
        /\ \A s \in Students \ {Who(r)} : pupils'[s] = pupils[s] /\ rows'[s] = rows[s]
        /\ \A s \in Students : rows[s] = "gone" => rows'[s] = "gone"
        /\ slips \subseteq slips'
    BY <1>1, <2>3
  <2> QED BY <1>1, <1>3, <2>1, <2>2, <2>3, <2>4, DeedNoted, KnownWritten
<1> QED BY <1>2, <1>3

LEMMA RereadKnown ==
  ASSUME DeskTyped, RowsHeld, Known, NEW r \in Requests, AtWork(r), Reread(r),
         rows \in [Items -> {"new", "there", "gone"}]
  PROVE  Known'
<1>1. /\ desk[r].step = "reread" /\ UNCHANGED <<jobs, deeds, rows, pupils, slips>>
      /\ {"ok", "error"} \subseteq Saids /\ ~Sure(r) /\ desk[r].step \notin Waits
      /\ rows[Who(r)] \in {"there", "gone"}
  <2>1. desk[r].step = "reread" /\ UNCHANGED <<jobs, deeds, rows, pupils, slips>>
    BY DEF Reread, At, NoDeed, catalogue
  <2>2. Who(r) \in Items /\ rows[Who(r)] # "new"
    BY <2>1, RowInHand DEF RowsHeld, Items
  <2> QED BY <2>1, <2>2 DEF Saids, Sure, Waits
<1>2. \/ Answer(r, "ok")
      \/ Answer(r, "error") /\ rows[Who(r)] = "gone"
  BY <1>1 DEF Reread
<1> QED BY <1>1, <1>2, KnownAnswered

LEMMA DropKnown ==
  ASSUME DeskTyped, PupilsTyped, Known, NEW r \in Requests, AtWork(r), Drop(r),
         rows \in [Items -> {"new", "there", "gone"}]
  PROVE  Known'
<1>1. /\ desk[r].step = "drop" /\ UNCHANGED <<jobs, slips>> /\ Step(r, "audit")
      /\ pupils' = [pupils EXCEPT ![Who(r)] = NoRow] /\ rows' = [rows EXCEPT ![Who(r)] = "gone"]
      /\ Who(r) \in Students /\ Students \subseteq Items
  BY RowInHand DEF Drop, At, Items
<1>2. desk[r].kind = "delete" /\ desk[r].step \notin Waits
  BY <1>1 DEF DeskTyped, InKind, Waits
<1>3. WritesOwn(r)
  BY DeedNoted DEF Drop, NoDeed, WritesOwn
<1>4. /\ pupils'[Who(r)] = NoRow
      /\ \A s \in Students \ {Who(r)} : pupils'[s] = pupils[s] /\ rows'[s] = rows[s]
      /\ \A s \in Students : rows[s] = "gone" => rows'[s] = "gone"
      /\ slips \subseteq slips'
  BY <1>1 DEF PupilsTyped
<1> QED BY <1>1, <1>2, <1>3, <1>4, KnownWritten

LEMMA WorksKnown ==
  ASSUME Batched, rows \in [Items -> {"new", "there", "gone"}], Known,
         NEW r \in Requests, AtWork(r), Works(r)
  PROVE  Known'
<1>1. DeskTyped /\ PupilsTyped /\ RowsHeld /\ pupils \in [Students -> Pupils \cup {NoRow}]
  BY DEF Batched, PupilsTyped
<1> QED
  BY <1>1, MishapsKnown, AuditKnown, LoginKnown, ProfileKnown, UndoKnown, ClassKnown, FindKnown,
     WriteKnown, RereadKnown, DropKnown DEF Works

LEMMA KnownInit == Init => Known
<1> SUFFICES ASSUME Init PROVE Known
  OBVIOUS
<1>1. /\ desk = [r \in Requests |-> NoBatch] /\ deeds = {}
      /\ pupils = [s \in Students |-> IF rows[s] = "there"
                     THEN [active |-> TRUE, pw |-> <<0, 0>>, seen |-> FALSE] ELSE NoRow]
  BY DEF Init, OfficeInit
<1>2. \A r \in Requests : desk[r].step = "idle" /\ desk[r].answers = <<>> /\ ~AtWork(r) /\ ~Sure(r)
  BY <1>1, NoBatchIs DEF AtWork, Sure
<1>3. \A r \in Requests : DOMAIN desk[r].answers = {}
  BY <1>2
<1>4. KeysTrue /\ TruthTold
  BY <1>1, <1>2, <1>3 DEF KeysTrue, TruthTold
<1>5. \A s \in Students : pupils[s] # NoRow => rows[s] = "there" /\ pupils[s].pw = <<0, 0>>
  BY <1>1
<1>6. PasswordsKnown
  <2>1. \A s \in Students : pupils[s] # NoRow => pupils[s].pw[1] = 0
    BY <1>5
  <2> QED BY <1>5, <2>1 DEF PasswordsKnown
<1> QED BY <1>4, <1>6 DEF Known

LEMMA KnownNext == Shaped /\ Known /\ [Next]_vars => Known'
<1> SUFFICES ASSUME Shaped, Known, [Next]_vars PROVE Known'
  OBVIOUS
<1>1. /\ Batched /\ DeskTyped /\ PupilsTyped /\ CatalogueTyped /\ ReportTyped
      /\ rows \in [Items -> {"new", "there", "gone"}] /\ jobs \in 0..MaxJobs
      /\ pupils \in [Students -> Pupils \cup {NoRow}] /\ Students \subseteq Items
  BY DEF Shaped, Batched, CatalogueTyped, DeskTyped, PupilsTyped, Items
<1>2. ASSUME UNCHANGED <<desk, deeds, slips, handed, pupils>>, jobs' \in {jobs, jobs + 1},
             \A s \in Students : rows'[s] = rows[s]
      PROVE  Known'
  BY <1>1, <1>2, KnownLeft
<1>3. CASE AccountsNext /\ UNCHANGED <<listings, office, jobs>>
  BY <1>2, <1>3 DEF listings, office
<1>4. CASE ListingsStep /\ UNCHANGED <<office, jobs>>
  <2>1. \A s \in Students : rows'[s] = rows[s]
    BY <1>1, <1>4, ListingsForth
  <2> QED BY <1>2, <1>4, <2>1 DEF office
<1>5. CASE OfficeStep
  <2>1. ASSUME Logs PROVE Known'
    <3>1. UNCHANGED <<desk, deeds, slips, handed, pupils, rows>> /\ (jobs' = jobs \/ jobs' = jobs + 1)
      BY <2>1 DEF Logs, Save, BeginExport, ReadEntries, CountEntries, Job, catalogue
    <3> QED BY <1>2, <3>1
  <2>2. ASSUME NEW r \in Requests, Batch(r) PROVE Known'
    <3>1. CASE AtWork(r)
      BY <1>1, <2>2, <3>1, WorksKnown DEF Batch
    <3>2. CASE ~AtWork(r)
      BY <1>1, <2>2, <3>2, KnownBegun DEF Batch
    <3> QED BY <3>1, <3>2
  <2>3. ASSUME NEW s \in Students, CreateStudent(s) PROVE Known'
    <3>1. PICK p : p = [active |-> TRUE, pw |-> <<0, 0>>, seen |-> FALSE]
      OBVIOUS
    <3>2. /\ rows[s] = "new" /\ rows' = [rows EXCEPT ![s] = "there"] /\ pupils' = [pupils EXCEPT ![s] = p]
          /\ p.pw = <<0, 0>> /\ UNCHANGED <<desk, deeds, slips, handed, jobs>>
      BY <2>3, <3>1 DEF CreateStudent, Enter
    <3>3. \A i \in Students : rows[i] = "gone" => rows'[i] = "gone"
      BY <1>1, <3>2
    <3>4. \A i \in Students : pupils'[i] # NoRow =>
            \/ pupils[i] # NoRow /\ pupils'[i].pw = pupils[i].pw /\ rows'[i] = rows[i]
            \/ pupils'[i].pw = <<0, 0>> /\ rows'[i] = "there"
      BY <1>1, <3>2
    <3> QED BY <1>1, <3>2, <3>3, <3>4, KnownLeft
  <2>4. ASSUME NEW s \in Students, DeleteStudent(s) PROVE Known'
    <3>1. /\ rows' = [rows EXCEPT ![s] = "gone"] /\ pupils' = [pupils EXCEPT ![s] = NoRow]
          /\ UNCHANGED <<desk, deeds, slips, handed, jobs>>
      BY <2>4 DEF DeleteStudent, Delete
    <3>2. \A i \in Students : rows[i] = "gone" => rows'[i] = "gone"
      BY <1>1, <3>1
    <3>3. \A i \in Students : pupils'[i] # NoRow =>
            pupils[i] # NoRow /\ pupils'[i].pw = pupils[i].pw /\ rows'[i] = rows[i]
      BY <1>1, <3>1
    <3> QED BY <1>1, <3>1, <3>2, <3>3, KnownLeft
  <2> QED BY <1>5, <2>1, <2>2, <2>3, <2>4 DEF OfficeStep
<1>6. CASE InsightStep /\ UNCHANGED <<listings, desk, deeds, slips, handed, jobs>>
  <2>1. UNCHANGED rows
    BY <1>6 DEF listings
  <2>2. CASE MoreNews /\ Happens
    <3>1. \A s \in Students : /\ pupils'[s] = NoRow <=> pupils[s] = NoRow
                              /\ pupils[s] # NoRow => pupils'[s].pw = pupils[s].pw
      BY <1>1, <2>1, <2>2, HappensTyped
    <3> QED BY <1>1, <1>6, <2>1, <3>1, KnownLeft
  <2>3. CASE pupils' = pupils
    BY <1>2, <1>6, <2>1, <2>3
  <2> QED BY <1>6, <2>2, <2>3 DEF InsightStep, BeginReport, ReadNext
<1>7. CASE UNCHANGED vars
  BY <1>2, <1>7 DEF vars, listings, office
<1> QED BY <1>3, <1>4, <1>5, <1>6, <1>7, Parts

\* What is known says what is promised: of the answers, ...
LEMMA KnownIsTrue == Shaped /\ Known => AnswersAreTrue
<1> SUFFICES ASSUME Shaped, Known PROVE AnswersAreTrue
  OBVIOUS
<1>1. ASSUME NEW r \in Requests, NEW i \in DOMAIN desk[r].answers, NEW a, a = desk[r].answers[i]
      PROVE  CASE a.said \in {"created", "sent"} -> Written(a.key)
               [] a.said \in {"duplicate", "invalid"} -> ~Written(a.key)
               [] a.said = "error" ->
                    Written(a.key) => rows[a.who] = "gone" \/ Slipped(a.key, {"reread"})
               [] OTHER -> TRUE
  <2>1. Truthful(a)
    BY <1>1 DEF Known, TruthTold
  <2>2. CASE a.said \in {"created", "sent"}
    BY <2>1, <2>2 DEF Truthful
  <2>3. CASE a.said \in {"duplicate", "invalid"}
    BY <2>1, <2>3 DEF Truthful
  <2>4. CASE a.said = "error"
    BY <2>1, <2>4 DEF Truthful
  <2>5. CASE a.said \notin {"created", "sent", "duplicate", "invalid", "error"}
    BY <2>5
  <2> QED BY <2>2, <2>3, <2>4, <2>5
\* ... and of the passwords.
<1>2. ASSUME NEW s \in Students, NEW pw, pw = pupils[s].pw, pupils[s] # NoRow, pw[1] > 0
      PROVE  \/ rows[s] = "there" /\ pw \in handed
             \/ \E r \in Requests : desk[r].job = pw[1]
             \/ \E l \in slips : l.key[1] = pw[1] /\ l.died
             \/ Slipped(pw, {"undo"})
  <2>1. DeskTyped /\ KeysTrue
    BY DEF Shaped, Known
  <2>2. \A r \in Requests : InHand(r, s, pw) => desk[r].job = pw[1]
    BY <2>1, RowInHand DEF InHand
  <2>3. \A r \in Requests : Promised(r, pw) => desk[r].job = pw[1]
    BY <2>1 DEF Promised, KeysTrue
  <2>4. /\ rows[s] # "there" =>
             Lost(pw) \/ \E r \in Requests : InHand(r, s, pw) /\ desk[r].step \in Waits
        /\ pw \in handed \/ Lost(pw) \/ \E r \in Requests : InHand(r, s, pw) \/ Promised(r, pw)
    BY <1>2 DEF Known, PasswordsKnown
  <2> QED BY <2>2, <2>3, <2>4 DEF Lost
<1> QED BY <1>1, <1>2 DEF AnswersAreTrue

\* Every answer of a bulk operation tells what its row came to, whatever fails or goes on
\* beside it, and no student has a password that nobody was shown, unless the request died or
\* the repair failed.
THEOREM AnswersStayTrue == Spec => []AnswersAreTrue
<1>1. Spec => []Known
  BY KnownInit, KnownNext, AlwaysShaped, PTL DEF Spec
<1> QED BY <1>1, AlwaysShaped, KnownIsTrue, PTL

------------------------------------------------------------------------------
(* The logs.                                                               *)

\* What the log should say of a student.
Standing(s) ==
  IF rows[s] = "gone" THEN {"deleted"}
  ELSE IF pupils[s].active THEN {"created", "enabled"} ELSE {"disabled"}

\* It is known to be complete on them, but for entries under way.
Followed(s) ==
  s \notin swapped /\ rows[s] # "new" /\ \A l \in slips : l.who = s => l.step # "audit"

\* An entry on how they stand is under way.
Owes(r, s) == At(r, "audit") /\ Who(r) = s /\ desk[r].kind # "resend"

LastWord(s, what) ==
  \E i \in Told(s) : trail[i].what = what /\ \A j \in Told(s) : j <= i

\* What is under way says how they stand, and if nothing is, the last word does.
Logged(s) ==
  Followed(s) =>
    /\ \A r \in Requests : Owes(r, s) => What(r) \in Standing(s)
    /\ (\A r \in Requests : ~Owes(r, s)) => \E what \in Standing(s) : LastWord(s, what)

LogCurrent == \A s \in Students : Logged(s)

\* What is entered of others, or of a password, is no word on how a student stands.
LEMMA WordStays ==
  ASSUME LogsTyped, NEW s, NEW what, LastWord(s, what), NEW e,
         trail' = Append(trail, e), e.who # s \/ e.what = "resent"
  PROVE  LastWord(s, what)'
<1>1. /\ Len(trail) \in Nat /\ DOMAIN trail = 1..Len(trail) /\ DOMAIN trail' = 1..(Len(trail) + 1)
      /\ \A i \in 1..Len(trail) : trail'[i] = trail[i]
      /\ trail'[Len(trail) + 1] = e
  BY DEF LogsTyped
<1>2. Told(s)' = Told(s)
  BY <1>1 DEF Told
<1>3. PICK i \in Told(s) : trail[i].what = what /\ \A j \in Told(s) : j <= i
  BY DEF LastWord
<1>4. i \in Told(s)' /\ trail'[i].what = what /\ \A j \in Told(s)' : j <= i
  BY <1>1, <1>2, <1>3 DEF Told
<1> QED BY <1>4 DEF LastWord

\* What is entered is the last word.
LEMMA WordEntered ==
  ASSUME LogsTyped, NEW s, NEW e, trail' = Append(trail, e), e.who = s, e.what # "resent"
  PROVE  LastWord(s, e.what)'
<1>1. /\ Len(trail) \in Nat /\ DOMAIN trail' = 1..(Len(trail) + 1)
      /\ trail'[Len(trail) + 1] = e
  BY DEF LogsTyped
<1>2. Len(trail) + 1 \in Told(s)' /\ \A j \in Told(s)' : j <= Len(trail) + 1
  BY <1>1 DEF Told
<1> QED BY <1>1, <1>2 DEF LastWord

\* Nothing that the log should say of a student has changed.
LEMMA LoggedAgain ==
  ASSUME LogsTyped, NEW s, Logged(s), Followed(s)' => Followed(s) /\ Standing(s)' = Standing(s),
         \A o \in Requests : Owes(o, s)' <=> Owes(o, s),
         \A o \in Requests : Owes(o, s) => What(o)' = What(o),
         \/ trail' = trail
         \/ \E e : trail' = Append(trail, e) /\ (e.who # s \/ e.what = "resent")
  PROVE  Logged(s)'
<1> SUFFICES ASSUME Followed(s)'
             PROVE  /\ \A r \in Requests : Owes(r, s)' => What(r)' \in Standing(s)'
                    /\ (\A r \in Requests : ~Owes(r, s)') => \E what \in Standing(s)' : LastWord(s, what)'
  BY DEF Logged
<1>1. \A r \in Requests : Owes(r, s)' => What(r)' \in Standing(s)'
  BY DEF Logged
<1>2. ASSUME \A r \in Requests : ~Owes(r, s)' PROVE \E what \in Standing(s)' : LastWord(s, what)'
  <2>1. PICK what \in Standing(s) : LastWord(s, what)
    BY <1>2 DEF Logged
  <2>2. LastWord(s, what)'
    <3>1. CASE trail' = trail
      BY <2>1, <3>1 DEF LastWord, Told
    <3>2. CASE trail' # trail
      BY <2>1, <3>2, WordStays
    <3> QED BY <3>1, <3>2
  <2>3. what \in Standing(s)'
    BY <2>1
  <2> QED BY <2>2, <2>3
<1> QED BY <1>1, <1>2

\* One desk moves, and neither comes to an entry nor from one.
LEMMA LoggedFrame ==
  ASSUME DeskTyped, LogsTyped, NEW s, Logged(s), NEW r \in Requests, NEW b,
         desk' = [desk EXCEPT ![r] = b], desk[r].step # "audit", b.step # "audit",
         swapped \subseteq swapped', slips \subseteq slips', trail' = trail,
         rows'[s] # "new" => rows'[s] = rows[s] /\ Standing(s)' = Standing(s)
  PROVE  Logged(s)'
<1>1. desk'[r] = b /\ \A o \in Requests \ {r} : desk'[o] = desk[o]
  BY DEF DeskTyped
<1>2. \A o \in Requests : Owes(o, s)' <=> Owes(o, s)
  <2> TAKE o \in Requests
  <2>1. CASE o = r
    BY <1>1, <2>1 DEF Owes, At
  <2>2. CASE o # r
    BY <1>1, <2>2 DEF Owes, At, Who, Row
  <2> QED BY <2>1, <2>2
<1>3. \A o \in Requests : Owes(o, s) => What(o)' = What(o)
  <2> TAKE o \in Requests
  <2>1. CASE o = r
    BY <1>1, <2>1 DEF Owes, At
  <2>2. CASE o # r
    BY <1>1, <2>2 DEF What
  <2> QED BY <2>1, <2>2
<1>4. Followed(s)' => Followed(s) /\ Standing(s)' = Standing(s)
  BY DEF Followed
<1> QED BY <1>2, <1>3, <1>4, LoggedAgain

\* A row has written what its student came to: the entry is next.
LEMMA LoggedWritten ==
  ASSUME DeskTyped, LogsTyped, LogCurrent, NEW r \in Requests, AtWork(r), NEW b,
         desk' = [desk EXCEPT ![r] = b], desk[r].step # "audit", b.step = "audit",
         b.list = desk[r].list, b.kind = desk[r].kind, b.active = desk[r].active,
         swapped \subseteq swapped', slips' = slips, trail' = trail,
         \A s \in Students : s # Who(r) => rows'[s] = rows[s] /\ pupils'[s] = pupils[s],
         NEW w, w = Who(r), NEW a, a = What(r),
         Followed(w)' /\ a # "resent" =>
           a \in Standing(w)' /\ \A o \in Requests \ {r} : Owes(o, w) => What(o) \in Standing(w)',
         a = "resent" => rows'[w] = rows[w] /\ Standing(w)' = Standing(w)
  PROVE  LogCurrent'
<1>1. desk'[r] = b /\ \A o \in Requests \ {r} : desk'[o] = desk[o]
  BY DEF DeskTyped
<1>2. /\ \A o \in Requests \ {r}, s \in Students : Owes(o, s)' <=> Owes(o, s)
      /\ \A o \in Requests : What(o)' = What(o)
      /\ \A s \in Students : ~Owes(r, s)
      /\ \A s \in Students : Owes(r, s)' <=> s = w /\ a # "resent"
  <2>1. \A o \in Requests \ {r}, s \in Students : Owes(o, s)' <=> Owes(o, s)
    BY <1>1 DEF Owes, At, Who, Row
  <2>2. \A o \in Requests : What(o)' = What(o)
    BY <1>1 DEF What
  <2>3. \A s \in Students : ~Owes(r, s)
    BY DEF Owes, At
  <2>4. a = "resent" <=> desk[r].kind = "resend"
    BY DEF What
  <2>5. \A s \in Students : Owes(r, s)' <=> s = w /\ a # "resent"
    BY <1>1, <2>4 DEF Owes, At, Who, Row
  <2> QED BY <2>1, <2>2, <2>3, <2>5
<1> SUFFICES ASSUME NEW s \in Students PROVE Logged(s)'
  BY DEF LogCurrent
<1>3. Logged(s)
  BY DEF LogCurrent
<1>4. CASE s # w \/ a = "resent"
  <2>1. rows'[s] = rows[s] /\ Standing(s)' = Standing(s)
    BY <1>4 DEF Standing
  <2>2. Followed(s)' => Followed(s)
    BY <2>1 DEF Followed
  <2>3. \A o \in Requests : Owes(o, s)' <=> Owes(o, s)
    BY <1>2, <1>4
  <2> QED BY <1>2, <1>3, <2>1, <2>2, <2>3, LoggedAgain
<1>5. CASE s = w /\ a # "resent"
  <2> SUFFICES ASSUME Followed(s)'
               PROVE  \A o \in Requests : Owes(o, s)' => What(o)' \in Standing(s)'
    BY <1>2, <1>5 DEF Logged
  <2> QED BY <1>2, <1>5
<1> QED BY <1>4, <1>5

\* A desk moves while every student stands as before.
LEMMA LoggedMoved ==
  ASSUME DeskTyped, LogsTyped, LogCurrent, NEW r \in Requests, NEW b,
         desk' = [desk EXCEPT ![r] = b], desk[r].step # "audit", b.step # "audit",
         swapped \subseteq swapped', slips \subseteq slips', UNCHANGED <<trail, rows>>,
         \A s \in Students : rows[s] # "new" => Standing(s)' = Standing(s)
  PROVE  LogCurrent'
BY LoggedFrame DEF LogCurrent

\* A row is answered, or goes on.
LEMMA LoggedQuiet ==
  ASSUME DeskTyped, LogsTyped, LogCurrent, NEW r \in Requests, AtWork(r),
         \/ \E said \in Saids : Answer(r, said)
         \/ \E step \in (Past \cup Waits) \ {"audit"} : Step(r, step),
         desk[r].step # "audit", swapped' = swapped, slips \subseteq slips', UNCHANGED <<trail, rows>>,
         \A s \in Students : rows[s] # "new" => Standing(s)' = Standing(s)
  PROVE  LogCurrent'
<1>1. \E b : desk' = [desk EXCEPT ![r] = b] /\ b.step # "audit"
  <2>1. ASSUME NEW said \in Saids, Answer(r, said)
        PROVE  \E b : desk' = [desk EXCEPT ![r] = b] /\ b.step # "audit"
    BY <2>1, Answering DEF Ended, FirstStep
  <2>2. ASSUME NEW step \in (Past \cup Waits) \ {"audit"}, Step(r, step)
        PROVE  \E b : desk' = [desk EXCEPT ![r] = b] /\ b.step # "audit"
    BY <2>2, StepIs
  <2> QED BY <2>1, <2>2
<1> QED BY <1>1, LoggedMoved

\* A row comes from its entry in the log, which was made or failed.
LEMMA LoggedLeaves ==
  ASSUME DeskTyped, LogsTyped, LogCurrent, NEW r \in Requests, NEW b,
         desk' = [desk EXCEPT ![r] = b], desk[r].step = "audit", b.step # "audit",
         UNCHANGED <<swapped, rows, pupils>>, slips \subseteq slips',
         NEW w, w = Who(r), NEW a, a = What(r),
         \/ trail' = trail /\ \E l \in slips' : l.who = w /\ l.step = "audit"
         \/ \E e : trail' = Append(trail, e) /\ e.who = w /\ e.what = a
  PROVE  LogCurrent'
<1>1. desk'[r] = b /\ \A o \in Requests \ {r} : desk'[o] = desk[o]
  BY DEF DeskTyped
<1>2. /\ \A o \in Requests \ {r}, s \in Students : Owes(o, s)' <=> Owes(o, s)
      /\ \A o \in Requests \ {r} : What(o)' = What(o)
      /\ \A s \in Students : ~Owes(r, s)'
      /\ \A s \in Students : Owes(r, s) <=> s = w /\ a # "resent"
  <2>1. \A o \in Requests \ {r}, s \in Students : Owes(o, s)' <=> Owes(o, s)
    BY <1>1 DEF Owes, At, Who, Row
  <2>2. \A o \in Requests \ {r} : What(o)' = What(o)
    BY <1>1 DEF What
  <2>3. \A s \in Students : ~Owes(r, s)'
    BY <1>1 DEF Owes, At
  <2>4. a = "resent" <=> desk[r].kind = "resend"
    BY DEF What
  <2>5. \A s \in Students : Owes(r, s) <=> s = w /\ a # "resent"
    BY <2>4 DEF Owes, At
  <2> QED BY <2>1, <2>2, <2>3, <2>5
<1> SUFFICES ASSUME NEW s \in Students PROVE Logged(s)'
  BY DEF LogCurrent
<1>3. Logged(s) /\ Standing(s)' = Standing(s) /\ (Followed(s)' => Followed(s))
  BY DEF LogCurrent, Standing, Followed
<1>4. CASE s = w /\ \E l \in slips' : l.who = w /\ l.step = "audit"
  BY <1>4 DEF Logged, Followed
<1>5. CASE s # w \/ a = "resent"
  <2>1. \A o \in Requests : Owes(o, s)' <=> Owes(o, s)
    BY <1>2, <1>5
  <2>2. \A o \in Requests : Owes(o, s) => What(o)' = What(o)
    BY <1>2, <2>1
  <2> QED BY <1>3, <1>5, <2>1, <2>2, LoggedAgain
<1>6. CASE s = w /\ a # "resent" /\ \E e : trail' = Append(trail, e) /\ e.who = w /\ e.what = a
  <2>1. LastWord(s, a)'
    BY <1>6, WordEntered
  <2>2. Followed(s)' => a \in Standing(s)' /\ \A o \in Requests : Owes(o, s)' => What(o)' \in Standing(s)'
    BY <1>2, <1>3, <1>6 DEF Logged
  <2> QED BY <2>1, <2>2 DEF Logged
<1> QED BY <1>4, <1>5, <1>6

LEMMA SlipOf ==
  ASSUME NEW r, NEW died, Mishap(r, died)
  PROVE  slips \subseteq slips' /\ \E l \in slips' : l.who = Who(r) /\ l.step = desk[r].step
<1>1. PICK l : l = [key |-> Key(r), who |-> Who(r), step |-> desk[r].step, died |-> died]
  OBVIOUS
<1>2. l \in slips' /\ slips \subseteq slips'
  BY <1>1 DEF Mishap
<1> QED BY <1>1, <1>2

LEMMA MishapsLogged ==
  ASSUME DeskTyped, LogsTyped, LogCurrent, NEW r \in Requests, AtWork(r), FailRow(r) \/ Break(r)
  PROVE  LogCurrent'
<1>1. UNCHANGED <<rows, pupils, trail, swapped>> /\ \A s \in Students : Standing(s)' = Standing(s)
  BY DEF FailRow, Break, NoDeed, catalogue, Standing
<1>2. slips \subseteq slips' /\ \E l \in slips' : l.who = Who(r) /\ l.step = desk[r].step
  BY SlipOf DEF FailRow, Break, Slip
<1>3. CASE FailRow(r)
  <2>1. Answer(r, "error") /\ "error" \in Saids /\ desk[r].step # "audit"
    BY <1>3 DEF FailRow, Saids
  <2> QED BY <1>1, <1>2, <2>1, LoggedQuiet
<1>4. CASE Break(r)
  <2>1. desk' = [desk EXCEPT ![r] = NoBatch] /\ NoBatch.step # "audit"
    BY <1>4, NoBatchIs DEF Break
  <2>2. CASE desk[r].step = "audit"
    BY <1>1, <1>2, <2>1, <2>2, LoggedLeaves
  <2>3. CASE desk[r].step # "audit"
    BY <1>1, <1>2, <2>1, <2>3, LoggedMoved
  <2> QED BY <2>2, <2>3
<1> QED BY <1>3, <1>4

LEMMA AuditLogged ==
  ASSUME DeskTyped, LogsTyped, LogCurrent, NEW r \in Requests, AtWork(r), Audit(r)
  PROVE  LogCurrent'
<1>1. /\ desk[r].step = "audit" /\ UNCHANGED <<rows, pupils, swapped>>
      /\ {"created", "sent", "ok"} \subseteq Saids
  BY DEF Audit, At, NoDeed, catalogue, Saids
<1>2. \E b : desk' = [desk EXCEPT ![r] = b] /\ b.step # "audit"
  <2>1. ASSUME NEW said \in Saids, Answer(r, said)
        PROVE  \E b : desk' = [desk EXCEPT ![r] = b] /\ b.step # "audit"
    BY <2>1, Answering DEF Ended, FirstStep
  <2>2. ASSUME NEW step \in {"class", "reread"}, Step(r, step)
        PROVE  \E b : desk' = [desk EXCEPT ![r] = b] /\ b.step # "audit"
    BY <2>2, StepIs DEF Past
  <2> QED BY <1>1, <2>1, <2>2 DEF Audit
<1>3. /\ slips \subseteq slips'
      /\ \/ trail' = trail /\ \E l \in slips' : l.who = Who(r) /\ l.step = "audit"
         \/ \E e : trail' = Append(trail, e) /\ e.who = Who(r) /\ e.what = What(r)
  <2>1. CASE trail' = Entered(r) /\ UNCHANGED slips
    <3>1. PICK e : e = [what |-> What(r), who |-> Who(r)]
      OBVIOUS
    <3> QED BY <2>1, <3>1 DEF Entered
  <2>2. CASE Slip(r) /\ UNCHANGED trail
    BY <1>1, <2>2, SlipOf DEF Slip
  <2> QED BY <2>1, <2>2 DEF Audit
<1> QED BY <1>1, <1>2, <1>3, LoggedLeaves


\* Students are made and unmade before they are in the log.
LEMMA LoginLogged ==
  ASSUME Batched, LogsTyped, LogCurrent, rows \in [Items -> {"new", "there", "gone"}],
         NEW r \in Requests, AtWork(r), CreateLogin(r) \/ UndoLogin(r)
  PROVE  LogCurrent'
<1>1. /\ DeskTyped /\ desk[r].step \in {"login", "undo"} /\ UNCHANGED <<trail, rows, swapped>>
      /\ {"invalid", "duplicate", "error"} \subseteq Saids /\ "profile" \in (Past \cup Waits) \ {"audit"}
      /\ Who(r) \in Students /\ Students \subseteq Items /\ pupils \in [Students -> Pupils \cup {NoRow}]
  BY RowInHand DEF CreateLogin, UndoLogin, At, NoDeed, catalogue, Batched, Saids, Past, Waits, Items,
     PupilsTyped
<1>2. pupils' = pupils \/ (rows[Who(r)] = "new" /\ \E p : pupils' = [pupils EXCEPT ![Who(r)] = p])
  <2>1. CASE CreateLogin(r)
    <3>1. pupils' = pupils \/ (Row(r).valid /\ pupils[Who(r)] = NoRow /\ \E p : pupils' = [pupils EXCEPT ![Who(r)] = p])
      BY <2>1 DEF CreateLogin
    <3>2. Row(r).valid /\ pupils[Who(r)] = NoRow => rows[Who(r)] = "new"
      <4>1. Row(r).valid => rows[Who(r)] # "gone"
        BY <2>1 DEF CreateLogin
      <4>2. pupils[Who(r)] = NoRow => rows[Who(r)] # "there"
        BY <1>1 DEF Batched, PupilsTyped
      <4>3. rows[Who(r)] \in {"new", "there", "gone"}
        BY <1>1
      <4> QED BY <4>1, <4>2, <4>3
    <3> QED BY <3>1, <3>2
  <2>2. CASE UndoLogin(r)
    <3>1. rows[Who(r)] = "new"
      BY <2>2 DEF UndoLogin, At, Batched, RowsHeld
    <3> QED BY <2>2, <3>1 DEF UndoLogin
  <2> QED BY <2>1, <2>2
<1>3. \A s \in Students : rows[s] # "new" => Standing(s)' = Standing(s)
  BY <1>1, <1>2 DEF Standing
<1>4. slips \subseteq slips'
  BY SlipOf DEF CreateLogin, UndoLogin, Slip
<1>5. (\E said \in Saids : Answer(r, said)) \/ (\E step \in (Past \cup Waits) \ {"audit"} : Step(r, step))
  BY <1>1 DEF CreateLogin, UndoLogin
<1> QED BY <1>1, <1>3, <1>4, <1>5, LoggedQuiet

\* Steps that change nothing but the desk, or a class.
LEMMA QuietLogged ==
  ASSUME Batched, LogsTyped, LogCurrent, NEW r \in Requests, AtWork(r),
         ResolveClass(r) \/ AssignClass(r) \/ FindStudent(r) \/ Reread(r) \/ Erase(r)
  PROVE  LogCurrent'
<1>1. /\ DeskTyped /\ desk[r].step # "audit" /\ UNCHANGED <<trail, rows, swapped, pupils>>
      /\ {"created", "error", "ok"} \subseteq Saids
      /\ {"assign", "erase", "write", "reread", "drop"} \subseteq (Past \cup Waits) \ {"audit"}
      /\ \A s \in Students : Standing(s)' = Standing(s)
  BY DEF ResolveClass, AssignClass, FindStudent, Reread, Erase, At, NoDeed, catalogue, Batched, Saids,
     Past, Waits, Standing
<1>2. slips \subseteq slips'
  BY SlipOf DEF ResolveClass, AssignClass, FindStudent, Reread, Erase, Slip
<1>3. ASSUME NEW g, desk' = [desk EXCEPT ![r].cache[Row(r).class] = g, ![r].step = "assign"]
      PROVE  LogCurrent'
  <2>1. PICK b : b = [desk[r] EXCEPT !.cache[Row(r).class] = g, !.step = "assign"]
    OBVIOUS
  <2>2. desk \in [Requests -> Desks]
    BY <1>1 DEF DeskTyped
  <2>3. desk' = [desk EXCEPT ![r] = b]
    BY <1>3, <2>1, <2>2
  <2>4. b.step = "assign"
    BY <2>1, <2>2 DEF Desks
  <2> QED BY <1>1, <1>2, <2>3, <2>4, LoggedMoved
<1>4. \/ \E said \in Saids : Answer(r, said)
      \/ \E step \in (Past \cup Waits) \ {"audit"} : Step(r, step)
      \/ \E g : desk' = [desk EXCEPT ![r].cache[Row(r).class] = g, ![r].step = "assign"]
  <2>1. CASE ResolveClass(r)
    BY <1>1, <2>1 DEF ResolveClass
  <2>2. CASE ~ResolveClass(r)
    BY <1>1, <2>2 DEF AssignClass, FindStudent, Reread, Erase
  <2> QED BY <2>1, <2>2
<1> QED BY <1>1, <1>2, <1>3, <1>4, LoggedQuiet

\* Whoever changes a student alone has no entry of another before theirs.
LEMMA DeedAlone ==
  ASSUME NEW r \in Requests, Deed(r), NEW w, w = Who(r), w \notin swapped'
  PROVE  \A o \in Requests \ {r} : ~Owes(o, w)
BY DEF Deed, Owes

LEMMA DeedGrows == ASSUME NEW r, Deed(r) PROVE swapped \subseteq swapped'
BY DEF Deed

LEMMA WritesLogged ==
  ASSUME Batched, LogsTyped, LogCurrent, rows \in [Items -> {"new", "there", "gone"}],
         NEW r \in Requests, AtWork(r), CreateProfile(r) \/ WriteStatus(r) \/ WritePassword(r)
  PROVE  LogCurrent'
<1>0. /\ DeskTyped /\ desk[r].step \in {"profile", "write"} /\ trail' = trail
      /\ Who(r) \in Students /\ Students \subseteq Items /\ pupils \in [Students -> Pupils \cup {NoRow}]
      /\ "audit" \in Past \cup Waits /\ "undo" \in (Past \cup Waits) \ {"audit"} /\ "error" \in Saids
  BY RowInHand DEF CreateProfile, WriteStatus, WritePassword, At, Batched, Past, Waits, Items, PupilsTyped, Saids
<1> DEFINE Quiet == /\ UNCHANGED <<rows, pupils, swapped>> /\ slips \subseteq slips'
                    /\ (Answer(r, "error") \/ Step(r, "undo"))
           Did == /\ Deed(r) /\ Step(r, "audit") /\ UNCHANGED slips
                  /\ \/ /\ CreateProfile(r) /\ rows' = [rows EXCEPT ![Who(r)] = "there"]
                     \/ /\ WriteStatus(r) /\ pupils[Who(r)] # NoRow
                        /\ pupils' = [pupils EXCEPT ![Who(r)].active = desk[r].active]
                     \/ WritePassword(r)
<1>1. CASE Quiet
  <2>1. \A s \in Students : Standing(s)' = Standing(s)
    BY <1>1 DEF Standing
  <2> QED BY <1>0, <1>1, <2>1, LoggedQuiet
<1>2. CASE Did
  <2>1. PICK b : /\ desk' = [desk EXCEPT ![r] = b] /\ b.step = "audit" /\ b.list = desk[r].list
                 /\ b.kind = desk[r].kind /\ b.active = desk[r].active
    BY <1>0, <1>2, StepIs
  <2>2. PICK w, a : w = Who(r) /\ a = What(r)
    OBVIOUS
  <2>3. swapped \subseteq swapped' /\ (Followed(w)' => \A o \in Requests \ {r} : ~Owes(o, w))
    BY <1>2, <2>2, DeedAlone, DeedGrows DEF Followed
  <2>4. \A s \in Students : s # Who(r) => rows'[s] = rows[s] /\ pupils'[s] = pupils[s]
    BY <1>0 DEF CreateProfile, WriteStatus, WritePassword, catalogue
  <2>5. CASE desk[r].kind = "resend" /\ WritePassword(r)
    <3>1. PICK p : p = [pupils[w] EXCEPT !.pw = Key(r)]
      OBVIOUS
    <3>2. pupils' = [pupils EXCEPT ![w] = p] \/ pupils' = pupils
      BY <2>2, <2>5, <3>1 DEF WritePassword
    <3>3. rows' = rows
      BY <2>5 DEF WritePassword, catalogue
    <3>4. pupils[w] # NoRow => p.active = pupils[w].active
      BY <1>0, <2>2, <3>1 DEF Pupils
    <3>5. rows[w] # "new"
      BY <2>2, <2>5 DEF WritePassword, At, Batched, RowsHeld
    <3>6. rows[w] = "gone" \/ pupils[w] # NoRow
      BY <1>0, <2>2, <3>5 DEF Batched, PupilsTyped
    <3>7. Standing(w)' = Standing(w)
      BY <1>0, <2>2, <3>2, <3>3, <3>4, <3>6 DEF Standing
    <3>8. a = "resent"
      BY <2>2, <2>5 DEF What
    <3> QED BY <1>0, <1>2, <2>1, <2>2, <2>3, <2>4, <3>3, <3>7, <3>8, LoggedWritten
  <2>6. CASE CreateProfile(r) /\ rows' = [rows EXCEPT ![Who(r)] = "there"]
    <3>1. desk[r].kind = "import" /\ rows[w] = "new" /\ pupils[w].active
      BY <1>0, <2>2, <2>6 DEF CreateProfile, At, Batched, RowsHeld, DeskTyped, InKind
    <3>2. pupils' = pupils /\ rows'[w] = "there"
      BY <1>0, <2>2, <2>6 DEF CreateProfile
    <3>3. a = "created" /\ a \in Standing(w)'
      BY <2>2, <3>1, <3>2 DEF What, Standing
    <3> QED BY <1>0, <1>2, <2>1, <2>2, <2>3, <2>4, <3>3, LoggedWritten
  <2>7. CASE /\ WriteStatus(r) /\ pupils[Who(r)] # NoRow
             /\ pupils' = [pupils EXCEPT ![Who(r)].active = desk[r].active]
    <3>1. desk[r].kind = "status" /\ rows' = rows
      BY <2>7 DEF WriteStatus, catalogue
    <3>2. pupils[w] # NoRow /\ pupils' = [pupils EXCEPT ![w].active = desk[r].active]
      BY <2>2, <2>7
    <3>3. pupils'[w].active = desk[r].active /\ desk[r].active \in BOOLEAN
      BY <1>0, <2>2, <3>2 DEF Pupils, DeskTyped, Desks
    <3>4. rows[w] # "gone"
      BY <1>0, <2>2, <3>2 DEF Batched, PupilsTyped
    <3>5. a \in Standing(w)' /\ a # "resent"
      BY <2>2, <3>1, <3>3, <3>4 DEF What, Standing
    <3> QED BY <1>0, <1>2, <2>1, <2>2, <2>3, <2>4, <3>5, LoggedWritten
  <2>8. WritePassword(r) => desk[r].kind = "resend"
    BY DEF WritePassword
  <2> QED BY <1>2, <2>5, <2>6, <2>7, <2>8
<1>3. Quiet \/ Did
  <2>1. CASE CreateProfile(r)
    BY <2>1, SlipOf DEF CreateProfile, NoDeed, Slip
  <2>2. CASE WriteStatus(r)
    BY <2>2 DEF WriteStatus, NoDeed, catalogue
  <2>3. CASE WritePassword(r)
    BY <2>3 DEF WritePassword, NoDeed, catalogue
  <2> QED BY <2>1, <2>2, <2>3
<1> QED BY <1>1, <1>2, <1>3

LEMMA DropLogged ==
  ASSUME Batched, LogsTyped, LogCurrent, rows \in [Items -> {"new", "there", "gone"}],
         NEW r \in Requests, AtWork(r), Drop(r)
  PROVE  LogCurrent'
<1>1. /\ DeskTyped /\ desk[r].step = "drop" /\ UNCHANGED <<trail, slips>> /\ Step(r, "audit")
      /\ pupils' = [pupils EXCEPT ![Who(r)] = NoRow] /\ rows' = [rows EXCEPT ![Who(r)] = "gone"]
      /\ Who(r) \in Students /\ Students \subseteq Items /\ rows[Who(r)] # "new"
      /\ pupils \in [Students -> Pupils \cup {NoRow}] /\ "audit" \in Past \cup Waits
  BY RowInHand DEF Drop, At, Batched, RowsHeld, Items, PupilsTyped, Past
<1>2. PICK b : /\ desk' = [desk EXCEPT ![r] = b] /\ b.step = "audit" /\ b.list = desk[r].list
               /\ b.kind = desk[r].kind /\ b.active = desk[r].active
  BY <1>1, StepIs
<1>3. PICK w, a : w = Who(r) /\ a = What(r)
  OBVIOUS
<1>4. a = "deleted" /\ Standing(w)' = {"deleted"}
  <2>1. desk[r].kind = "delete"
    BY <1>1 DEF DeskTyped, InKind
  <2> QED BY <1>1, <1>3, <2>1 DEF What, Standing
<1>5. \A s \in Students : s # Who(r) => rows'[s] = rows[s] /\ pupils'[s] = pupils[s]
  BY <1>1
<1>6. CASE pupils[w] # NoRow
  <2>1. swapped \subseteq swapped' /\ (Followed(w)' => \A o \in Requests \ {r} : ~Owes(o, w))
    BY <1>3, <1>6, DeedAlone, DeedGrows DEF Drop, Followed
  <2> QED BY <1>1, <1>2, <1>3, <1>4, <1>5, <2>1, LoggedWritten
<1>7. CASE pupils[w] = NoRow
  <2>1. rows[w] = "gone" /\ swapped' = swapped
    BY <1>1, <1>3, <1>7 DEF Drop, NoDeed, Batched, PupilsTyped
  <2>2. Standing(w) = {"deleted"}
    BY <2>1 DEF Standing
  <2>3. Followed(w)' => Followed(w)
    BY <1>1, <2>1 DEF Followed
  <2>4. Followed(w)' => \A o \in Requests \ {r} : Owes(o, w) => What(o) \in Standing(w)'
    BY <1>1, <1>3, <1>4, <2>2, <2>3 DEF LogCurrent, Logged
  <2> QED BY <1>1, <1>2, <1>3, <1>4, <1>5, <2>1, <2>4, LoggedWritten
<1> QED BY <1>6, <1>7

LEMMA WorksLogged ==
  ASSUME Batched, LogsTyped, LogCurrent, rows \in [Items -> {"new", "there", "gone"}],
         NEW r \in Requests, AtWork(r), Works(r)
  PROVE  LogCurrent'
<1>1. DeskTyped
  BY DEF Batched
<1> QED
  BY <1>1, MishapsLogged, AuditLogged, LoginLogged, QuietLogged, WritesLogged, DropLogged DEF Works


\* One student comes or goes, in one step with the entry.
LEMMA ComesLogged ==
  ASSUME Batched, LogsTyped, LogCurrent, CatalogueTyped, NEW s \in Students,
         CreateStudent(s) \/ DeleteStudent(s)
  PROVE  LogCurrent'
<1>0. /\ desk' = desk /\ slips' = slips /\ Students \subseteq Items
      /\ rows \in [Items -> {"new", "there", "gone"}] /\ pupils \in [Students -> Pupils \cup {NoRow}]
      /\ swapped \subseteq swapped'
      /\ s \notin swapped' => \A o \in Requests : ~Owes(o, s)
  BY DEF CreateStudent, DeleteStudent, Overtaking, Owes, Items, CatalogueTyped, Batched, PupilsTyped
<1>1. PICK e : /\ trail' = Append(trail, e) /\ e.who = s
               /\ \/ CreateStudent(s) /\ e.what = "created"
                  \/ DeleteStudent(s) /\ e.what = "deleted"
  <2>1. PICK c, d : c = [what |-> "created", who |-> s] /\ d = [what |-> "deleted", who |-> s]
    OBVIOUS
  <2>2. c.who = s /\ c.what = "created" /\ d.who = s /\ d.what = "deleted"
    BY <2>1
  <2> QED BY <2>1, <2>2 DEF CreateStudent, DeleteStudent
<1>2. \A i \in Students \ {s} : rows'[i] = rows[i] /\ pupils'[i] = pupils[i]
  BY <1>0 DEF CreateStudent, DeleteStudent, Enter, Delete
<1>3. e.what \in Standing(s)' /\ e.what # "resent"
  <2>1. CASE CreateStudent(s) /\ e.what = "created"
    <3>1. rows'[s] = "there" /\ pupils'[s].active
      BY <1>0, <2>1 DEF CreateStudent, Enter
    <3> QED BY <2>1, <3>1 DEF Standing
  <2>2. CASE DeleteStudent(s) /\ e.what = "deleted"
    <3>1. rows'[s] = "gone"
      BY <1>0, <2>2 DEF DeleteStudent, Delete
    <3> QED BY <2>2, <3>1 DEF Standing
  <2> QED BY <1>1, <2>1, <2>2
<1>4. \A o \in Requests : \A i : (Owes(o, i)' <=> Owes(o, i)) /\ What(o)' = What(o)
  BY <1>0 DEF Owes, At, Who, Row, What
<1>5. Logged(s)'
  <2>1. LastWord(s, e.what)'
    BY <1>1, <1>3, WordEntered
  <2> QED BY <1>0, <1>3, <1>4, <2>1 DEF Logged, Followed
<1>6. ASSUME NEW i \in Students \ {s} PROVE Logged(i)'
  <2>1. Standing(i)' = Standing(i) /\ (Followed(i)' => Followed(i))
    BY <1>0, <1>2 DEF Standing, Followed
  <2>2. Logged(i) /\ \E d : trail' = Append(trail, d) /\ d.who # i
    BY <1>1 DEF LogCurrent
  <2> QED BY <1>4, <2>1, <2>2, LoggedAgain
<1> QED BY <1>5, <1>6 DEF LogCurrent

\* Nothing the log should say has changed, and nothing has been entered.
LEMMA LogsLeft ==
  ASSUME LogsTyped, LogCurrent, UNCHANGED <<desk, slips, swapped, trail>>,
         \A s \in Students : Logged(s) /\ rows'[s] = rows[s] /\ Standing(s)' = Standing(s)
  PROVE  LogCurrent'
<1>1. \A o \in Requests : \A i : (Owes(o, i)' <=> Owes(o, i)) /\ What(o)' = What(o)
  BY DEF Owes, At, Who, Row, What
<1>2. ASSUME NEW s \in Students PROVE Logged(s)'
  <2>1. Followed(s)' => Followed(s) /\ Standing(s)' = Standing(s)
    BY DEF Followed
  <2> QED BY <1>1, <2>1, LoggedAgain
<1> QED BY <1>2 DEF LogCurrent

LEMMA LogInit == Init => LogCurrent
<1> SUFFICES ASSUME Init PROVE LogCurrent
  OBVIOUS
<1>1. /\ desk = [r \in Requests |-> NoBatch] /\ rows \in [Items -> {"new", "there"}]
      /\ pupils = [s \in Students |-> IF rows[s] = "there"
                     THEN [active |-> TRUE, pw |-> <<0, 0>>, seen |-> FALSE] ELSE NoRow]
  BY DEF Init, OfficeInit, ListingsInit
<1>2. PICK q \in [1..Cardinality(Enrolled) -> Enrolled] :
        /\ \A i, j \in DOMAIN q : q[i] = q[j] => i = j
        /\ trail = [i \in DOMAIN q |-> [what |-> "created", who |-> q[i]]]
  BY DEF Init, OfficeInit
<1>3. IsFiniteSet(Enrolled) /\ Cardinality(Enrolled) \in Nat
  <2>1. IsFiniteSet(Enrolled)
    BY ItemsAssumption, FS_Subset DEF Enrolled, Items
  <2> QED BY <2>1, FS_CardinalityType
<1>4. q \in Surjection(1..Cardinality(Enrolled), Enrolled)
  <2>1. q \in Injection(1..Cardinality(Enrolled), Enrolled)
    BY <1>2 DEF Injection, IsInjective
  <2>2. Cardinality(1..Cardinality(Enrolled)) = Cardinality(Enrolled)
    BY <1>3, FS_Interval
  <2> QED BY <1>3, <2>1, <2>2, FS_Injection
<1>5. ASSUME NEW s \in Students, rows[s] # "new" PROVE LastWord(s, "created") /\ "created" \in Standing(s)
  <2>1. rows[s] = "there" /\ s \in Enrolled
    BY <1>1, <1>5 DEF Items, Enrolled
  <2>2. PICK i \in 1..Cardinality(Enrolled) : q[i] = s
    BY <1>4, <2>1 DEF Surjection
  <2>3. DOMAIN trail = 1..Cardinality(Enrolled)
    BY <1>2
  <2>4. \A j \in DOMAIN trail : trail[j].who = q[j] /\ trail[j].what = "created"
    BY <1>2
  <2>5. i \in Told(s) /\ \A j \in Told(s) : j = i
    BY <1>2, <2>2, <2>3, <2>4 DEF Told
  <2>6. LastWord(s, "created")
    BY <2>3, <2>4, <2>5 DEF LastWord, Told
  <2>7. pupils[s].active
    BY <1>1, <2>1
  <2> QED BY <2>1, <2>6, <2>7 DEF Standing
<1>6. \A r \in Requests : ~At(r, "audit")
  BY <1>1, NoBatchIs DEF At
<1> QED BY <1>5, <1>6 DEF LogCurrent, Logged, Followed, Owes

LEMMA LogNext == Shaped /\ LogCurrent /\ [Next]_vars => LogCurrent'
<1> SUFFICES ASSUME Shaped, LogCurrent, [Next]_vars PROVE LogCurrent'
  OBVIOUS
<1>1. /\ Batched /\ DeskTyped /\ PupilsTyped /\ CatalogueTyped /\ ReportTyped /\ LogsTyped
      /\ rows \in [Items -> {"new", "there", "gone"}] /\ Students \subseteq Items
  BY DEF Shaped, Batched, CatalogueTyped, Items
<1>2. ASSUME UNCHANGED <<desk, slips, swapped, trail, pupils>>,
             \A s \in Students : rows'[s] = rows[s]
      PROVE  LogCurrent'
  <2>1. \A s \in Students : Logged(s) /\ Standing(s)' = Standing(s)
    BY <1>2 DEF Standing, LogCurrent
  <2> QED BY <1>1, <1>2, <2>1, LogsLeft
<1>3. CASE AccountsNext /\ UNCHANGED <<listings, office, jobs>>
  BY <1>2, <1>3 DEF listings, office
<1>4. CASE ListingsStep /\ UNCHANGED <<office, jobs>>
  <2>1. \A s \in Students : rows'[s] = rows[s]
    BY <1>1, <1>4, ListingsForth
  <2> QED BY <1>2, <1>4, <2>1 DEF office
<1>5. CASE OfficeStep
  <2>1. ASSUME Logs PROVE LogCurrent'
    BY <1>2, <2>1 DEF Logs, Save, BeginExport, ReadEntries, CountEntries, catalogue
  <2>2. ASSUME NEW r \in Requests, Batch(r) PROVE LogCurrent'
    <3>1. CASE AtWork(r)
      BY <1>1, <2>2, <3>1, WorksLogged DEF Batch
    <3>2. CASE ~AtWork(r)
      <4>1. ASSUME NEW kind, NEW list, NEW active, NEW cache, BeginBatch(r, kind, list, active, cache)
            PROVE  LogCurrent'
        <5>1. PICK b : b = [NoBatch EXCEPT !.kind = kind, !.step = FirstStep(kind),
                              !.job = jobs', !.list = list, !.active = active, !.cache = cache]
          OBVIOUS
        <5>2. desk' = [desk EXCEPT ![r] = b] /\ UNCHANGED <<trail, rows, swapped, slips, pupils>>
          BY <4>1, <5>1 DEF BeginBatch, catalogue
        <5>3. b.step # "audit" /\ desk[r].step # "audit"
          BY <3>2, <5>1, NoBatchIs DEF Desks, FirstStep, AtWork
        <5>4. \A s \in Students : Standing(s)' = Standing(s)
          BY <5>2 DEF Standing
        <5> QED BY <1>1, <5>2, <5>3, <5>4, LoggedMoved
      <4> QED BY <2>2, <3>2, <4>1 DEF Batch, Asks, BeginImport, BeginBulk
    <3> QED BY <3>1, <3>2
  <2>3. ASSUME NEW s \in Students, CreateStudent(s) \/ DeleteStudent(s) PROVE LogCurrent'
    BY <1>1, <2>3, ComesLogged
  <2> QED BY <1>5, <2>1, <2>2, <2>3 DEF OfficeStep
<1>6. CASE InsightStep /\ UNCHANGED <<listings, desk, trail, saves, scroll, deeds, slips, handed, swapped, jobs>>
  <2>1. UNCHANGED rows
    BY <1>6 DEF listings
  <2>2. CASE MoreNews /\ Happens
    <3>1. \A s \in Students : pupils[s] # NoRow => pupils'[s].active = pupils[s].active
      BY <1>1, <2>1, <2>2, HappensTyped
    <3>2. \A s \in Students : rows[s] # "new" => Standing(s)' = Standing(s)
      <4> SUFFICES ASSUME NEW s \in Students, rows[s] # "new", rows[s] # "gone"
                   PROVE  Standing(s)' = Standing(s)
        BY <2>1 DEF Standing
      <4>1. pupils[s] # NoRow
        BY <1>1 DEF PupilsTyped
      <4> QED BY <2>1, <3>1, <4>1 DEF Standing
    <3>3. \A o \in Requests : \A i : (Owes(o, i)' <=> Owes(o, i)) /\ What(o)' = What(o)
      BY <1>6 DEF Owes, At, Who, Row, What
    <3>4. ASSUME NEW s \in Students PROVE Logged(s)'
      <4>1. Logged(s) /\ (Followed(s)' => Followed(s) /\ Standing(s)' = Standing(s))
        BY <1>6, <2>1, <3>2 DEF LogCurrent, Followed
      <4> QED BY <1>1, <1>6, <3>3, <4>1, LoggedAgain
    <3> QED BY <3>4 DEF LogCurrent
  <2>3. CASE pupils' = pupils
    BY <1>2, <1>6, <2>1, <2>3
  <2> QED BY <1>6, <2>2, <2>3 DEF InsightStep, BeginReport, ReadNext
<1>7. CASE UNCHANGED vars
  BY <1>2, <1>7 DEF vars, listings, office
<1> QED BY <1>3, <1>4, <1>5, <1>6, <1>7, Parts


\* How many entries an export has to go through before one.
Newer(w, i) == Cardinality({j \in Entries(w) : j > i})

LogLength(w) == IF w.log = "actions" THEN Len(trail) ELSE Len(saves)

Missing(w) == (w.due \cap Entries(w)) \ w.seen

\* What an export still has to come to is on a page it has not had.
ExportKept ==
  /\ scroll.due \subseteq 1..LogLength(scroll)
  /\ \A i \in Missing(scroll) :
       CASE scroll.step = "rows" -> Newer(scroll, i) >= scroll.page * PageSize
         [] scroll.step = "total" -> /\ Newer(scroll, i) >= (scroll.page + 1) * PageSize
                                     /\ scroll.got >= PageSize
         [] OTHER -> FALSE

\* Entries differ in how many newer ones there are.
LEMMA NewerRanks ==
  ASSUME LogsTyped, NEW w
  PROVE  /\ IsFiniteSet(Entries(w)) /\ Cardinality(Entries(w)) \in Nat
         /\ \A i \in Entries(w) :
              /\ Newer(w, i) \in Nat /\ Newer(w, i) < Cardinality(Entries(w))
              /\ \A j \in Entries(w) : Newer(w, i) = Newer(w, j) => i = j
<1>0. PICK E : E = Entries(w)
  OBVIOUS
<1>1. E \in SUBSET Nat /\ IsFiniteSet(E) /\ Cardinality(E) \in Nat
  BY <1>0, NewestFinite, FS_CardinalityType DEF LogsTyped
<1> DEFINE After(i) == {j \in E : j > i}
<1>2. \A i : After(i) \in SUBSET E /\ Newer(w, i) = Cardinality(After(i))
  BY <1>0 DEF Newer
<1>3. \A i \in E : i \notin After(i)
  BY <1>1
<1>4. ASSUME NEW i \in E, NEW j \in E, i < j PROVE j \in After(i) /\ After(j) \in SUBSET After(i)
  <2>1. i \in Nat /\ j \in Nat /\ \A k \in E : k \in Nat
    BY <1>1
  <2>2. \A k \in E : k > j => k > i
    BY <1>4, <2>1
  <2> QED BY <1>4, <2>1, <2>2
<1> HIDE DEF After
<1>5. \A i : IsFiniteSet(After(i)) /\ Newer(w, i) \in Nat
  BY <1>1, <1>2, FS_Subset, FS_CardinalityType
<1>6. ASSUME NEW i \in E PROVE Newer(w, i) < Cardinality(E)
  <2>1. Cardinality(After(i)) <= Cardinality(E) /\ Cardinality(After(i)) # Cardinality(E)
    BY <1>1, <1>2, <1>3, <1>6, FS_Subset
  <2> QED BY <1>1, <1>2, <1>5, <2>1
<1>7. ASSUME NEW i \in E, NEW j \in E, i < j PROVE Newer(w, i) # Newer(w, j)
  <2>1. After(j) \in SUBSET After(i) /\ After(j) # After(i)
    BY <1>3, <1>4, <1>7
  <2> QED BY <1>2, <1>5, <2>1, FS_Subset
<1>8. \A i, j \in E : Newer(w, i) = Newer(w, j) => i = j
  BY <1>1, <1>7
<1> QED BY <1>0, <1>1, <1>5, <1>6, <1>8

\* A page with older entries behind it is full.
LEMMA NewestFull ==
  ASSUME LogsTyped, NEW w, w.page \in Nat, NEW i \in Entries(w),
         Newer(w, i) >= (w.page + 1) * PageSize
  PROVE  Cardinality(Newest(w)) >= PageSize
<1>0. PICK E : E = Entries(w)
  OBVIOUS
<1>1. PICK n \in Nat : n = Cardinality(E)
  BY <1>0, NewerRanks
<1>2. PageSize \in Nat /\ w.page \in Nat
  BY PageAssumption
<1>3. PICK lo \in Nat : lo = w.page * PageSize
  BY <1>2
<1>4. (w.page + 1) * PageSize = lo + PageSize
  BY <1>2, <1>3
<1>5. PICK f : f = [j \in E |-> Newer(w, j)]
  OBVIOUS
<1>6. f \in Injection(E, 0..(n - 1))
  <2>1. f \in [E -> 0..(n - 1)]
    <3>1. \A j \in E : Newer(w, j) \in 0..(n - 1)
      <4> TAKE j \in E
      <4>1. Newer(w, j) \in Nat /\ Newer(w, j) < n
        BY <1>0, <1>1, NewerRanks
      <4> QED BY <4>1
    <3> QED BY <1>5, <3>1
  <2>2. \A j, k \in E : f[j] = f[k] => j = k
    BY <1>0, <1>5, NewerRanks
  <2> QED BY <2>1, <2>2 DEF Injection, IsInjective
<1>7. f \in Surjection(E, 0..(n - 1))
  <2>1. IsFiniteSet(0..(n - 1)) /\ Cardinality(0..(n - 1)) = n
    BY FS_Interval
  <2> QED BY <1>1, <1>6, <2>1, FS_Injection
<1>8. lo + PageSize < n
  <2>1. Newer(w, i) \in Nat /\ Newer(w, i) < n
    BY <1>0, <1>1, NewerRanks
  <2> QED BY <1>2, <1>4, <2>1
<1>9. PICK g : g = [j \in Newest(w) |-> Newer(w, j)]
  OBVIOUS
<1>10. \A j \in E : j \in Newest(w) <=> f[j] \in lo..(lo + PageSize - 1)
  <2> TAKE j \in E
  <2>1. j \in Newest(w) <=> Newer(w, j) >= lo /\ Newer(w, j) < lo + PageSize
    BY <1>0, <1>3, <1>4 DEF Newest, Newer
  <2>2. Newer(w, j) \in Nat /\ f[j] = Newer(w, j)
    BY <1>0, <1>5, NewerRanks
  <2> QED BY <1>2, <2>1, <2>2
<1>11. Newest(w) \subseteq E /\ IsFiniteSet(Newest(w)) /\ Cardinality(Newest(w)) \in Nat
  <2>1. Newest(w) \subseteq E
    BY <1>0, NewestFinite DEF LogsTyped
  <2> QED BY <1>0, <2>1, NewerRanks, FS_Subset, FS_CardinalityType
<1>12. g \in Surjection(Newest(w), lo..(lo + PageSize - 1))
  <2>1. \A j \in Newest(w) : g[j] = f[j]
    BY <1>5, <1>9, <1>11
  <2>2. \A j \in Newest(w) : g[j] \in lo..(lo + PageSize - 1)
    BY <1>10, <1>11, <2>1
  <2>3. ASSUME NEW k \in lo..(lo + PageSize - 1) PROVE \E j \in Newest(w) : g[j] = k
    <3>1. k \in 0..(n - 1)
      BY <1>2, <1>8
    <3>2. PICK j \in E : f[j] = k
      BY <1>7, <3>1 DEF Surjection
    <3> QED BY <1>10, <2>1, <3>2
  <2>4. g \in [Newest(w) -> lo..(lo + PageSize - 1)]
    BY <1>9, <2>2
  <2> QED BY <2>3, <2>4 DEF Surjection
<1>13. Cardinality(lo..(lo + PageSize - 1)) = PageSize
  BY <1>2, FS_Interval, PageAssumption
<1>14. PageSize <= Cardinality(Newest(w))
  BY <1>11, <1>12, <1>13, FS_Surjection
<1> QED BY <1>2, <1>11, <1>14

\* Entries are added to the logs, and a download forgets whose photos they were.
Forgotten(s) == saves' = [i \in DOMAIN saves |-> IF saves[i] = s THEN NoUser ELSE saves[i]]

Growing ==
  /\ trail' = trail \/ \E e : trail' = Append(trail, e)
  /\ saves' = saves \/ (\E e : saves' = Append(saves, e)) \/ \E s \in Students : Forgotten(s)

LEMMA LogsEntered ==
  ASSUME LogsTyped, LogsTyped', Growing, NEW w, w.who \in Students \cup {NoUser}
  PROVE  /\ LogLength(w) \in Nat /\ LogLength(w)' \in Nat /\ LogLength(w)' >= LogLength(w)
         /\ Entries(w) \subseteq 1..LogLength(w) /\ IsFiniteSet(Entries(w)')
         /\ \/ Entries(w)' = {}
            \/ Entries(w) \subseteq Entries(w)' /\ Entries(w)' \cap (1..LogLength(w)) \subseteq Entries(w)
<1>1. /\ trail \in Seq(TrailRows) /\ trail' \in Seq(TrailRows)
      /\ saves \in Seq(Students \cup {NoUser}) /\ saves' \in Seq(Students \cup {NoUser})
  BY DEF LogsTyped
<1>2. /\ Len(trail) \in Nat /\ DOMAIN trail = 1..Len(trail)
      /\ Len(trail') \in Nat /\ DOMAIN trail' = 1..Len(trail')
      /\ Len(saves) \in Nat /\ DOMAIN saves = 1..Len(saves)
      /\ Len(saves') \in Nat /\ DOMAIN saves' = 1..Len(saves')
  BY <1>1
<1>3. Len(trail') >= Len(trail) /\ \A i \in 1..Len(trail) : trail'[i] = trail[i]
  <2>1. CASE trail' = trail
    BY <1>2, <2>1
  <2>2. ASSUME NEW e, trail' = Append(trail, e) PROVE Len(trail') = Len(trail) + 1 /\ \A i \in 1..Len(trail) : trail'[i] = trail[i]
    BY <1>1, <2>2
  <2>3. CASE trail' # trail
    <3>1. PICK e : trail' = Append(trail, e)
      BY <2>3 DEF Growing
    <3> QED BY <1>2, <2>2, <3>1
  <2> QED BY <2>1, <2>3
<1>4. /\ Len(saves') >= Len(saves)
      /\ \/ \A i \in 1..Len(saves) : saves'[i] = saves[i]
         \/ \E s \in Students : Forgotten(s)
  <2>1. CASE saves' = saves
    BY <1>2, <2>1
  <2>2. ASSUME NEW e, saves' = Append(saves, e) PROVE Len(saves') = Len(saves) + 1 /\ \A i \in 1..Len(saves) : saves'[i] = saves[i]
    BY <1>1, <2>2
  <2>3. ASSUME NEW s \in Students, Forgotten(s) PROVE Len(saves') = Len(saves)
    <3>1. DOMAIN saves' = DOMAIN saves
      BY <2>3 DEF Forgotten
    <3>2. 1..Len(saves') = 1..Len(saves)
      BY <1>2, <3>1
    <3>3. \A m \in Nat : m # 0 => m \in 1..m
      OBVIOUS
    <3>4. /\ Len(saves) # 0 => Len(saves) \in 1..Len(saves')
          /\ Len(saves') # 0 => Len(saves') \in 1..Len(saves)
      BY <1>2, <3>2, <3>3
    <3>5. PICK m \in Nat : m = Len(saves')
      BY <1>2
    <3>6. PICK n \in Nat : n = Len(saves)
      BY <1>2
    <3>7. (n # 0 => n \in 1..m) /\ (m # 0 => m \in 1..n)
      BY <3>4, <3>5, <3>6
    <3>8. m = n
      BY <3>7
    <3> QED BY <3>5, <3>6, <3>8
  <2>4. CASE saves' # saves
    <3>1. CASE \E e : saves' = Append(saves, e)
      <4>1. PICK e : saves' = Append(saves, e)
        BY <3>1
      <4> QED BY <1>2, <2>2, <4>1
    <3>2. CASE \E s \in Students : Forgotten(s)
      <4>1. PICK s \in Students : Forgotten(s)
        BY <3>2
      <4>2. Len(saves') = Len(saves)
        BY <2>3, <4>1
      <4>3. Len(saves') >= Len(saves)
        BY <1>2, <4>2
      <4> QED BY <3>2, <4>3
    <3> QED BY <2>4, <3>1, <3>2 DEF Growing
  <2> QED BY <1>2, <2>1, <2>4
<1>5. /\ LogLength(w) \in Nat /\ LogLength(w)' \in Nat /\ LogLength(w)' >= LogLength(w)
      /\ Entries(w) \subseteq 1..LogLength(w)
  BY <1>2, <1>3, <1>4 DEF LogLength, Entries, Actions, Downloads
<1>8. IsFiniteSet(Entries(w)')
  <2>1. Entries(w)' \subseteq 1..LogLength(w)'
    BY <1>2 DEF LogLength, Entries, Actions, Downloads
  <2>2. IsFiniteSet(1..LogLength(w)')
    BY <1>5, FS_Interval
  <2> QED BY <2>1, <2>2, FS_Subset
<1>6. CASE w.log = "actions"
  <2>1. /\ Entries(w) = {i \in 1..Len(trail) : w.who \in {NoUser, trail[i].who}}
        /\ Entries(w)' = {i \in 1..Len(trail') : w.who \in {NoUser, trail'[i].who}}
        /\ LogLength(w) = Len(trail)
    BY <1>2, <1>6 DEF LogLength, Entries, Actions
  <2> QED BY <1>2, <1>3, <1>5, <1>8, <2>1
<1>7. CASE w.log # "actions"
  <2>1. /\ Entries(w) = {i \in 1..Len(saves) : w.who \in {NoUser, saves[i]}}
        /\ Entries(w)' = {i \in 1..Len(saves') : w.who \in {NoUser, saves'[i]}}
        /\ LogLength(w) = Len(saves)
    BY <1>2, <1>7 DEF LogLength, Entries, Downloads
  <2>2. CASE \A i \in 1..Len(saves) : saves'[i] = saves[i]
    BY <1>2, <1>4, <1>5, <1>8, <2>1, <2>2
  <2>3. ASSUME NEW s \in Students, Forgotten(s)
        PROVE  \/ Entries(w)' = {}
               \/ Entries(w) \subseteq Entries(w)' /\ Entries(w)' \cap (1..LogLength(w)) \subseteq Entries(w)
    <3>1. /\ DOMAIN saves' = 1..Len(saves)
          /\ \A i \in 1..Len(saves) : saves'[i] = IF saves[i] = s THEN NoUser ELSE saves[i]
      BY <1>2, <2>3 DEF Forgotten
    <3>2. 1..Len(saves') = 1..Len(saves)
      BY <1>2, <3>1
    <3>3. CASE s = NoUser
      BY <2>1, <3>1, <3>2, <3>3
    <3>4. CASE s # NoUser /\ w.who = s
      BY <2>1, <3>1, <3>2, <3>4
    <3>5. CASE s # NoUser /\ w.who # s
      BY <2>1, <3>1, <3>2, <3>5
    <3> QED BY <3>3, <3>4, <3>5
  <2> QED BY <1>4, <1>5, <1>8, <2>2, <2>3
<1> QED BY <1>5, <1>6, <1>7, <1>8

\* The export itself does not move.
LEMMA ExportWaits ==
  ASSUME LogsTyped, LogsTyped', Growing, ExportKept, scroll' = scroll
  PROVE  ExportKept'
<1>0. PICK w \in Scrolls : w = scroll
  BY DEF LogsTyped
<1>1. /\ w.page \in Nat /\ w.who \in Students \cup {NoUser}
      /\ w.page * PageSize \in Int /\ (w.page + 1) * PageSize \in Int
  <2>1. w.page \in Nat /\ PageSize \in Nat /\ w.who \in Students \cup {NoUser}
    BY PageAssumption DEF Scrolls
  <2>2. \A x, y \in Nat : x * y \in Int /\ (x + 1) * y \in Int
    OBVIOUS
  <2> QED BY <2>1, <2>2
<1>2. /\ LogLength(w) \in Nat /\ LogLength(w)' \in Nat /\ LogLength(w)' >= LogLength(w)
      /\ \/ Entries(w)' = {}
         \/ Entries(w) \subseteq Entries(w)' /\ Entries(w)' \cap (1..LogLength(w)) \subseteq Entries(w)
  BY <1>1, LogsEntered
<1>3. w.due \subseteq 1..LogLength(w)
  BY <1>0 DEF ExportKept
<1>4. LogLength(scroll)' = LogLength(w)' /\ Missing(scroll)' = Missing(w)' /\ \A i : Newer(scroll, i)' = Newer(w, i)'
  BY <1>0
<1>5. ASSUME NEW i \in Missing(w)'
      PROVE  /\ i \in Missing(w) /\ Newer(w, i) \in Nat /\ Newer(w, i)' \in Nat
             /\ Newer(w, i) <= Newer(w, i)'
  <2>1. i \in Entries(w)' /\ i \in w.due /\ i \notin w.seen
    BY <1>5 DEF Missing
  <2>2. Entries(w) \subseteq Entries(w)' /\ i \in Entries(w)
    BY <1>2, <1>3, <2>1
  <2>3. i \in Missing(w)
    BY <2>1, <2>2 DEF Missing
  <2>4. PICK N : N = Entries(w)'
    OBVIOUS
  <2>5. PICK E : E = Entries(w)
    OBVIOUS
  <2>6. IsFiniteSet(N)
    BY <1>1, <2>4, LogsEntered
  <2>7. Newer(w, i)' = Cardinality({j \in N : j > i}) /\ Newer(w, i) = Cardinality({j \in E : j > i})
    BY <2>4, <2>5 DEF Newer
  <2>8. {j \in E : j > i} \subseteq {j \in N : j > i} /\ {j \in N : j > i} \subseteq N
    BY <2>2, <2>4, <2>5
  <2>9. IsFiniteSet({j \in N : j > i})
    BY <2>6, <2>8, FS_Subset
  <2>10. IsFiniteSet({j \in E : j > i}) /\ Cardinality({j \in E : j > i}) <= Cardinality({j \in N : j > i})
    BY <2>8, <2>9, FS_Subset
  <2> QED BY <2>3, <2>7, <2>9, <2>10, FS_CardinalityType
<1>6. w.due \subseteq 1..LogLength(w)'
  BY <1>2, <1>3
<1>7. ASSUME NEW i \in Missing(w)'
      PROVE  CASE w.step = "rows" -> Newer(w, i)' >= w.page * PageSize
               [] w.step = "total" -> Newer(w, i)' >= (w.page + 1) * PageSize /\ w.got >= PageSize
               [] OTHER -> FALSE
  <2>1. /\ i \in Missing(w) /\ Newer(w, i) \in Nat /\ Newer(w, i)' \in Nat
        /\ Newer(w, i) <= Newer(w, i)'
    BY <1>5, <1>7
  <2>2. (CASE w.step = "rows" -> Newer(w, i) >= w.page * PageSize
           [] w.step = "total" -> Newer(w, i) >= (w.page + 1) * PageSize /\ w.got >= PageSize
           [] OTHER -> FALSE)
    BY <1>0, <2>1 DEF ExportKept
  <2> QED BY <1>1, <2>1, <2>2
<1> QED BY <1>0, <1>4, <1>6, <1>7 DEF ExportKept

\* An export that begins has everything before it, ...
LEMMA ExportBegun ==
  ASSUME LogsTyped, NEW s \in Students \cup {NoUser}, NEW log \in {"actions", "downloads"},
         BeginExport(log, s)
  PROVE  ExportKept'
<1>1. PICK v \in Scrolls : v = [NoScroll EXCEPT !.log = log, !.who = s, !.step = "rows"]
  BY DEF NoScroll, Scrolls
<1>2. PICK E : E = Entries(v)
  OBVIOUS
<1>3. E \in SUBSET Nat /\ v.who = s /\ E \subseteq 1..LogLength(v)
  <2>1. v.who = s /\ E \in SUBSET Nat
    BY <1>1, <1>2, NewestFinite DEF LogsTyped, NoScroll
  <2>2. DOMAIN trail = 1..Len(trail) /\ DOMAIN saves = 1..Len(saves)
    BY DEF LogsTyped
  <2> QED BY <1>2, <2>1, <2>2 DEF Entries, Actions, Downloads, LogLength
<1>4. PICK w \in Scrolls : w = [v EXCEPT !.due = E]
  BY <1>1, <1>3 DEF Scrolls
<1>5. scroll' = w /\ UNCHANGED <<trail, saves>>
  BY <1>1, <1>2, <1>4 DEF BeginExport
<1>6. /\ w.due = E /\ w.log = v.log /\ w.who = v.who /\ w.page = 0 /\ w.step = "rows"
  BY <1>1, <1>4 DEF Scrolls, NoScroll
<1>7. LogLength(w)' = LogLength(v)
  BY <1>5, <1>6 DEF LogLength
<1>8. ASSUME NEW i \in Missing(w)' PROVE Newer(w, i)' \in Nat
  <2>1. Newer(w, i)' = Newer(w, i) /\ Missing(w)' = Missing(w)
    BY <1>5 DEF Newer, Missing, Entries, Actions, Downloads
  <2>2. i \in Entries(w)
    BY <1>8, <2>1 DEF Missing
  <2> QED BY <2>1, <2>2, NewerRanks
<1>9. w.page * PageSize = 0
  BY <1>6, PageAssumption
<1>10. \A i \in Missing(w)' : w.step = "rows" /\ Newer(w, i)' >= w.page * PageSize
  BY <1>6, <1>8, <1>9
<1>11. LogLength(scroll)' = LogLength(w)' /\ Missing(scroll)' = Missing(w)' /\ \A i : Newer(scroll, i)' = Newer(w, i)'
  BY <1>5
<1> QED BY <1>3, <1>5, <1>6, <1>7, <1>10, <1>11 DEF ExportKept

\* ... has had a full page when something is left, ...
LEMMA ExportRead ==
  ASSUME LogsTyped, ExportKept, ReadEntries
  PROVE  ExportKept'
<1>1. PICK v \in Scrolls : v = scroll
  BY DEF LogsTyped
<1>2. PICK Q : Q = Newest(v)
  OBVIOUS
<1>3. Q \in SUBSET Nat /\ Cardinality(Q) \in Nat /\ v.step = "rows"
  BY <1>1, <1>2, NewestFinite DEF LogsTyped, ReadEntries
<1>4. PICK w \in Scrolls : w = [v EXCEPT !.seen = v.seen \cup Q, !.got = Cardinality(Q), !.step = "total"]
  BY <1>1, <1>3 DEF Scrolls
<1>5. scroll' = w /\ UNCHANGED <<trail, saves>>
  BY <1>1, <1>2, <1>4 DEF ReadEntries
<1>6. /\ w.due = v.due /\ w.log = v.log /\ w.who = v.who /\ w.page = v.page /\ w.step = "total"
      /\ w.seen = v.seen \cup Q /\ w.got = Cardinality(Q) /\ v.page \in Nat
  BY <1>4 DEF Scrolls
<1>7. /\ LogLength(w)' = LogLength(v) /\ Entries(w)' = Entries(v)
      /\ \A i : Newer(w, i)' = Newer(v, i)
  <2>1. LogLength(w)' = LogLength(v) /\ Entries(w)' = Entries(v)
    BY <1>5, <1>6 DEF LogLength, Entries, Actions, Downloads
  <2> QED BY <2>1 DEF Newer
<1>8. ASSUME NEW i \in Missing(w)'
      PROVE  Newer(w, i)' >= (w.page + 1) * PageSize /\ w.got >= PageSize
  <2>1. i \in Missing(v) /\ i \in Entries(v) /\ i \notin Q
    BY <1>6, <1>7, <1>8 DEF Missing
  <2>2. Newer(v, i) >= v.page * PageSize
    BY <1>1, <1>3, <2>1 DEF ExportKept
  <2>3. ~(Newer(v, i) < (v.page + 1) * PageSize)
    BY <1>2, <2>1, <2>2 DEF Newest, Newer
  <2>4. Newer(v, i) \in Nat /\ (v.page + 1) * PageSize \in Int
    <3>1. \A x, y \in Nat : (x + 1) * y \in Int
      OBVIOUS
    <3> QED BY <1>6, <2>1, <3>1, NewerRanks, PageAssumption
  <2>5. Newer(v, i) >= (v.page + 1) * PageSize
    BY <2>3, <2>4
  <2>6. Cardinality(Q) >= PageSize
    BY <1>2, <1>6, <2>1, <2>5, NewestFull
  <2> QED BY <1>6, <1>7, <2>5, <2>6
<1>9. w.due \subseteq 1..LogLength(w)'
  BY <1>1, <1>6, <1>7 DEF ExportKept
<1>10. LogLength(scroll)' = LogLength(w)' /\ Missing(scroll)' = Missing(w)' /\ \A i : Newer(scroll, i)' = Newer(w, i)'
  BY <1>5
<1> QED BY <1>5, <1>6, <1>8, <1>9, <1>10 DEF ExportKept

\* ... and goes on then.
LEMMA ExportCounted ==
  ASSUME LogsTyped, ExportKept, CountEntries
  PROVE  ExportKept'
<1>1. PICK v \in Scrolls : v = scroll
  BY DEF LogsTyped
<1>2. v.step = "total" /\ v.page \in Nat /\ v.got \in Nat /\ UNCHANGED <<trail, saves>>
  BY <1>1 DEF CountEntries, Scrolls
<1>3. PICK stop \in BOOLEAN : stop <=> Exhausted(v, Cardinality(Entries(v)))
  BY DEF Exhausted
<1>4. PICK n \in Nat : n = v.page + 1
  BY <1>2
<1>5. PICK w \in Scrolls : w = IF stop THEN [v EXCEPT !.step = "done"] ELSE [v EXCEPT !.step = "rows", !.page = n]
  BY <1>4 DEF Scrolls
<1>6. scroll' = w
  BY <1>1, <1>3, <1>4, <1>5 DEF CountEntries
<1>7. /\ w.due = v.due /\ w.log = v.log /\ w.who = v.who /\ w.seen = v.seen
      /\ ~stop => w.step = "rows" /\ w.page = n
  BY <1>5 DEF Scrolls
<1>8. /\ LogLength(w)' = LogLength(v) /\ Entries(w)' = Entries(v)
      /\ \A i : Newer(w, i)' = Newer(v, i)
  <2>1. LogLength(w)' = LogLength(v) /\ Entries(w)' = Entries(v)
    BY <1>2, <1>7 DEF LogLength, Entries, Actions, Downloads
  <2> QED BY <2>1 DEF Newer
<1>9. ASSUME NEW i \in Missing(w)'
      PROVE  w.step = "rows" /\ Newer(w, i)' >= w.page * PageSize
  <2>1. i \in Missing(v) /\ i \in Entries(v)
    BY <1>7, <1>8, <1>9 DEF Missing
  <2>2. Newer(v, i) >= (v.page + 1) * PageSize /\ v.got >= PageSize
    BY <1>1, <1>2, <2>1 DEF ExportKept
  <2>3. /\ Newer(v, i) \in Nat /\ Newer(v, i) < Cardinality(Entries(v)) /\ Cardinality(Entries(v)) \in Nat
        /\ PageSize \in Nat /\ (v.page + 1) * PageSize \in Int
    <3>1. \A x, y \in Nat : (x + 1) * y \in Int
      OBVIOUS
    <3> QED BY <1>2, <2>1, <3>1, NewerRanks, PageAssumption
  <2>4. ~(v.got < PageSize)
    BY <1>2, <2>2, <2>3
  <2>5. ~((v.page + 1) * PageSize >= Cardinality(Entries(v)))
    BY <2>2, <2>3
  <2>6. ~stop
    BY <1>3, <2>4, <2>5 DEF Exhausted
  <2> QED BY <1>4, <1>7, <1>8, <2>2, <2>6
<1>10. w.due \subseteq 1..LogLength(w)'
  BY <1>1, <1>7, <1>8 DEF ExportKept
<1>11. LogLength(scroll)' = LogLength(w)' /\ Missing(scroll)' = Missing(w)' /\ \A i : Newer(scroll, i)' = Newer(w, i)'
  BY <1>6
<1> QED BY <1>6, <1>9, <1>10, <1>11 DEF ExportKept

LEMMA ExportInit == Init => ExportKept
BY DEF Init, OfficeInit, NoScroll, ExportKept, Missing

LEMMA ExportNext == Shaped /\ Shaped' /\ ExportKept /\ [Next]_vars => ExportKept'
<1> SUFFICES ASSUME Shaped, Shaped', ExportKept, [Next]_vars PROVE ExportKept'
  OBVIOUS
<1>1. LogsTyped /\ LogsTyped'
  BY DEF Shaped
<1>2. ASSUME UNCHANGED <<trail, saves, scroll>> PROVE ExportKept'
  BY <1>1, <1>2, ExportWaits DEF Growing
<1>3. CASE OfficeStep
  <2>1. ASSUME NEW r \in Requests, Batch(r) PROVE ExportKept'
    <3>1. CASE Asks(r)
      BY <1>2, <3>1 DEF Asks, BeginImport, BeginBulk, BeginBatch
    <3>2. CASE AtWork(r) /\ Works(r)
      <4>1. CASE Audit(r)
        BY <1>1, <4>1, ExportWaits DEF Audit, Entered, Growing
      <4>2. CASE Drop(r)
        <5>1. Who(r) \in Students
          BY <3>2, RowInHand DEF Shaped
        <5>2. Forgotten(Who(r)) /\ UNCHANGED <<trail, scroll>>
          BY <4>2 DEF Drop, Forgotten
        <5> QED BY <1>1, <5>1, <5>2, ExportWaits DEF Growing
      <4>3. CASE UNCHANGED <<trail, saves, scroll>>
        BY <1>2, <4>3
      <4> QED
        BY <3>2, <4>1, <4>2, <4>3 DEF Works, FailRow, Break, CreateLogin, CreateProfile, UndoLogin,
           ResolveClass, AssignClass, FindStudent, WriteStatus, Reread, WritePassword, Erase
    <3> QED BY <2>1, <3>1, <3>2 DEF Batch
  <2>2. ASSUME NEW s \in Students, CreateStudent(s) \/ DeleteStudent(s) PROVE ExportKept'
    <3>1. CASE CreateStudent(s)
      BY <1>1, <3>1, ExportWaits DEF CreateStudent, Growing
    <3>2. CASE DeleteStudent(s)
      <4>1. Forgotten(s) /\ scroll' = scroll /\ \E e : trail' = Append(trail, e)
        BY <3>2 DEF DeleteStudent, Forgotten
      <4> QED BY <1>1, <4>1, ExportWaits DEF Growing
    <3> QED BY <2>2, <3>1, <3>2
  <2>3. ASSUME NEW s \in Students \cup {NoUser}, Save(s) PROVE ExportKept'
    BY <1>1, <2>3, ExportWaits DEF Save, Growing
  <2> QED
    BY <1>1, <1>3, <2>1, <2>2, <2>3, ExportBegun, ExportRead, ExportCounted DEF OfficeStep, Logs
<1> QED BY <1>2, <1>3, Parts DEF office, vars

\* The log tells how every student stands, and an export has what was there when it began.
THEOREM TrailStaysTrue == Spec => []TrailIsTrue
<1>1. Shaped /\ LogCurrent /\ ExportKept => TrailIsTrue
  <2> SUFFICES ASSUME Shaped, LogCurrent, ExportKept PROVE TrailIsTrue
    OBVIOUS
  <2>1. ASSUME NEW s \in Students \ swapped, rows[s] # "new",
               \A r \in Requests : ~(At(r, "audit") /\ Who(r) = s),
               \A l \in slips : l.who = s => l.step # "audit"
        PROVE  Told(s) # {} /\ trail[LastTold(s)].what \in Standing(s)
    <3>1. Logged(s) /\ Followed(s) /\ \A r \in Requests : ~Owes(r, s)
      BY <2>1 DEF LogCurrent, Followed, Owes
    <3>2. PICK what \in Standing(s) : LastWord(s, what)
      BY <3>1 DEF Logged
    <3>3. PICK i \in Told(s) : trail[i].what = what /\ \A j \in Told(s) : j <= i
      BY <3>2 DEF LastWord
    <3>4. Told(s) \subseteq Nat
      <4>1. DOMAIN trail = 1..Len(trail) /\ Len(trail) \in Nat
        BY DEF Shaped, LogsTyped
      <4> QED BY <4>1 DEF Told
    <3>5. \A k \in Told(s) : (\A j \in Told(s) : j <= k) => k = i
      BY <3>3, <3>4
    <3>6. LastTold(s) = i
      BY <3>3, <3>5 DEF LastTold
    <3> QED BY <3>2, <3>3, <3>6
  <2>2. ASSUME scroll.step = "done" PROVE scroll.due \cap Entries(scroll) \subseteq scroll.seen
    BY <2>2 DEF ExportKept, Missing
  <2> QED BY <2>1, <2>2 DEF TrailIsTrue, Standing
<1>2. Spec => []LogCurrent
  BY LogInit, LogNext, AlwaysShaped, PTL DEF Spec
<1>3. Spec => []ExportKept
  BY ExportInit, ExportNext, AlwaysShaped, PTL DEF Spec
<1> QED BY <1>1, <1>2, <1>3, AlwaysShaped, PTL

------------------------------------------------------------------------------
(* The figures.                                                            *)

\* What the school's analytics have read so far.
SchoolRead(w) ==
  LET g == w.got
  IN w.kind = "school" =>
       /\ w.at > 1 => g[1] \subseteq Students \X Faces
       /\ w.at > 2 => g[2] \subseteq w.were
       /\ w.at > 3 => g[3] \subseteq w.were /\ \A s \in g[3] : \E o \in opens : o[1] = s
       /\ w.at > 4 => g[4] \subseteq Events
       /\ w.at > 5 => g[5] \subseteq w.were
       /\ w.at > 6 => g[6] \subseteq Events \X BOOLEAN
       /\ w.at > 8 => g[8] \subseteq Students \X Events /\ g[3] \subseteq {o[1] : o \in g[8]} \cup (w.left \cup w.faded)

DashboardRead(w) ==
  LET g == w.got
  IN w.kind = "dashboard" =>
       /\ w.at > 1 => g[1] \subseteq Students \X Faces
       /\ w.at > 2 => g[2] \subseteq Events \X BOOLEAN \X BOOLEAN
       /\ w.at > 4 => g[4] \subseteq w.held
       /\ w.at > 6 => g[6] \subseteq w.held

EstateRead(w) ==
  LET g == w.got
  IN w.kind = "estate" =>
       /\ w.at > 3 => g[3] \subseteq w.were /\ \A s \in g[3] : rows[s] # "new"
       /\ w.at > 4 => /\ g[4] \subseteq w.were
                      /\ g[4] # {} /\ RecentCounts = {} => w.idle
                      /\ g[3] # {} /\ g[4] = {} => w.stalled \/ \E s \in w.left : rows[s] = "gone"
       /\ w.at > 5 => g[5] \subseteq Events
       /\ w.at > 6 => g[6] \subseteq w.held
       /\ w.at > 7 => (g[4] # {} /\ g[7] = {} => w.idle)
       /\ w.at > 8 => g[8] \subseteq w.held

ReportKnown == SchoolRead(report) /\ DashboardRead(report) /\ EstateRead(report)

\* Meanwhile nothing of what was read is taken back.
LEMMA FiguresStay ==
  ASSUME CatalogueTyped, ReportKept, ReportKnown, report' = Witnessed, opens \subseteq opens',
         RecentCounts \subseteq RecentCounts',
         \A s \in Students : /\ rows[s] # "new" => rows'[s] # "new"
                             /\ rows[s] = "gone" => rows'[s] = "gone"
  PROVE  ReportKnown'
<1>1. PICK v : v = report
  OBVIOUS
<1>2. PICK w : w = Witnessed
  OBVIOUS
<1>3. /\ w.kind = v.kind /\ w.at = v.at /\ w.got = v.got /\ w.left = v.left
      /\ w.faded = v.faded
      /\ v.were \subseteq w.were /\ v.held \subseteq w.held
      /\ v.stalled => w.stalled
      /\ v.idle => w.idle
  BY <1>1, <1>2, WitnessKept
<1>4. v.were \subseteq Students /\ w.were \subseteq Students /\ v.left \subseteq Students
  BY <1>1, <1>2, WitnessKept DEF ReportKept
<1>5. SchoolRead(w)'
  <2>1. SchoolRead(v)
    BY <1>1 DEF ReportKnown
  <2> QED BY <1>3, <2>1 DEF SchoolRead
<1>6. DashboardRead(w)'
  <2>1. DashboardRead(v)
    BY <1>1 DEF ReportKnown
  <2> QED BY <1>3, <2>1 DEF DashboardRead
<1>7. EstateRead(w)'
  <2>1. EstateRead(v)
    BY <1>1 DEF ReportKnown
  <2> QED BY <1>3, <1>4, <2>1 DEF EstateRead
<1> QED BY <1>2, <1>5, <1>6, <1>7 DEF ReportKnown

LEMMA FiguresBegun ==
  ASSUME NEW kind \in DOMAIN Plan, BeginReport(kind)
  PROVE  ReportKnown'
<1>1. PICK w : w = [NoReport EXCEPT !.kind = kind, !.at = 1]
  OBVIOUS
<1>2. report' = w /\ w.at = 1
  BY <1>1 DEF BeginReport, NoReport
<1>3. SchoolRead(w)' /\ DashboardRead(w)' /\ EstateRead(w)'
  BY <1>2 DEF SchoolRead, DashboardRead, EstateRead
<1> QED BY <1>2, <1>3 DEF ReportKnown

\* What is read of whom, and of what.
LEMMA ValuesAre ==
  ASSUME CatalogueTyped, ReportTyped, PupilsTyped, LogsTyped
  PROVE  /\ Value("enrollment") \subseteq Students \X Faces
         /\ Value("status") \subseteq Events \X BOOLEAN \X BOOLEAN
         /\ Value("events") \subseteq Events \X BOOLEAN
         /\ Value("opened") \subseteq Events /\ Value("eventCounts") \subseteq Events
         /\ Value("students") = Enrolled /\ Value("enrolled") = EnrolledCounts
         /\ EnrolledCounts \subseteq Enrolled /\ Value("recent") = RecentCounts
         /\ Value("signedIn") \subseteq Enrolled /\ Value("savers") \subseteq Enrolled
         /\ Value("engaged") \subseteq Enrolled
         /\ \A s \in Value("engaged") : \E o \in opens : o[1] = s
         /\ Value("firstOpens") = Openings \ early /\ Openings \subseteq Students \X Events
         /\ Value("undistributed") \subseteq Happening /\ Value("distributed") \subseteq Happening
         /\ Value("distributedCounts") \subseteq Happening
         /\ Value("firstDistributed") \subseteq Happening
<1>1. /\ Value("enrollment") = EnrollmentCounts /\ Value("students") = Enrolled
      /\ Value("enrolled") = EnrolledCounts /\ Value("signedIn") = SignedIn
      /\ Value("engaged") = Engaged /\ Value("opened") = OpenedEvents
      /\ Value("firstOpens") = Openings \ early /\ Value("savers") = Savers
      /\ Value("events") = EventList /\ Value("eventCounts") = EventCounts
  BY DEF Value, FirstOpens, StudentCounts
<1>2. /\ Value("status") = StatusCounts /\ Value("undistributed") = Undistributed
      /\ Value("distributed") = Distributed /\ Value("recent") = RecentCounts
      /\ Value("distributedCounts") = DistributedCounts
      /\ Value("firstDistributed") = FirstDistributed
  BY DEF Value
<1>3. EnrollmentCounts \subseteq Students \X Faces /\ EnrolledCounts \subseteq Enrolled
  BY DEF EnrollmentCounts, EnrolledCounts, Enrolled, ReportTyped
<1>4. SignedIn \subseteq Enrolled /\ Savers \subseteq Enrolled
  BY DEF SignedIn, Savers, Enrolled, PupilsTyped, LogsTyped
<1>5. /\ Engaged \subseteq Enrolled /\ (\A s \in Engaged : \E o \in opens : o[1] = s)
      /\ OpenedEvents \subseteq Events /\ Openings \subseteq Students \X Events
  BY DEF Engaged, OpenedEvents, Openings, ReportTyped
<1>6. /\ EventList \subseteq Events \X BOOLEAN /\ EventCounts \subseteq Events
      /\ StatusCounts \subseteq Events \X BOOLEAN \X BOOLEAN
  BY DEF EventList, EventCounts, StatusCounts, Happening, ReportTyped, Courses, Announced
<1>7. /\ Undistributed \subseteq Happening /\ Distributed \subseteq Happening
      /\ DistributedCounts \subseteq Happening /\ FirstDistributed \subseteq Happening
  BY DEF Undistributed, Distributed, DistributedCounts, FirstDistributed
<1> QED BY <1>1, <1>2, <1>3, <1>4, <1>5, <1>6, <1>7

\* What a read of a report comes to.
LEMMA FiguresTaken ==
  ASSUME CatalogueTyped, ReportTyped, PupilsTyped, LogsTyped, ReadNext
  PROVE  /\ Reading /\ UNCHANGED <<opens, course>>
         /\ report.kind \in Sections /\ report.at \in 1..Len(Plan[report.kind])
         /\ report.at \in Nat /\ report'.at = report.at + 1
         /\ report'.kind = report.kind
         /\ report'.got[report.at] = Value(Plan[report.kind][report.at])
         /\ \A i \in Nat : i > 0 /\ i < report.at => report'.got[i] = report.got[i]
         /\ report.were \subseteq report'.were /\ Enrolled \subseteq report'.were
         /\ report.held \subseteq report'.held /\ Happening \subseteq report'.held
         /\ report'.left = report'.were \ Enrolled /\ report.left \subseteq report'.were
         /\ report'.faded = Faded
         /\ report.idle => report'.idle
         /\ report.stalled => report'.stalled
         /\ Enrolled # {} /\ EnrolledCounts = {} => report'.stalled
         /\ EnrolledCounts # {} /\ RecentCounts = {} => report'.idle
<1>1. /\ Reading /\ UNCHANGED <<opens, course>> /\ ReportKept
      /\ report'.kind = report.kind /\ report'.at = report.at + 1
      /\ report'.got = Append(report.got, Value(Plan[report.kind][report.at]))
      /\ report'.were = Witnessed.were /\ report'.held = Witnessed.held
      /\ report'.left = Witnessed.were \ Enrolled /\ report'.faded = Faded
      /\ report'.stalled = Witnessed.stalled /\ report'.idle = Witnessed.idle
  BY ReadNextKept DEF ReadNext, ReportTyped
<1>2. /\ report.kind \in Sections /\ report.at \in Nat /\ Len(report.got) = report.at - 1
      /\ report.got \in Seq(Figures) /\ report.at >= 1 /\ report.at <= Len(Plan[report.kind])
      /\ report.left \subseteq report.were /\ Len(Plan[report.kind]) \in Nat
  BY <1>1, PlanIs DEF Reading, ReportKept
<1>3. PICK V : V = Value(Plan[report.kind][report.at])
  OBVIOUS
<1>4. PICK q \in Seq(Figures) : q = report.got
  BY <1>2
<1>5. /\ Append(q, V)[Len(q) + 1] = V
      /\ \A i \in 1..Len(q) : Append(q, V)[i] = q[i]
  OBVIOUS
<1>6. /\ report'.got[report.at] = V
      /\ \A i \in Nat : i > 0 /\ i < report.at => report'.got[i] = report.got[i]
  BY <1>1, <1>2, <1>3, <1>4, <1>5
<1>7. /\ report.were \subseteq Witnessed.were /\ report.held \subseteq Witnessed.held
      /\ report.idle => Witnessed.idle
      /\ report.stalled => Witnessed.stalled
  BY <1>1, WitnessKept
<1>8. /\ Witnessed.were = report.were \cup Enrolled
      /\ Witnessed.held = report.held \cup Happening
  BY <1>1 DEF Witnessed, ReportKept
<1>9. /\ Enrolled # {} /\ EnrolledCounts = {} => Witnessed.stalled
      /\ EnrolledCounts # {} /\ RecentCounts = {} => Witnessed.idle
  BY <1>1 DEF Witnessed, ReportKept
<1>10. report.at \in 1..Len(Plan[report.kind])
  BY <1>2
<1> QED BY <1>1, <1>2, <1>3, <1>6, <1>7, <1>8, <1>9, <1>10

LEMMA SchoolTaken ==
  ASSUME CatalogueTyped, ReportTyped, PupilsTyped, LogsTyped, ReadNext, SchoolRead(report)
  PROVE  SchoolRead(report)'
<1>0. PICK v : v = report
  OBVIOUS
<1>1. PICK w : w = report'
  OBVIOUS
<1>2. /\ v.at \in Nat /\ w.at = v.at + 1 /\ w.kind = v.kind
      /\ w.got[v.at] = Value(Plan[v.kind][v.at])
      /\ \A i \in Nat : i > 0 /\ i < v.at => w.got[i] = v.got[i]
      /\ v.were \subseteq w.were /\ Enrolled \subseteq w.were /\ w.left = w.were \ Enrolled
      /\ v.at \in 1..Len(Plan[v.kind]) /\ opens' = opens /\ w.faded = Faded
  BY <1>0, <1>1, FiguresTaken
<1> SUFFICES ASSUME w.kind = "school" PROVE SchoolRead(w)'
  BY <1>1 DEF SchoolRead
<1>3. /\ Plan["school"][1] = "enrollment" /\ Plan["school"][2] = "signedIn"
      /\ Plan["school"][3] = "engaged" /\ Plan["school"][4] = "opened"
      /\ Plan["school"][5] = "savers" /\ Plan["school"][6] = "events"
      /\ Plan["school"][8] = "firstOpens" /\ Len(Plan["school"]) = 8
  BY DEF Plan
<1>4. v.kind = "school" /\ v.at \in 1..8
  BY <1>2, <1>3
<1>5. /\ v.at > 1 => v.got[1] \subseteq Students \X Faces
      /\ v.at > 2 => v.got[2] \subseteq v.were
      /\ v.at > 3 => v.got[3] \subseteq v.were /\ \A s \in v.got[3] : \E o \in opens : o[1] = s
      /\ v.at > 4 => v.got[4] \subseteq Events
      /\ v.at > 5 => v.got[5] \subseteq v.were
      /\ v.at > 6 => v.got[6] \subseteq Events \X BOOLEAN
  BY <1>0, <1>4 DEF SchoolRead
<1>6. \A i \in Nat : i > 0 /\ i < w.at => (i < v.at /\ w.got[i] = v.got[i]) \/ (i = v.at /\ w.got[i] = Value(Plan["school"][i]))
  BY <1>2, <1>4
<1>7. w.at > 1 => w.got[1] \subseteq Students \X Faces
  BY <1>3, <1>5, <1>6, ValuesAre
<1>8. w.at > 2 => w.got[2] \subseteq w.were
  <2>1. CASE v.at > 2
    BY <1>2, <1>5, <2>1
  <2>2. CASE v.at = 2
    BY <1>2, <1>3, <1>4, <2>2, ValuesAre
  <2>3. w.at > 2 => v.at > 2 \/ v.at = 2
    BY <1>2
  <2> QED BY <2>1, <2>2, <2>3
<1>9. w.at > 3 => w.got[3] \subseteq w.were /\ \A s \in w.got[3] : \E o \in opens : o[1] = s
  <2>1. CASE v.at > 3
    BY <1>2, <1>5, <2>1
  <2>2. CASE v.at = 3
    BY <1>2, <1>3, <1>4, <2>2, ValuesAre
  <2>3. w.at > 3 => v.at > 3 \/ v.at = 3
    BY <1>2
  <2> QED BY <2>1, <2>2, <2>3
<1>10. w.at > 4 => w.got[4] \subseteq Events
  BY <1>3, <1>5, <1>6, ValuesAre
<1>11. w.at > 5 => w.got[5] \subseteq w.were
  <2>1. CASE v.at > 5
    BY <1>2, <1>5, <2>1
  <2>2. CASE v.at = 5
    BY <1>2, <1>3, <1>4, <2>2, ValuesAre
  <2>3. w.at > 5 => v.at > 5 \/ v.at = 5
    BY <1>2
  <2> QED BY <2>1, <2>2, <2>3
<1>12. w.at > 6 => w.got[6] \subseteq Events \X BOOLEAN
  BY <1>3, <1>5, <1>6, ValuesAre
<1>13. ASSUME w.at > 8
       PROVE  w.got[8] \subseteq Students \X Events /\ w.got[3] \subseteq {o[1] : o \in w.got[8]} \cup (w.left \cup w.faded)
  <2>1. v.at = 8
    BY <1>2, <1>4, <1>13
  <2>2. w.got[8] = Openings \ early /\ w.got[8] \subseteq Students \X Events
    BY <1>2, <1>3, <1>4, <2>1, ValuesAre
  <2>3. w.got[3] \subseteq w.were /\ \A s \in w.got[3] : \E o \in opens : o[1] = s
    BY <1>2, <1>9, <2>1
  <2>4. ASSUME NEW s \in w.got[3], s \notin w.left, s \notin w.faded
        PROVE  s \in {o[1] : o \in w.got[8]}
    <3>1. s \in Enrolled
      BY <1>2, <2>3, <2>4
    <3>2. PICK o \in Openings : o[1] = s /\ o \notin early
      BY <1>2, <2>4, <3>1 DEF Faded
    <3>3. o \in w.got[8]
      BY <2>2, <3>2
    <3> QED BY <3>2, <3>3
  <2> QED BY <2>2, <2>4
<1> QED BY <1>2, <1>7, <1>8, <1>9, <1>10, <1>11, <1>12, <1>13 DEF SchoolRead

LEMMA DashboardTaken ==
  ASSUME CatalogueTyped, ReportTyped, PupilsTyped, LogsTyped, ReadNext, DashboardRead(report)
  PROVE  DashboardRead(report)'
<1>0. PICK v : v = report
  OBVIOUS
<1>1. PICK w : w = report'
  OBVIOUS
<1>2. /\ v.at \in Nat /\ w.at = v.at + 1 /\ w.kind = v.kind
      /\ w.got[v.at] = Value(Plan[v.kind][v.at])
      /\ \A i \in Nat : i > 0 /\ i < v.at => w.got[i] = v.got[i]
      /\ v.held \subseteq w.held /\ Happening \subseteq w.held
      /\ v.at \in 1..Len(Plan[v.kind])
  BY <1>0, <1>1, FiguresTaken
<1> SUFFICES ASSUME w.kind = "dashboard" PROVE DashboardRead(w)
  BY <1>1 DEF DashboardRead
<1>3. /\ Plan["dashboard"][1] = "enrollment" /\ Plan["dashboard"][2] = "status"
      /\ Plan["dashboard"][4] = "undistributed" /\ Plan["dashboard"][6] = "distributed"
      /\ Len(Plan["dashboard"]) = 6
  BY DEF Plan
<1>4. v.kind = "dashboard" /\ v.at \in 1..6
  BY <1>2, <1>3
<1>5. /\ v.at > 1 => v.got[1] \subseteq Students \X Faces
      /\ v.at > 2 => v.got[2] \subseteq Events \X BOOLEAN \X BOOLEAN
      /\ v.at > 4 => v.got[4] \subseteq v.held
      /\ v.at > 6 => v.got[6] \subseteq v.held
  BY <1>0, <1>4 DEF DashboardRead
<1>6. \A i \in Nat : i > 0 /\ i < w.at => (i < v.at /\ w.got[i] = v.got[i]) \/ (i = v.at /\ w.got[i] = Value(Plan["dashboard"][i]))
  BY <1>2, <1>4
<1>7. w.at > 1 => w.got[1] \subseteq Students \X Faces
  BY <1>3, <1>5, <1>6, ValuesAre
<1>8. w.at > 2 => w.got[2] \subseteq Events \X BOOLEAN \X BOOLEAN
  BY <1>3, <1>5, <1>6, ValuesAre
<1>9. w.at > 4 => w.got[4] \subseteq w.held
  BY <1>2, <1>3, <1>5, <1>6, ValuesAre
<1>10. w.at > 6 => w.got[6] \subseteq w.held
  BY <1>2, <1>3, <1>5, <1>6, ValuesAre
<1> QED BY <1>7, <1>8, <1>9, <1>10 DEF DashboardRead

LEMMA EstateTaken ==
  ASSUME CatalogueTyped, ReportTyped, PupilsTyped, LogsTyped, UNCHANGED rows, ReadNext,
         EstateRead(report)
  PROVE  EstateRead(report)'
<1>0. PICK v : v = report
  OBVIOUS
<1>1. PICK w : w = report'
  OBVIOUS
<1>2. /\ v.at \in Nat /\ w.at = v.at + 1 /\ w.kind = v.kind
      /\ w.got[v.at] = Value(Plan[v.kind][v.at])
      /\ \A i \in Nat : i > 0 /\ i < v.at => w.got[i] = v.got[i]
      /\ v.were \subseteq w.were /\ Enrolled \subseteq w.were /\ w.left = w.were \ Enrolled
      /\ v.left \subseteq w.were
      /\ v.held \subseteq w.held /\ Happening \subseteq w.held
      /\ v.idle => w.idle
      /\ v.stalled => w.stalled
      /\ Enrolled # {} /\ EnrolledCounts = {} => w.stalled
      /\ EnrolledCounts # {} /\ RecentCounts = {} => w.idle
      /\ v.at \in 1..Len(Plan[v.kind]) /\ course' = course
  BY <1>0, <1>1, FiguresTaken
<1>3. rows' = rows /\ RecentCounts' = RecentCounts
  BY <1>2 DEF RecentCounts, Happening
<1> SUFFICES ASSUME w.kind = "estate" PROVE EstateRead(w)'
  BY <1>1 DEF EstateRead
<1>4. /\ Plan["estate"][3] = "students" /\ Plan["estate"][4] = "enrolled"
      /\ Plan["estate"][5] = "eventCounts" /\ Plan["estate"][6] = "distributedCounts"
      /\ Plan["estate"][7] = "recent" /\ Plan["estate"][8] = "firstDistributed"
      /\ Len(Plan["estate"]) = 11
  BY DEF Plan
<1>5. v.kind = "estate" /\ v.at \in 1..11
  BY <1>2, <1>4
<1>6. /\ v.at > 3 => v.got[3] \subseteq v.were /\ \A s \in v.got[3] : rows[s] # "new"
      /\ v.at > 4 => /\ v.got[4] \subseteq v.were
                     /\ v.got[4] # {} /\ RecentCounts = {} => v.idle
                     /\ v.got[3] # {} /\ v.got[4] = {} => v.stalled \/ \E s \in v.left : rows[s] = "gone"
      /\ v.at > 5 => v.got[5] \subseteq Events
      /\ v.at > 6 => v.got[6] \subseteq v.held
      /\ v.at > 7 => (v.got[4] # {} /\ v.got[7] = {} => v.idle)
      /\ v.at > 8 => v.got[8] \subseteq v.held
  BY <1>0, <1>5 DEF EstateRead
<1>7. \A i \in Nat : i > 0 /\ i < w.at => (i < v.at /\ w.got[i] = v.got[i]) \/ (i = v.at /\ w.got[i] = Value(Plan["estate"][i]))
  BY <1>2, <1>5
<1>8. w.at > 3 => w.got[3] \subseteq w.were /\ \A s \in w.got[3] : rows[s] # "new"
  <2>1. \A s \in Enrolled : rows[s] # "new"
    BY DEF Enrolled
  <2>2. CASE v.at > 3
    BY <1>2, <1>6, <2>2
  <2>3. CASE v.at = 3
    BY <1>2, <1>4, <1>5, <2>1, <2>3, ValuesAre
  <2>4. w.at > 3 => v.at > 3 \/ v.at = 3
    BY <1>2
  <2> QED BY <2>2, <2>3, <2>4
<1>9. ASSUME w.at > 4
      PROVE  /\ w.got[4] \subseteq w.were
             /\ w.got[4] # {} /\ RecentCounts = {} => w.idle
             /\ w.got[3] # {} /\ w.got[4] = {} => w.stalled \/ \E s \in w.left : rows[s] = "gone"
  <2>1. CASE v.at > 4
    <3>1. w.got[4] = v.got[4] /\ w.got[3] = v.got[3]
      BY <1>2, <2>1
    <3>2. \A s \in v.left : rows[s] = "gone" => s \in w.left
      BY <1>2 DEF Enrolled
    <3> QED BY <1>2, <1>6, <2>1, <3>1, <3>2
  <2>2. CASE v.at = 4
    <3>1. w.got[4] = EnrolledCounts /\ EnrolledCounts \subseteq Enrolled
      BY <1>2, <1>4, <1>5, <2>2, ValuesAre
    <3>2. w.got[3] \subseteq w.were /\ \A s \in w.got[3] : rows[s] # "new"
      BY <1>2, <1>8, <2>2
    <3>3. ASSUME NEW s \in w.got[3], EnrolledCounts = {}
          PROVE  w.stalled \/ \E i \in w.left : rows[i] = "gone"
      <4>1. s \in w.were /\ s \in Students /\ rows[s] \in {"there", "gone"}
        <5>1. s \in w.were /\ rows[s] # "new"
          BY <3>2
        <5>2. w.were \subseteq Students
          BY <1>1, ReadNextKept DEF ReportKept
        <5> QED BY <5>1, <5>2 DEF CatalogueTyped, Items
      <4>2. CASE s \in Enrolled
        BY <1>2, <3>3, <4>2
      <4>3. CASE s \notin Enrolled
        BY <1>2, <4>1, <4>3 DEF Enrolled
      <4> QED BY <4>2, <4>3
    <3> QED BY <1>2, <3>1, <3>3
  <2> QED BY <1>2, <1>9, <2>1, <2>2
<1>10. w.at > 5 => w.got[5] \subseteq Events
  BY <1>4, <1>6, <1>7, ValuesAre
<1>11. w.at > 6 => w.got[6] \subseteq w.held
  BY <1>2, <1>4, <1>6, <1>7, ValuesAre
<1>12. w.at > 7 => (w.got[4] # {} /\ w.got[7] = {} => w.idle)
  <2>1. CASE v.at > 7
    BY <1>2, <1>6, <2>1
  <2>2. CASE v.at = 7
    <3>1. w.got[7] = RecentCounts
      BY <1>2, <1>4, <1>5, <2>2, ValuesAre
    <3> QED BY <1>2, <1>9, <2>2, <3>1
  <2> QED BY <1>2, <2>1, <2>2
<1>13. w.at > 8 => w.got[8] \subseteq w.held
  <2>1. CASE v.at > 8
    BY <1>2, <1>6, <2>1
  <2>2. CASE v.at = 8
    BY <1>2, <1>4, <1>5, <2>2, ValuesAre
  <2>3. w.at > 8 => v.at > 8 \/ v.at = 8
    BY <1>2
  <2> QED BY <2>1, <2>2, <2>3
<1> QED BY <1>3, <1>8, <1>9, <1>10, <1>11, <1>12, <1>13 DEF EstateRead

\* Students come and go, and no event that is there goes.
LEMMA RowsPass ==
  ASSUME Shaped, [Next]_vars
  PROVE  Forth /\ Happening \subseteq Happening'
<1>0. /\ CatalogueTyped /\ Batched /\ LogsTyped /\ rows \in [Items -> {"new", "there", "gone"}]
      /\ Students \subseteq Items /\ Events \subseteq Items /\ Students \cap Events = {}
  BY ItemsAssumption DEF Shaped, Batched, CatalogueTyped, Items
<1>1. ASSUME UNCHANGED rows PROVE Forth /\ Happening \subseteq Happening'
  BY <1>1 DEF Forth, Happening
<1>2. ASSUME NEW s \in Students, NEW x, rows' = [rows EXCEPT ![s] = x] PROVE Happening \subseteq Happening'
  BY <1>0, <1>2 DEF Happening
<1>3. CASE ListingsStep
  <2>1. Forth
    BY <1>0, <1>3, ListingsForth
  <2>2. ASSUME NEW e \in Happening PROVE rows'[e] = "there"
    <3>1. CASE UNCHANGED rows
      BY <2>2, <3>1 DEF Happening
    <3>2. ASSUME NEW f \in Events, TagEvent(f) PROVE rows'[e] = "there"
      BY <1>0, <2>2, <3>2 DEF TagEvent, CreateEvent, UpdateEvent, Happening
    <3>3. ASSUME Walk PROVE UNCHANGED rows
      BY <3>3 DEF Walk, Lists, ListStaff, ListStudents, ListEvents, BeginWalk, ReadScope, ReadRows,
         ReadTotal, ReadCounts, ScanIds, Hydrate, catalogue
    <3>4. ASSUME Changes PROVE UNCHANGED rows
      BY <3>4 DEF Changes, CreateClass, DeleteClass, BeginAssign, BeginRemove, BeginTag, Match,
         BeginLink, Unlink, BeginReplace, catalogue
    <3>5. ASSUME Catalogue, ~Changes, \A f \in Events : ~TagEvent(f) PROVE UNCHANGED rows
      BY <3>5 DEF Catalogue, AssignStudents, RemoveStudent, CheckTeacher, LinkTeacher, SiftClass,
         ReplaceLinks, catalogue
    <3> QED BY <1>3, <3>1, <3>2, <3>3, <3>4, <3>5 DEF ListingsStep
  <2> QED BY <2>1, <2>2 DEF Happening
<1>4. CASE OfficeStep /\ UNCHANGED <<accounts, moves>>
  <2>0. UNCHANGED users
    BY <1>4 DEF accounts
  <2>1. ASSUME Logs PROVE UNCHANGED rows
    BY <2>1 DEF Logs, Save, BeginExport, ReadEntries, CountEntries, catalogue
  <2>2. ASSUME NEW r \in Requests, Batch(r) PROVE Forth /\ Happening \subseteq Happening'
    <3>1. CASE AtWork(r)
      <4>1. Forth /\ Who(r) \in Students
        BY <1>0, <2>0, <2>2, <3>1, WorksCatalogue, RowInHand DEF Batch, Batched
      <4>2. UNCHANGED rows \/ \E x : rows' = [rows EXCEPT ![Who(r)] = x]
        BY <2>2, <3>1 DEF Batch, Works, FailRow, Break, Audit, CreateLogin, CreateProfile, UndoLogin,
           ResolveClass, AssignClass, FindStudent, WriteStatus, Reread, WritePassword, Erase, Drop,
           catalogue
      <4> QED BY <1>1, <1>2, <4>1, <4>2
    <3>2. CASE ~AtWork(r)
      BY <1>1, <2>2, <3>2 DEF Batch, Asks, BeginImport, BeginBulk, BeginBatch, catalogue
    <3> QED BY <3>1, <3>2
  <2>3. ASSUME NEW s \in Students, CreateStudent(s) \/ DeleteStudent(s)
        PROVE  Forth /\ Happening \subseteq Happening'
    <3>1. \E x : rows' = [rows EXCEPT ![s] = x]
      BY <2>3 DEF CreateStudent, DeleteStudent, Enter, Delete
    <3>2. Forth
      BY <1>0, <2>3 DEF CreateStudent, DeleteStudent, Enter, Delete, Forth
    <3> QED BY <1>2, <3>1, <3>2
  <2> QED BY <1>1, <1>4, <2>1, <2>2, <2>3 DEF OfficeStep
<1> QED BY <1>1, <1>3, <1>4, Parts DEF listings, vars

\* What happens takes no opening back, and no event's turn.
LEMMA HappensForth ==
  ASSUME ReportTyped, Happens, UNCHANGED rows
  PROVE  opens \subseteq opens' /\ RecentCounts \subseteq RecentCounts'
<1>1. ASSUME UNCHANGED course PROVE RecentCounts \subseteq RecentCounts'
  BY <1>1 DEF RecentCounts, Happening
<1>2. ASSUME NEW e \in Events, NEW c \in Courses, c.recent = course[e].recent, Along(e, c)
      PROVE  opens' = opens /\ RecentCounts \subseteq RecentCounts'
  <2>1. course' = [course EXCEPT ![e] = c] /\ opens' = opens /\ course \in [Events -> Courses]
    BY <1>2 DEF Along, ReportTyped
  <2>2. \A f \in Events : course'[f].recent = course[f].recent
    BY <1>2, <2>1
  <2> QED BY <2>1, <2>2 DEF RecentCounts, Happening
<1>3. ASSUME NEW e \in Events,
             \/ Upload(e) \/ Process(e) \/ Complete(e) \/ Announce(e) \/ SetAuto(e) \/ Archive(e)
      PROVE  opens' = opens /\ RecentCounts \subseteq RecentCounts'
  <2>1. PICK c \in Courses : c = course[e]
    BY DEF ReportTyped
  <2>2. PICK d : /\ Along(e, d)
                 /\ \/ d = [c EXCEPT !.photos = c.photos \cup {"pending"}]
                    \/ d = [c EXCEPT !.running = TRUE]
                    \/ d = [c EXCEPT !.running = FALSE, !.done = TRUE, !.photos = {"done"}]
                    \/ d = [c EXCEPT !.notified = TRUE]
                    \/ d = [c EXCEPT !.auto = ~c.auto]
                    \/ d = [c EXCEPT !.archived = ~c.archived]
    BY <1>3, <2>1 DEF Upload, Process, Complete, Announce, SetAuto, Archive
  <2>3. d \in Courses /\ d.recent = c.recent
    BY <2>2 DEF Courses
  <2> QED BY <1>2, <2>1, <2>2, <2>3
<1> QED BY <1>1, <1>3 DEF Happens, PupilSignsIn, Enrol, Open, MonthDrops, Send

LEMMA FiguresInit == Init => ReportKnown
BY DEF Init, InsightInit, NoReport, ReportKnown, SchoolRead, DashboardRead, EstateRead

LEMMA FiguresNext == Shaped /\ ReportKnown /\ [Next]_vars => ReportKnown'
<1> SUFFICES ASSUME Shaped, ReportKnown, [Next]_vars PROVE ReportKnown'
  OBVIOUS
<1>1. /\ CatalogueTyped /\ ReportTyped /\ ReportKept /\ PupilsTyped /\ LogsTyped
      /\ Forth /\ Happening \subseteq Happening'
  BY RowsPass DEF Shaped, ReportTyped
<1>2. \A s \in Students : /\ rows[s] # "new" => rows'[s] # "new"
                          /\ rows[s] = "gone" => rows'[s] = "gone"
  BY <1>1 DEF Forth, Items
<1>3. ASSUME report' = Witnessed, UNCHANGED <<opens, course>> PROVE ReportKnown'
  <2>1. RecentCounts \subseteq RecentCounts'
    BY <1>1, <1>3 DEF RecentCounts
  <2> QED BY <1>1, <1>2, <1>3, <2>1, FiguresStay
<1>4. CASE InsightStep /\ UNCHANGED listings
  <2>1. UNCHANGED rows
    BY <1>4 DEF listings
  <2>2. ASSUME Happens, report' = Witnessed PROVE ReportKnown'
    BY <1>1, <1>2, <2>1, <2>2, HappensForth, FiguresStay
  <2>3. ASSUME ReadNext PROVE ReportKnown'
    BY <1>1, <2>1, <2>3, SchoolTaken, DashboardTaken, EstateTaken DEF ReportKnown
  <2> QED BY <1>4, <2>2, <2>3, FiguresBegun DEF InsightStep
<1>5. CASE UNCHANGED vars
  <2>1. UNCHANGED <<report, opens, rows, course>>
    BY <1>5 DEF vars, listings, insight
  <2> QED BY <2>1 DEF ReportKnown, SchoolRead, DashboardRead, EstateRead, RecentCounts, Happening
<1> QED BY <1>3, <1>4, <1>5, Parts

\* No more are named in a list than there are entries.
LEMMA NamesCounted ==
  ASSUME NEW S, IsFiniteSet(S), NEW D, D = {x[1] : x \in S}
  PROVE  IsFiniteSet(D) /\ Cardinality(D) \in Nat /\ Cardinality(S) \in Nat
         /\ Cardinality(D) <= Cardinality(S)
<1>1. PICK f : f = [x \in S |-> x[1]]
  OBVIOUS
<1>2. f \in Surjection(S, D)
  BY <1>1 DEF Surjection
<1> QED BY <1>2, FS_Surjection, FS_CardinalityType

\* A part is no more than what covers most of it and what is left.
LEMMA PartCovered ==
  ASSUME NEW B, IsFiniteSet(B), NEW A \in SUBSET B, NEW D, IsFiniteSet(D)
  PROVE  /\ Cardinality(A) \in Nat /\ Cardinality(D) \in Nat /\ Cardinality(B \ D) \in Nat
         /\ Cardinality(A) <= Cardinality(D) + Cardinality(B \ D)
<1>1. IsFiniteSet(B \ D) /\ IsFiniteSet(A)
  BY FS_Difference, FS_Subset
<1>2. PICK U : U = D \cup (B \ D)
  OBVIOUS
<1>3. IsFiniteSet(U) /\ Cardinality(U) = Cardinality(D) + Cardinality(B \ D) - Cardinality(D \cap (B \ D))
  BY <1>1, <1>2, FS_Union
<1>4. D \cap (B \ D) = {}
  OBVIOUS
<1>5. Cardinality(D \cap (B \ D)) = 0
  BY <1>4, FS_EmptySet
<1>6. A \in SUBSET U
  BY <1>2
<1>7. Cardinality(A) <= Cardinality(U)
  BY <1>3, <1>6, FS_Subset
<1>8. Cardinality(A) \in Nat /\ Cardinality(D) \in Nat /\ Cardinality(B \ D) \in Nat
  BY <1>1, FS_CardinalityType
<1> QED BY <1>3, <1>5, <1>7, <1>8

LEMMA OfficeFinite ==
  /\ IsFiniteSet(Students) /\ IsFiniteSet(Events) /\ IsFiniteSet(Students \X Faces)
  /\ IsFiniteSet(Students \X Events) /\ IsFiniteSet(Events \X BOOLEAN)
  /\ IsFiniteSet(Events \X BOOLEAN \X BOOLEAN)
<1>1. IsFiniteSet(Students) /\ IsFiniteSet(Events)
  BY ItemsAssumption, FS_Subset DEF Items
<1>2. IsFiniteSet(Faces)
  <2>1. Faces = ({"pending"} \cup {"enrolled"}) \cup {"failed"}
    BY DEF Faces
  <2>2. IsFiniteSet({"pending"} \cup {"enrolled"})
    BY FS_Singleton, FS_Union
  <2>3. IsFiniteSet({"failed"})
    BY FS_Singleton
  <2> QED BY <2>1, <2>2, <2>3, FS_Union
<1>3. IsFiniteSet(BOOLEAN)
  <2>1. BOOLEAN = {TRUE} \cup {FALSE}
    OBVIOUS
  <2>2. IsFiniteSet({TRUE}) /\ IsFiniteSet({FALSE})
    BY FS_Singleton
  <2>3. IsFiniteSet({TRUE} \cup {FALSE})
    BY <2>2, FS_Union
  <2> QED BY <2>1, <2>3
<1>4. IsFiniteSet(Students \X Faces) /\ IsFiniteSet(Students \X Events) /\ IsFiniteSet(Events \X BOOLEAN)
  BY <1>1, <1>2, <1>3, FS_Product
<1>5. IsFiniteSet(Events \X BOOLEAN \X BOOLEAN)
  <2>1. IsFiniteSet((Events \X BOOLEAN) \X BOOLEAN)
    BY <1>3, <1>4, FS_Product
  <2>2. PICK f : f = [x \in (Events \X BOOLEAN) \X BOOLEAN |-> <<x[1][1], x[1][2], x[2]>>]
    OBVIOUS
  <2>3. f \in Surjection((Events \X BOOLEAN) \X BOOLEAN, Events \X BOOLEAN \X BOOLEAN)
    <3>1. f \in [(Events \X BOOLEAN) \X BOOLEAN -> Events \X BOOLEAN \X BOOLEAN]
      BY <2>2
    <3>2. ASSUME NEW y \in Events \X BOOLEAN \X BOOLEAN
          PROVE  \E x \in (Events \X BOOLEAN) \X BOOLEAN : f[x] = y
      <4>1. <<<<y[1], y[2]>>, y[3]>> \in (Events \X BOOLEAN) \X BOOLEAN
        OBVIOUS
      <4>2. f[<<<<y[1], y[2]>>, y[3]>>] = <<y[1], y[2], y[3]>>
        BY <2>2, <4>1
      <4> QED BY <4>1, <4>2
    <3> QED BY <3>1, <3>2 DEF Surjection
  <2> QED BY <2>1, <2>3, FS_Surjection
<1> QED BY <1>1, <1>4, <1>5

\* The school's analytics add up, ...
LEMMA SchoolAdds ==
  ASSUME ReportKept, SchoolRead(report), Reported("school")
  PROVE  LET f == Analytics
             students == f.students + Cardinality(report.were \ {x[1] : x \in Got("enrollment")})
         IN /\ f.enrolled <= f.students /\ f.signedIn <= students
            /\ f.engaged <= students /\ f.saved <= students
            /\ f.opened <= f.distributed /\ f.distributed <= f.events
            /\ f.engaged <= f.firstOpens + Cardinality(report.left \cup report.faded)
<1>1. /\ report.kind = "school" /\ report.at \in Nat /\ report.at > 8
      /\ report.were \in SUBSET Students /\ report.left \cup report.faded \in SUBSET Students
  <2>1. Plan["school"] = <<"enrollment", "signedIn", "engaged", "opened", "savers", "events", "photos", "firstOpens">>
    BY DEF Plan
  <2>2. Len(Plan["school"]) = 8
    BY <2>1
  <2> QED BY <2>2 DEF Reported, Reading, ReportKept
<1>2. /\ Got("enrollment") = report.got[1] /\ Got("signedIn") = report.got[2]
      /\ Got("engaged") = report.got[3] /\ Got("opened") = report.got[4]
      /\ Got("savers") = report.got[5] /\ Got("events") = report.got[6]
      /\ Got("firstOpens") = report.got[8]
  <2>1. PICK p : p = <<"enrollment", "signedIn", "engaged", "opened", "savers", "events", "photos", "firstOpens">>
    OBVIOUS
  <2>2. Plan[report.kind] = p /\ DOMAIN p = 1..8
    BY <1>1, <2>1 DEF Plan
  <2>3. \A i \in 1..8 : i = 1 \/ i = 2 \/ i = 3 \/ i = 4 \/ i = 5 \/ i = 6 \/ i = 7 \/ i = 8
    OBVIOUS
  <2>4. /\ (CHOOSE i \in 1..8 : p[i] = "enrollment") = 1 /\ (CHOOSE i \in 1..8 : p[i] = "signedIn") = 2
        /\ (CHOOSE i \in 1..8 : p[i] = "engaged") = 3 /\ (CHOOSE i \in 1..8 : p[i] = "opened") = 4
    BY <2>1, <2>3
  <2>5. /\ (CHOOSE i \in 1..8 : p[i] = "savers") = 5 /\ (CHOOSE i \in 1..8 : p[i] = "events") = 6
        /\ (CHOOSE i \in 1..8 : p[i] = "firstOpens") = 8
    BY <2>1, <2>3
  <2> QED BY <2>2, <2>4, <2>5 DEF Got
<1> DEFINE g(i) == report.got[i]
           named == {x[1] : x \in g(1)}
           gone == report.left \cup report.faded
           announced == {x[1] : x \in {x \in g(6) : x[2]}}
<1>3. /\ g(1) \subseteq Students \X Faces /\ g(2) \subseteq report.were /\ g(3) \subseteq report.were
      /\ g(5) \subseteq report.were /\ g(6) \subseteq Events \X BOOLEAN
      /\ g(8) \subseteq Students \X Events /\ g(3) \subseteq {o[1] : o \in g(8)} \cup gone
  BY <1>1 DEF SchoolRead
<1>4. /\ IsFiniteSet(g(1)) /\ IsFiniteSet(g(6)) /\ IsFiniteSet(g(8))
      /\ IsFiniteSet(report.were) /\ IsFiniteSet(gone)
  BY <1>1, <1>3, OfficeFinite, FS_Subset
<1>5. /\ Analytics.students = Cardinality(g(1))
      /\ Analytics.enrolled = Cardinality({x \in g(1) : x[2] = "enrolled"})
      /\ Analytics.signedIn = Cardinality(g(2)) /\ Analytics.engaged = Cardinality(g(3))
      /\ Analytics.saved = Cardinality(g(5)) /\ Analytics.events = Cardinality(g(6))
      /\ Analytics.distributed = Cardinality(announced)
      /\ Analytics.opened = Cardinality(announced \cap g(4))
      /\ Analytics.firstOpens = Cardinality(g(8))
  BY <1>2 DEF Analytics, Count
<1>6. Cardinality({x \in g(1) : x[2] = "enrolled"}) <= Cardinality(g(1))
  <2>1. {x \in g(1) : x[2] = "enrolled"} \in SUBSET g(1)
    OBVIOUS
  <2> QED BY <1>4, <2>1, FS_Subset
<1>7. IsFiniteSet(named) /\ Cardinality(named) \in Nat /\ Cardinality(g(1)) \in Nat
      /\ Cardinality(named) <= Cardinality(g(1))
  BY <1>4, NamesCounted
<1>8. ASSUME NEW A \in SUBSET report.were
      PROVE  Cardinality(A) <= Cardinality(g(1)) + Cardinality(report.were \ named)
  <2>1. /\ Cardinality(A) \in Nat /\ Cardinality(report.were \ named) \in Nat
        /\ Cardinality(A) <= Cardinality(named) + Cardinality(report.were \ named)
    BY <1>4, <1>7, PartCovered
  <2> QED BY <1>7, <2>1
<1>9. IsFiniteSet(announced) /\ Cardinality(announced) <= Cardinality(g(6))
  <2>1. PICK S : S = {x \in g(6) : x[2]}
    OBVIOUS
  <2>2. IsFiniteSet(S) /\ Cardinality(S) <= Cardinality(g(6))
    BY <1>4, <2>1, FS_Subset
  <2>3. IsFiniteSet(announced) /\ Cardinality(announced) <= Cardinality(S)
        /\ Cardinality(announced) \in Nat /\ Cardinality(S) \in Nat
    BY <2>1, <2>2, NamesCounted
  <2>4. Cardinality(g(6)) \in Nat
    BY <1>4, FS_CardinalityType
  <2> QED BY <2>2, <2>3, <2>4
<1>10. Cardinality(announced \cap g(4)) <= Cardinality(announced)
  BY <1>9, FS_Intersection
<1>11. Cardinality(g(3)) <= Cardinality(g(8)) + Cardinality(gone)
  <2>1. PICK D : D = {o[1] : o \in g(8)}
    OBVIOUS
  <2>2. IsFiniteSet(D) /\ Cardinality(D) <= Cardinality(g(8)) /\ Cardinality(D) \in Nat
        /\ Cardinality(g(8)) \in Nat
    BY <1>4, <2>1, NamesCounted
  <2>3. PICK B : B = D \cup gone
    OBVIOUS
  <2>4. IsFiniteSet(B) /\ g(3) \in SUBSET B /\ B \ D \in SUBSET gone
    BY <1>3, <1>4, <2>1, <2>2, <2>3, FS_Union
  <2>5. /\ Cardinality(g(3)) \in Nat /\ Cardinality(B \ D) \in Nat
        /\ Cardinality(g(3)) <= Cardinality(D) + Cardinality(B \ D)
    BY <2>2, <2>4, PartCovered
  <2>6. Cardinality(B \ D) <= Cardinality(gone) /\ Cardinality(gone) \in Nat
    BY <1>4, <2>4, FS_Subset, FS_CardinalityType
  <2> QED BY <2>2, <2>5, <2>6
<1> QED BY <1>2, <1>3, <1>5, <1>6, <1>8, <1>9, <1>10, <1>11

\* ... and so do the figures of its dashboard ...
LEMMA DashboardAdds ==
  ASSUME ReportKept, DashboardRead(report), Reported("dashboard")
  PROVE  LET f == Summary
             events == f.events + Cardinality(report.held \ {x[1] : x \in Got("status")})
         IN /\ f.enrolled <= f.students /\ f.undistributed <= events
            /\ f.hasDistributed => events > 0
<1>1. /\ report.kind = "dashboard" /\ report.at \in Nat /\ report.at > 6
      /\ report.held \in SUBSET Events
  <2>1. Plan["dashboard"] = <<"enrollment", "status", "photoStatus", "undistributed", "teachers", "distributed">>
    BY DEF Plan
  <2>2. Len(Plan["dashboard"]) = 6
    BY <2>1
  <2> QED BY <2>2 DEF Reported, Reading, ReportKept
<1>2. /\ Got("enrollment") = report.got[1] /\ Got("status") = report.got[2]
      /\ Got("undistributed") = report.got[4] /\ Got("distributed") = report.got[6]
  <2>1. PICK p : p = <<"enrollment", "status", "photoStatus", "undistributed", "teachers", "distributed">>
    OBVIOUS
  <2>2. Plan[report.kind] = p /\ DOMAIN p = 1..6
    BY <1>1, <2>1 DEF Plan
  <2>3. \A i \in 1..6 : i = 1 \/ i = 2 \/ i = 3 \/ i = 4 \/ i = 5 \/ i = 6
    OBVIOUS
  <2>4. /\ (CHOOSE i \in 1..6 : p[i] = "enrollment") = 1 /\ (CHOOSE i \in 1..6 : p[i] = "status") = 2
        /\ (CHOOSE i \in 1..6 : p[i] = "undistributed") = 4
        /\ (CHOOSE i \in 1..6 : p[i] = "distributed") = 6
    BY <2>1, <2>3
  <2> QED BY <2>2, <2>4 DEF Got
<1> DEFINE g(i) == report.got[i]
           named == {x[1] : x \in g(2)}
<1>3. /\ g(1) \subseteq Students \X Faces /\ g(2) \subseteq Events \X BOOLEAN \X BOOLEAN
      /\ g(4) \subseteq report.held /\ g(6) \subseteq report.held
  BY <1>1 DEF DashboardRead
<1>4. IsFiniteSet(g(1)) /\ IsFiniteSet(g(2)) /\ IsFiniteSet(report.held)
  BY <1>1, <1>3, OfficeFinite, FS_Subset
<1>5. /\ Summary.students = Cardinality(g(1))
      /\ Summary.enrolled = Cardinality({x \in g(1) : x[2] = "enrolled"})
      /\ Summary.events = Cardinality(g(2)) /\ Summary.undistributed = Cardinality(g(4))
      /\ Summary.hasDistributed = (g(6) # {})
  BY <1>2 DEF Summary, Count
<1>6. Cardinality({x \in g(1) : x[2] = "enrolled"}) <= Cardinality(g(1))
  <2>1. {x \in g(1) : x[2] = "enrolled"} \in SUBSET g(1)
    OBVIOUS
  <2> QED BY <1>4, <2>1, FS_Subset
<1>7. IsFiniteSet(named) /\ Cardinality(named) \in Nat /\ Cardinality(g(2)) \in Nat
      /\ Cardinality(named) <= Cardinality(g(2))
  BY <1>4, NamesCounted
<1>8. ASSUME NEW A \in SUBSET report.held
      PROVE  /\ Cardinality(A) \in Nat /\ Cardinality(report.held \ named) \in Nat
             /\ Cardinality(A) <= Cardinality(g(2)) + Cardinality(report.held \ named)
  <2>1. /\ Cardinality(A) \in Nat /\ Cardinality(report.held \ named) \in Nat
        /\ Cardinality(A) <= Cardinality(named) + Cardinality(report.held \ named)
    BY <1>4, <1>7, PartCovered
  <2> QED BY <1>7, <2>1
<1>9. ASSUME g(6) # {} PROVE Cardinality(g(2)) + Cardinality(report.held \ named) > 0
  <2>1. IsFiniteSet(g(6))
    BY <1>3, <1>4, FS_Subset
  <2>2. Cardinality(g(6)) # 0
    BY <1>9, <2>1, FS_EmptySet
  <2>3. /\ Cardinality(g(6)) \in Nat /\ Cardinality(report.held \ named) \in Nat
        /\ Cardinality(g(6)) <= Cardinality(g(2)) + Cardinality(report.held \ named)
    BY <1>3, <1>8
  <2> QED BY <1>7, <2>2, <2>3
<1> QED BY <1>2, <1>3, <1>5, <1>6, <1>8, <1>9

\* ... and of the estate, which calls no school idle or stalled that was not.
LEMMA EstateAdds ==
  ASSUME ReportKept, EstateRead(report), Reported("estate")
  PROVE  LET f == Funnel
             students == f.students + Cardinality(report.were \ Got("students"))
             events == f.events + Cardinality(report.held \ Got("eventCounts"))
         IN /\ f.enrolled <= students /\ f.distributed <= events
            /\ f.delivered => events > 0
            /\ f.idle => report.idle
            /\ f.stalled => report.stalled \/ report.left # {}
<1>1. /\ report.kind = "estate" /\ report.at \in Nat /\ report.at > 11
      /\ report.held \in SUBSET Events /\ report.were \in SUBSET Students
  <2>1. Plan["estate"] = <<"teachers", "signedInRoles", "students", "enrolled", "eventCounts", "distributedCounts", "recent", "firstDistributed", "lastEvent", "sent", "sentMonth">>
    BY DEF Plan
  <2>2. Len(Plan["estate"]) = 11
    BY <2>1
  <2> QED BY <2>2 DEF Reported, Reading, ReportKept
<1>2. /\ Got("students") = report.got[3] /\ Got("enrolled") = report.got[4]
      /\ Got("eventCounts") = report.got[5] /\ Got("distributedCounts") = report.got[6]
      /\ Got("recent") = report.got[7] /\ Got("firstDistributed") = report.got[8]
  <2>1. PICK p : p = <<"teachers", "signedInRoles", "students", "enrolled", "eventCounts", "distributedCounts", "recent", "firstDistributed", "lastEvent", "sent", "sentMonth">>
    OBVIOUS
  <2>2. Plan[report.kind] = p /\ DOMAIN p = 1..11
    BY <1>1, <2>1 DEF Plan
  <2>3. \A i \in 1..11 : i = 1 \/ i = 2 \/ i = 3 \/ i = 4 \/ i = 5 \/ i = 6 \/ i = 7 \/ i = 8
                          \/ i = 9 \/ i = 10 \/ i = 11
    OBVIOUS
  <2>4. /\ (CHOOSE i \in 1..11 : p[i] = "students") = 3 /\ (CHOOSE i \in 1..11 : p[i] = "enrolled") = 4
        /\ (CHOOSE i \in 1..11 : p[i] = "eventCounts") = 5
    BY <2>1, <2>3
  <2>5. /\ (CHOOSE i \in 1..11 : p[i] = "distributedCounts") = 6
        /\ (CHOOSE i \in 1..11 : p[i] = "recent") = 7
        /\ (CHOOSE i \in 1..11 : p[i] = "firstDistributed") = 8
    BY <2>1, <2>3
  <2> QED BY <2>2, <2>4, <2>5 DEF Got
<1> DEFINE g(i) == report.got[i]
<1>3. /\ g(3) \subseteq report.were /\ g(4) \subseteq report.were /\ g(5) \subseteq Events
      /\ g(3) # {} /\ g(4) = {} => report.stalled \/ report.left # {}
      /\ g(6) \subseteq report.held /\ g(8) \subseteq report.held
      /\ g(4) # {} /\ g(7) = {} => report.idle
  BY <1>1 DEF EstateRead
<1>4. /\ IsFiniteSet(g(3)) /\ IsFiniteSet(g(5)) /\ IsFiniteSet(report.held) /\ IsFiniteSet(report.were)
      /\ IsFiniteSet(g(8))
  <2>1. IsFiniteSet(report.held) /\ IsFiniteSet(report.were) /\ IsFiniteSet(g(5))
    BY <1>1, <1>3, OfficeFinite, FS_Subset
  <2> QED BY <1>3, <2>1, FS_Subset
<1>5. /\ Funnel.students = Cardinality(g(3)) /\ Funnel.enrolled = Cardinality(g(4))
      /\ Funnel.events = Cardinality(g(5)) /\ Funnel.distributed = Cardinality(g(6))
      /\ Funnel.delivered = (g(8) # {}) /\ Funnel.stalled = (g(3) # {} /\ g(4) = {})
      /\ Funnel.idle = (~(g(3) # {} /\ g(4) = {}) /\ g(4) # {} /\ g(7) = {})
  BY <1>2 DEF Funnel, Count
<1>6. Cardinality(g(4)) <= Cardinality(g(3)) + Cardinality(report.were \ g(3))
  BY <1>3, <1>4, PartCovered
<1>7. Cardinality(g(6)) <= Cardinality(g(5)) + Cardinality(report.held \ g(5))
  BY <1>3, <1>4, PartCovered
<1>8. ASSUME g(8) # {} PROVE Cardinality(g(5)) + Cardinality(report.held \ g(5)) > 0
  <2>1. /\ Cardinality(g(8)) \in Nat /\ Cardinality(g(5)) \in Nat
        /\ Cardinality(report.held \ g(5)) \in Nat
        /\ Cardinality(g(8)) <= Cardinality(g(5)) + Cardinality(report.held \ g(5))
    BY <1>3, <1>4, PartCovered
  <2>2. Cardinality(g(8)) # 0
    BY <1>4, <1>8, FS_EmptySet
  <2> QED BY <2>1, <2>2
<1> QED BY <1>2, <1>3, <1>5, <1>6, <1>7, <1>8

\* The figures of a report add up, read one after the other as they are.
THEOREM FiguresStayTrue == Spec => []ReportsAddUp
<1>1. Shaped /\ ReportKnown => ReportsAddUp
  BY SchoolAdds, DashboardAdds, EstateAdds DEF Shaped, ReportTyped, ReportKnown, ReportsAddUp
<1>2. Spec => []ReportKnown
  BY FiguresInit, FiguresNext, AlwaysShaped, PTL DEF Spec
<1> QED BY <1>1, <1>2, AlwaysShaped, PTL

=============================================================================
