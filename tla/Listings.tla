------------------------------- MODULE Listings -------------------------------
(***************************************************************************)
(* Classes, the teachers they are delegated to, and the lists that staff   *)
(* page through: students, events and the staff roster, sorted by a column *)
(* or by a count, and narrowed to a teacher's own classes on request.      *)
(*                                                                         *)
(* A list is read page by page, each page by a request of several reads,   *)
(* while classes come and go, students change class, events are tagged and *)
(* teachers sign in.  Row ids are Rank.                                    *)
(***************************************************************************)
EXTENDS Accounts

CONSTANTS
  Groups, Students, Events, NoGroup,
  Rank,      \* the ids of all rows, in their order
  PageSize,
  MaxTurns   \* bound on the tasks, changes and lists begun

Items == Students \cup Events
ListRows == Items \cup Teachers

ASSUME ItemsAssumption ==
  /\ NoGroup \notin Groups
  /\ Students \cap Events = {} /\ Items \cap Teachers = {}
  /\ IsFiniteSet(Items)
ASSUME RankAssumption ==
  /\ Rank \in [ListRows -> Nat]
  /\ \A x, y \in ListRows : Rank[x] = Rank[y] => x = y
ASSUME PageAssumption == PageSize \in Nat \ {0} /\ MaxTurns \in Nat

VARIABLES
  groups,   \* the classes there are
  rows,     \* per student and event: not yet there, there, or deleted
  home,     \* a student's class, the class an event is tagged with
  links,    \* <<teacher, class>>: who looks after which class
  shots,    \* per student and event, the count a list can be sorted by
  clerk,    \* a request that changes classes, and its locals
  walk,     \* a list being read, page by page
  turns

listings == <<groups, rows, home, links, shots, clerk, walk, turns>>
catalogue == <<groups, rows, home, links, shots>>

There == {i \in Items : rows[i] = "there"}
ClassesOf(t) == {g \in groups : <<t, g>> \in links}

NoTask == [kind |-> "none", step |-> "idle", group |-> NoGroup, queue |-> {}, fresh |-> {},
           who |-> NoUser]

NoWalk ==
  [kind |-> "none", sort |-> "column", down |-> FALSE, mine |-> NoUser, step |-> "idle",
   page |-> 0, scope |-> {}, keys |-> [x \in ListRows |-> 0], ids |-> {}, got |-> 0,
   total |-> 0, first |-> 0, loaded |-> 0, shown |-> [x \in ListRows |-> 0],
   place |-> [x \in ListRows |-> -1], fell |-> {}, rose |-> {}, beyond |-> {}]

\* Something is begun; what may be is bounded where the steps are put together.
Turn == turns' = turns + 1
MoreTurns == turns < MaxTurns

ListingsInit ==
  /\ groups \in SUBSET Groups
  /\ rows \in [Items -> {"new", "there"}]
  /\ home \in [Items -> groups \cup {NoGroup}]
  /\ \A i \in Items : rows[i] = "new" => home[i] = NoGroup
  /\ links \in SUBSET ({t \in Teachers : Exists(t)} \X groups)
  /\ shots = [i \in Items |-> 0]
  /\ clerk = NoTask
  /\ walk = NoWalk
  /\ turns \in 0..MaxTurns

------------------------------------------------------------------------------
(* Classes and their members.                                              *)

CreateClass(g) ==
  /\ Turn /\ Permitted("class:manage")
  /\ g \notin groups
  /\ groups' = groups \cup {g}
  /\ UNCHANGED <<rows, home, links, shots, clerk, walk>>

\* Its students are in no class then, its events are everybody's, its links are gone.
DeleteClass(g) ==
  /\ Turn /\ Permitted("class:manage")
  /\ g \in groups
  /\ groups' = groups \ {g}
  /\ home' = [i \in Items |-> IF home[i] = g THEN NoGroup ELSE home[i]]
  /\ links' = {l \in links : l[2] # g}
  /\ UNCHANGED <<rows, shots, clerk, walk>>

Take(task) ==
  /\ Turn
  /\ clerk.step = "idle"
  /\ clerk' = task

Finished == clerk' = NoTask

\* Students are assigned to a class: the class is looked up first, ...
BeginAssign(g, S) ==
  /\ Take([NoTask EXCEPT !.kind = "assign", !.step = "assign", !.group = g, !.queue = S])
  /\ Permitted("student:manage") /\ g \in groups
  /\ UNCHANGED <<catalogue, walk>>

\* ... and if it is still there, those of the students who are are moved in one statement.
AssignStudents ==
  /\ clerk.step = "assign"
  /\ home' = IF clerk.group \in groups
               THEN [i \in Items |-> IF i \in clerk.queue \cap There THEN clerk.group
                                     ELSE home[i]]
               ELSE home
  /\ Finished
  /\ UNCHANGED <<groups, rows, links, shots, walk, turns>>

\* Students leave their classes, one at a time.
BeginRemove(S) ==
  /\ Take([NoTask EXCEPT !.kind = "remove", !.step = "remove", !.queue = S])
  /\ Permitted("student:manage")
  /\ UNCHANGED <<catalogue, walk>>

RemoveStudent(s) ==
  /\ clerk.step = "remove" /\ s \in clerk.queue
  /\ home' = [home EXCEPT ![s] = NoGroup]
  /\ IF clerk.queue = {s} THEN Finished ELSE clerk' = [clerk EXCEPT !.queue = @ \ {s}]
  /\ UNCHANGED <<groups, rows, links, shots, walk, turns>>

\* An event is created or updated with a tag, which is looked up first.
BeginTag(e, g) ==
  /\ Take([NoTask EXCEPT !.kind = "tag", !.step = "tag", !.group = g, !.queue = {e}])
  /\ Permitted("event:manage") /\ g \in groups \cup {NoGroup}
  /\ UNCHANGED <<catalogue, walk>>

CreateEvent(e) == rows[e] = "new" /\ rows' = [rows EXCEPT ![e] = "there"]
UpdateEvent(e) == rows[e] = "there" /\ UNCHANGED rows

TagEvent(e) ==
  /\ clerk.step = "tag" /\ e \in clerk.queue
  /\ IF clerk.group \in groups \cup {NoGroup}
       THEN /\ CreateEvent(e) \/ UpdateEvent(e)
            /\ home' = [home EXCEPT ![e] = clerk.group]
       ELSE UNCHANGED <<rows, home>>
  /\ Finished
  /\ UNCHANGED <<groups, links, shots, walk, turns>>

\* Students come and go (Office), and photos of them are found (Gallery).
Enter(s) ==
  /\ Turn
  /\ rows[s] = "new"
  /\ rows' = [rows EXCEPT ![s] = "there"]
  /\ UNCHANGED <<groups, home, links, shots, clerk, walk>>

Delete(s) ==
  /\ Turn
  /\ rows[s] = "there"
  /\ rows' = [rows EXCEPT ![s] = "gone"]
  /\ home' = [home EXCEPT ![s] = NoGroup]
  /\ UNCHANGED <<groups, links, shots, clerk, walk>>

Match(i) ==
  /\ Turn
  /\ rows[i] = "there"
  /\ shots' = [shots EXCEPT ![i] = 1 - @]
  /\ UNCHANGED <<groups, rows, home, links, clerk, walk>>

------------------------------------------------------------------------------
(* Teachers and their classes.                                             *)

\* Teachers are assigned to a class: the class is looked up once, then each is looked up
\* and linked, and those who are no teachers of the school are passed over.
BeginLink(g, T) ==
  /\ Take([NoTask EXCEPT !.kind = "link", !.step = "check", !.group = g, !.queue = T])
  /\ Permitted("class:manage") /\ g \in groups
  /\ UNCHANGED <<catalogue, walk>>

Onwards(T) ==
  IF T = {} THEN Finished
  ELSE clerk' = [clerk EXCEPT !.step = "check", !.queue = T, !.who = NoUser]

CheckTeacher(t) ==
  /\ clerk.step = "check" /\ t \in clerk.queue
  /\ IF Exists(t)
       THEN clerk' = [clerk EXCEPT !.step = "link", !.queue = @ \ {t}, !.who = t]
       ELSE Onwards(clerk.queue \ {t})
  /\ UNCHANGED <<catalogue, walk, turns>>

\* Once the class is gone the rest of them are not linked either.
LinkTeacher ==
  /\ clerk.step = "link"
  /\ IF clerk.group \in groups
       THEN links' = links \cup {<<clerk.who, clerk.group>>} /\ Onwards(clerk.queue)
       ELSE UNCHANGED links /\ Finished
  /\ UNCHANGED <<groups, rows, home, shots, walk, turns>>

Unlink(t, g) ==
  /\ Turn /\ Permitted("class:manage")
  /\ g \in groups /\ <<t, g>> \in links
  /\ links' = links \ {<<t, g>>}
  /\ UNCHANGED <<groups, rows, home, shots, clerk, walk>>

\* A mutant: the teacher is not looked up.
BeginReplaceUnseen(t, G) ==
  /\ Take([NoTask EXCEPT !.kind = "replace", !.step = "sift", !.queue = G, !.who = t])
  /\ Permitted("class:manage")
  /\ UNCHANGED <<catalogue, walk>>

\* A teacher's classes are set as a whole: those that are there are kept, one look each, ...
BeginReplace(t, G) ==
  /\ Take([NoTask EXCEPT !.kind = "replace", !.step = "sift", !.queue = G, !.who = t])
  /\ Permitted("class:manage") /\ Exists(t)
  /\ UNCHANGED <<catalogue, walk>>

SiftClass(g) ==
  /\ clerk.step = "sift" /\ g \in clerk.queue
  /\ clerk' = [clerk EXCEPT !.queue = @ \ {g}, !.fresh = @ \cup ({g} \cap groups)]
  /\ UNCHANGED <<catalogue, walk, turns>>

\* ... and replace the old ones in one transaction, which one deleted meanwhile undoes.
ReplaceLinks ==
  /\ clerk.step = "sift" /\ clerk.queue = {}
  /\ links' = IF clerk.fresh \subseteq groups
                THEN {l \in links : l[1] # clerk.who} \cup ({clerk.who} \X clerk.fresh)
                ELSE links
  /\ Finished
  /\ UNCHANGED <<groups, rows, home, shots, walk, turns>>

------------------------------------------------------------------------------
(* A list, page by page.                                                   *)

\* A focused teacher sees the students of their classes, ...
StudentsListed(w) == {s \in Students \cap There : w.mine = NoUser \/ home[s] \in w.scope}

\* ... and the events of their classes and of no class.
EventsListed(w) ==
  {e \in Events \cap There : w.mine = NoUser \/ home[e] \in w.scope \cup {NoGroup}}

TeachersListed == {t \in Teachers : Exists(t)}

\* What a page is cut from.
Filtered(w) ==
  CASE w.kind = "roster" -> TeachersListed
    [] w.kind = "students" -> StudentsListed(w)
    [] w.kind = "events" -> EventsListed(w)
    [] OTHER -> {}

Total(w) == Cardinality(Filtered(w))

\* What it is sorted by: the counts the request has read, when a teacher last signed in, or
\* a name, which all may share.
KeyOf(w, x) ==
  IF w.sort = "count" THEN w.keys[x]
  ELSE IF w.kind = "roster" THEN users[x].seen
  ELSE 0

\* Who has never signed in comes last in either direction; ids settle what is left.
Before(w, x, y) ==
  LET k == KeyOf(w, x)
      l == KeyOf(w, y)
      never(n) == w.kind = "roster" /\ n = 0
  IN IF never(k) # never(l) THEN never(l)
     ELSE IF k # l THEN (IF w.down THEN k > l ELSE k < l)
     ELSE IF w.down THEN Rank[x] > Rank[y] ELSE Rank[x] < Rank[y]

Place(w, x) == Cardinality({y \in Filtered(w) : Before(w, y, x)})

\* A mutant: sorted by the column alone, and in any order where that is the same.
PagesOfColumn(w) ==
  LET F == Filtered(w)
      orders == {q \in [1..Cardinality(F) -> F] :
                   /\ \A i, j \in DOMAIN q : q[i] = q[j] => i = j
                   /\ \A i, j \in DOMAIN q :
                        i < j /\ KeyOf(w, q[i]) # KeyOf(w, q[j]) => Before(w, q[i], q[j])}
  IN {{q[i] : i \in {i \in DOMAIN q : i > w.page * PageSize /\ i <= (w.page + 1) * PageSize}} :
        q \in orders}

\* The pages that a read by offset and limit may answer: one, as the order is total.
Pages(w) ==
  {{x \in Filtered(w) : /\ Place(w, x) >= w.page * PageSize
                        /\ Place(w, x) < (w.page + 1) * PageSize}}

\* For the properties: who has been passed by since the walk last looked.
Watched(w) ==
  LET F == Filtered(w)
  IN [w EXCEPT !.place = [x \in ListRows |-> IF x \in F THEN Place(w, x) ELSE @[x]],
               !.fell = @ \cup {x \in ListRows : x \notin F \/ Place(w, x) < w.place[x]},
               !.rose = @ \cup {x \in F : w.place[x] >= 0 /\ Place(w, x) > w.place[x]}]

Showing(w, Q) ==
  [w EXCEPT !.shown = [x \in ListRows |-> IF x \in Q /\ @[x] < 2 THEN @[x] + 1 ELSE @[x]],
            !.got = Cardinality(Q), !.loaded = @ + Cardinality(Q)]

\* The client stops when a page has reached the total it came with, or when as many rows
\* are loaded as the first page announced: who stands beyond that by now is remembered.
Turned(w) ==
  LET first == IF w.page = 0 THEN w.total ELSE w.first
  IN IF w.page * PageSize + w.got >= w.total \/ w.loaded >= first
       THEN [NoWalk EXCEPT !.step = "done", !.shown = w.shown, !.fell = w.fell,
                           !.rose = w.rose, !.beyond = {x \in ListRows : w.place[x] >= first}]
     ELSE [w EXCEPT !.step = "page", !.page = @ + 1, !.first = first]

BySession(w) ==
  \E s \in tokens :
    /\ Accepts(s)
    /\ w.kind = "roster" => "staff:manage" \in Grants(s.user)
    /\ w.mine # NoUser => s.user = w.mine

BeginWalk(kind, sort, down, t) ==
  /\ Turn
  /\ walk.step \in {"idle", "done"}
  /\ walk' = [NoWalk EXCEPT !.kind = kind, !.sort = sort, !.down = down, !.mine = t,
                            !.step = "page"]
  /\ BySession(walk')
  /\ UNCHANGED <<catalogue, clerk>>

\* The roster by the last sign-in, students and events by name or by count, of the whole
\* school or of a teacher's classes.
ListStaff(down) == BeginWalk("roster", "column", down, NoUser)
ListStudents(sort, down, t) == BeginWalk("students", sort, down, t)
ListEvents(sort, down, t) == BeginWalk("events", sort, down, t)

\* Every page is a request: the teacher's classes are read for each anew.
ReadScope ==
  /\ walk.step = "page"
  /\ walk' = IF ~BySession(walk) THEN NoWalk
             ELSE [walk EXCEPT !.scope = IF walk.mine = NoUser THEN {} ELSE ClassesOf(walk.mine),
                               !.step = IF walk.sort = "count" THEN "counts" ELSE "rows"]
  /\ UNCHANGED <<catalogue, clerk, turns>>

ReadRows ==
  /\ walk.step = "rows"
  /\ \E Q \in Pages(walk) :
       walk' = [Showing(Watched(walk), Q) EXCEPT !.step = "total"]
  /\ UNCHANGED <<catalogue, clerk, turns>>

ReadTotal ==
  /\ walk.step = "total"
  /\ walk' = Turned([Watched(walk) EXCEPT !.total = Total(walk)])
  /\ UNCHANGED <<catalogue, clerk, turns>>

\* By count: how often each student was found, or how many in each event, ...
AppearanceCounts == [s \in Students |-> shots[s]]
MatchCounts == [e \in Events |-> shots[e]]

ReadCounts ==
  /\ walk.step = "counts"
  /\ LET counts == IF walk.kind = "students" THEN AppearanceCounts ELSE MatchCounts
     IN walk' = [walk EXCEPT !.keys = [x \in ListRows |->
                                         IF x \in DOMAIN counts THEN counts[x] ELSE 0],
                             !.step = "ids"]
  /\ UNCHANGED <<catalogue, clerk, turns>>

\* ... then all the ids, sorted by that and cut to the page, ...
ScanIds ==
  /\ walk.step = "ids"
  /\ \E Q \in Pages(walk) :
       walk' = [Watched(walk) EXCEPT !.ids = Q, !.total = Total(walk),
                                     !.step = "hydrate"]
  /\ UNCHANGED <<catalogue, clerk, turns>>

\* ... then the rows of those, except what was deleted in between.
RowsOf(ids) == ids \cap There

Hydrate ==
  /\ walk.step = "hydrate"
  /\ walk' = Turned([Showing(Watched(walk), RowsOf(walk.ids)) EXCEPT !.ids = {}])
  /\ UNCHANGED <<catalogue, clerk, turns>>

------------------------------------------------------------------------------
Changes ==
  \/ \E g \in Groups : CreateClass(g) \/ DeleteClass(g)
  \/ \E g \in Groups, S \in (SUBSET Students) \ {{}} : BeginAssign(g, S)
  \/ \E S \in (SUBSET Students) \ {{}} : BeginRemove(S)
  \/ \E e \in Events, g \in Groups \cup {NoGroup} : BeginTag(e, g)
  \/ \E i \in Items : Match(i)
  \/ \E g \in Groups, T \in (SUBSET Teachers) \ {{}} : BeginLink(g, T)
  \/ \E t \in Teachers, g \in Groups : Unlink(t, g)
  \/ \E t \in Teachers, G \in SUBSET Groups : BeginReplace(t, G)

Catalogue ==
  \/ MoreTurns /\ Changes
  \/ AssignStudents
  \/ \E s \in Students : RemoveStudent(s)
  \/ \E e \in Events : TagEvent(e)
  \/ \E t \in Teachers : CheckTeacher(t)
  \/ LinkTeacher
  \/ \E g \in Groups : SiftClass(g)
  \/ ReplaceLinks

\* What a list may be sorted by, as far as the code tells it apart.
Sorts == {"column", "count"}

Lists ==
  \/ \E down \in BOOLEAN : ListStaff(down)
  \/ \E sort \in Sorts, down \in BOOLEAN, t \in Teachers \cup {NoUser} :
       ListStudents(sort, down, t) \/ ListEvents(sort, down, t)

Walk ==
  \/ MoreTurns /\ Lists
  \/ ReadScope \/ ReadRows \/ ReadTotal \/ ReadCounts \/ ScanIds \/ Hydrate

ListingsStep == Catalogue \/ Walk

------------------------------------------------------------------------------
(* Properties.                                                             *)

\* Classes, tags and links name classes that are there, links name
\* teachers who are, and the work on a link has a teacher.
ListingsTyped ==
  /\ groups \in SUBSET Groups
  /\ rows \in [Items -> {"new", "there", "gone"}]
  /\ home \in [Items -> groups \cup {NoGroup}]
  /\ links \subseteq {t \in Teachers : Exists(t)} \X groups
  /\ shots \in [Items -> 0..1]
  /\ clerk.group \in Groups \cup {NoGroup} /\ clerk.fresh \subseteq Groups
  /\ clerk.step \in {"link", "sift"} => clerk.who \in Teachers /\ Exists(clerk.who)
  /\ walk.ids \subseteq Items /\ walk.scope \subseteq Groups
  /\ turns \in 0..MaxTurns

\* Whatever happens between and within the requests for its pages, a list that is read
\* until the client stops leaves out nobody, unless someone ahead of them has left it or they
\* have moved up themselves, or they stand further down by then than the list was long when
\* it was begun; and it shows nobody twice, unless someone has come in ahead of them or they
\* have moved down.
PagesMissNobody ==
  \A x \in ListRows :
    /\ walk.step = "done" /\ x \notin walk.fell => walk.shown[x] >= 1 \/ x \in walk.beyond
    /\ x \notin walk.rose => walk.shown[x] <= 1

\* A list is read until every row is loaded: who never moved up is shown by then.
ReadsEveryRow ==
  \A x \in ListRows : walk.step = "done" /\ x \notin walk.fell => walk.shown[x] >= 1
=============================================================================
