-------------------------------- MODULE Office --------------------------------
(***************************************************************************)
(* The office's work on many students at once: importing a sheet of them,  *)
(* enabling and disabling their logins, sending new passwords, deleting    *)
(* them; each row for itself, each answered for itself.  Beside it the two *)
(* logs an administrator exports: who did what to whom, and who saved      *)
(* photos of whom.                                                         *)
(*                                                                         *)
(* A student stands for the login, the profile and the address; one that   *)
(* was deleted is not imported again.  One operation is a bulk one of one  *)
(* row.  What becomes of photos, embeddings and matches is in              *)
(* StudentLifecycle.                                                       *)
(***************************************************************************)
EXTENDS Listings, Sequences

CONSTANTS
  Names, NameOf,   \* what classes are called
  Sheets,          \* what may be imported: sequences of rows
  Picks,           \* what may be selected: sequences of students
  MaxJobs,         \* bound on the bulk operations, downloads and exports begun
  MaxSlips         \* bound on the statements that fail and the requests that die

NoName == "no class"
SheetRows == [who : Students, class : Names \cup {NoName}, valid : BOOLEAN]

ASSUME NamesAssumption == NameOf \in [Groups -> Names] /\ NoName \notin Names
ASSUME SheetsAssumption ==
  /\ \A q \in Sheets : q \in Seq(SheetRows) /\ q # <<>>
  /\ \A q \in Picks : q \in Seq(Students) /\ q # <<>>
ASSUME OfficeBoundsAssumption == MaxJobs \in Nat /\ MaxSlips \in Nat

VARIABLES
  pupils,  \* per student the login, or NoRow
  desk,    \* per slot, the bulk operation and its locals
  trail,   \* the log of administrators' actions, oldest first
  saves,   \* the log of downloads: of whose photos, NoUser if of nobody's own
  scroll,  \* an export of one of the two
  jobs,
  \* What happened, for the properties; the code keeps none of it but in its own log.
  deeds,   \* per row, what was written
  slips,   \* what failed
  handed,  \* the passwords that were answered
  swapped  \* students changed between another's change and its entry in the log

office == <<pupils, desk, trail, saves, scroll, deeds, slips, handed, swapped>>

\* A password, like a row of a batch, is named by the batch and the place in it.
Keys == (0..MaxJobs) \X Nat
TrailRows ==
  [what : {"created", "enabled", "disabled", "resent", "deleted"}, who : Students]
Pupils == [active : BOOLEAN, pw : Keys, seen : BOOLEAN]
ASSUME NoPupilAssumption == NoRow \notin Pupils

Enrolled == {s \in Students : rows[s] = "there"}

NoBatch == [kind |-> "none", step |-> "idle", job |-> 0, list |-> <<>>, active |-> FALSE,
            cache |-> [n \in Names |-> NoGroup], answers |-> <<>>]

NoScroll == [log |-> "none", who |-> NoUser, step |-> "idle", page |-> 0, due |-> {},
             seen |-> {}, got |-> 0]

\* The students there have been entered, one after the other.
OfficeInit ==
  /\ pupils = [s \in Students |-> IF rows[s] = "there"
                 THEN [active |-> TRUE, pw |-> <<0, 0>>, seen |-> FALSE] ELSE NoRow]
  /\ desk = [r \in Requests |-> NoBatch]
  /\ \E q \in [1..Cardinality(Enrolled) -> Enrolled] :
       /\ \A i, j \in DOMAIN q : q[i] = q[j] => i = j
       /\ trail = [i \in DOMAIN q |-> [what |-> "created", who |-> q[i]]]
  /\ saves \in UNION {[1..n -> Enrolled \cup {NoUser}] : n \in 0..2}
  /\ scroll = NoScroll
  /\ jobs \in 0..MaxJobs
  /\ deeds = {} /\ slips = {} /\ handed = {} /\ swapped = {}

------------------------------------------------------------------------------
(* A batch.                                                                *)

Job == jobs' = jobs + 1
MoreJobs == jobs < MaxJobs
AtWork(r) == desk[r].step \notin {"idle", "done"}

Row(r) == Head(desk[r].list)
Who(r) == Row(r).who
Key(r) == <<desk[r].job, Len(desk[r].answers) + 1>>
At(r, step) == desk[r].step = step
Step(r, step) == desk' = [desk EXCEPT ![r].step = step] /\ UNCHANGED handed

FirstStep(kind) == IF kind = "import" THEN "login" ELSE "find"

\* The row is answered and the next one begun; with the last one all answers are given.
Answer(r, said) ==
  LET b == desk[r]
      all == Append(b.answers, [who |-> Who(r), said |-> said, key |-> Key(r)])
  IN IF Len(b.list) = 1
       THEN /\ desk' = [desk EXCEPT ![r] = [NoBatch EXCEPT !.step = "done", !.answers = all]]
            /\ handed' = handed \cup
                 {all[i].key : i \in {i \in DOMAIN all : all[i].said \in {"created", "sent"}}}
       ELSE /\ desk' = [desk EXCEPT ![r].list = Tail(b.list), ![r].answers = all,
                                    ![r].step = FirstStep(b.kind)]
            /\ UNCHANGED handed

What(r) ==
  CASE desk[r].kind = "import" -> "created"
    [] desk[r].kind = "status" -> IF desk[r].active THEN "enabled" ELSE "disabled"
    [] desk[r].kind = "resend" -> "resent"
    [] OTHER -> "deleted"

Deed(r) ==
  /\ deeds' = deeds \cup {[key |-> Key(r), who |-> Who(r), what |-> What(r)]}
  /\ swapped' = IF \E o \in Requests \ {r} : At(o, "audit") /\ Who(o) = Who(r)
                  THEN swapped \cup {Who(r)} ELSE swapped
NoDeed == UNCHANGED <<deeds, swapped>>

\* A profile that fails is not counted, so that its repair can fail too.
Mishap(r, died) ==
  /\ Cardinality({l \in slips : l.died \/ l.step # "profile"}) < MaxSlips
  /\ slips' = slips \cup
       {[key |-> Key(r), who |-> Who(r), step |-> desk[r].step, died |-> died]}
Slip(r) == Mishap(r, FALSE)

BeginBatch(r, kind, list, active, cache) ==
  /\ Job /\ Permitted("student:manage")
  /\ desk' = [desk EXCEPT ![r] = [NoBatch EXCEPT !.kind = kind, !.step = FirstStep(kind),
                !.job = jobs', !.list = list, !.active = active, !.cache = cache]]
  /\ UNCHANGED <<catalogue, pupils, trail, saves, scroll, deeds, slips, handed, swapped>>

Called(n) == {g \in groups : NameOf[g] = n}

\* A sheet is imported: the school is looked at once, and so are the classes there are.
BeginImport(r, sheet) ==
  /\ school.active
  /\ \E cache \in [Names -> groups \cup {NoGroup}] :
       /\ \A n \in Names :
            IF Called(n) = {} THEN cache[n] = NoGroup ELSE cache[n] \in Called(n)
       /\ BeginBatch(r, "import", sheet, FALSE, cache)

\* Students that were selected, on whatever page or by whatever filter, are enabled or
\* disabled, sent a password or deleted.
BeginBulk(r, kind, pick, active) ==
  /\ kind # "status" => ~active
  /\ BeginBatch(r, kind,
       [i \in DOMAIN pick |-> [who |-> pick[i], class |-> NoName, valid |-> TRUE]],
       active, NoBatch.cache)

\* A statement fails before it has done anything: the row is in error, the batch goes on.
FailRow(r) ==
  /\ desk[r].step \in {"login", "find", "write", "erase", "drop", "reread"}
  /\ Slip(r)
  /\ Answer(r, "error")
  /\ NoDeed
  /\ UNCHANGED <<catalogue, pupils, trail, saves, scroll, jobs>>

\* The request dies, and with it all its answers.
Break(r) ==
  /\ Mishap(r, TRUE)
  /\ desk' = [desk EXCEPT ![r] = NoBatch]
  /\ NoDeed
  /\ UNCHANGED <<catalogue, pupils, trail, saves, scroll, jobs, handed>>

\* What was done, to whom.
Entered(r) == Append(trail, [what |-> What(r), who |-> Who(r)])

\* A mutant: a failed entry fails the row.
AuditStrictly(r) ==
  /\ At(r, "audit")
  /\ \/ /\ trail' = Entered(r)
        /\ UNCHANGED slips
        /\ CASE desk[r].kind = "import" /\ Row(r).class # NoName -> Step(r, "class")
             [] desk[r].kind = "import" -> Answer(r, "created")
             [] desk[r].kind = "status" -> Step(r, "reread")
             [] desk[r].kind = "resend" -> Answer(r, "sent")
             [] OTHER -> Answer(r, "ok")
     \/ Slip(r) /\ UNCHANGED trail /\ Answer(r, "error")
  /\ NoDeed
  /\ UNCHANGED <<catalogue, pupils, saves, scroll, jobs>>

\* What was done is entered in the log if that works, and the row goes on either way.
Audit(r) ==
  /\ At(r, "audit")
  /\ \/ trail' = Entered(r) /\ UNCHANGED slips
     \/ Slip(r) /\ UNCHANGED trail
  /\ CASE desk[r].kind = "import" /\ Row(r).class # NoName -> Step(r, "class")
       [] desk[r].kind = "import" -> Answer(r, "created")
       [] desk[r].kind = "status" -> Step(r, "reread")
       [] desk[r].kind = "resend" -> Answer(r, "sent")
       [] OTHER -> Answer(r, "ok")
  /\ NoDeed
  /\ UNCHANGED <<catalogue, pupils, saves, scroll, jobs>>

------------------------------------------------------------------------------
(* A row of a sheet.                                                       *)

\* The login first: a row that is malformed or whose address is taken writes nothing.
CreateLogin(r) ==
  /\ At(r, "login")
  /\ Row(r).valid => rows[Who(r)] # "gone"
  /\ IF ~Row(r).valid THEN Answer(r, "invalid") /\ UNCHANGED pupils
     ELSE IF pupils[Who(r)] # NoRow THEN Answer(r, "duplicate") /\ UNCHANGED pupils
     ELSE /\ pupils' = [pupils EXCEPT ![Who(r)] =
                          [active |-> TRUE, pw |-> Key(r), seen |-> FALSE]]
          /\ Step(r, "profile")
  /\ NoDeed
  /\ UNCHANGED <<catalogue, trail, saves, scroll, slips, jobs>>

\* Then the profile; if that fails the login is taken back, ...
CreateProfile(r) ==
  /\ At(r, "profile")
  /\ \/ rows' = [rows EXCEPT ![Who(r)] = "there"] /\ Deed(r) /\ Step(r, "audit")
        /\ UNCHANGED slips
     \/ Slip(r) /\ Step(r, "undo") /\ UNCHANGED rows /\ NoDeed
  /\ UNCHANGED <<groups, home, links, shots, pupils, trail, saves, scroll, jobs>>

\* ... if that works.
UndoLogin(r) ==
  /\ At(r, "undo")
  /\ \/ pupils' = [pupils EXCEPT ![Who(r)] = NoRow] /\ UNCHANGED slips
     \/ Slip(r) /\ UNCHANGED pupils
  /\ Answer(r, "error")
  /\ NoDeed
  /\ UNCHANGED <<catalogue, trail, saves, scroll, jobs>>

\* The class of that name, made if the batch knows of none; the student is there already
\* and is answered so whatever happens to the class.
ResolveClass(r) ==
  /\ At(r, "class")
  /\ LET n == Row(r).class
     IN \/ /\ desk[r].cache[n] # NoGroup
           /\ Step(r, "assign")
           /\ UNCHANGED <<groups, slips>>
        \/ /\ desk[r].cache[n] = NoGroup
           /\ \E g \in Groups \ groups :
                /\ NameOf[g] = n
                /\ groups' = groups \cup {g}
                /\ desk' = [desk EXCEPT ![r].cache[n] = g, ![r].step = "assign"]
           /\ UNCHANGED <<handed, slips>>
        \/ /\ desk[r].cache[n] = NoGroup
           /\ Slip(r) /\ Answer(r, "created")
           /\ UNCHANGED groups
  /\ NoDeed
  /\ UNCHANGED <<rows, home, links, shots, pupils, trail, saves, scroll, jobs>>

\* A class or a student deleted meanwhile fails the assignment.
AssignClass(r) ==
  /\ At(r, "assign")
  /\ LET g == desk[r].cache[Row(r).class]
     IN \/ /\ home' = IF g \in groups /\ rows[Who(r)] = "there"
                        THEN [home EXCEPT ![Who(r)] = g] ELSE home
           /\ UNCHANGED slips
        \/ Slip(r) /\ UNCHANGED home
  /\ Answer(r, "created")
  /\ NoDeed
  /\ UNCHANGED <<groups, rows, links, shots, pupils, trail, saves, scroll, jobs>>

------------------------------------------------------------------------------
(* A row of a selection.                                                   *)

\* A student who is not there is an error; one who has the status already is left alone.
FindStudent(r) ==
  /\ At(r, "find")
  /\ IF rows[Who(r)] # "there" THEN Answer(r, "error")
     ELSE IF desk[r].kind = "delete" THEN Step(r, "erase")
     ELSE IF desk[r].kind = "status" /\ pupils[Who(r)].active = desk[r].active
       THEN Step(r, "reread")
     ELSE Step(r, "write")
  /\ NoDeed
  /\ UNCHANGED <<catalogue, pupils, trail, saves, scroll, slips, jobs>>

\* A mutant: the change is not entered in the log.
WriteStatusSilently(r) ==
  /\ At(r, "write") /\ desk[r].kind = "status"
  /\ IF pupils[Who(r)] = NoRow THEN Answer(r, "error") /\ NoDeed /\ UNCHANGED pupils
     ELSE /\ pupils' = [pupils EXCEPT ![Who(r)].active = desk[r].active]
          /\ Deed(r) /\ Step(r, "reread")
  /\ UNCHANGED <<catalogue, trail, saves, scroll, slips, jobs>>

WriteStatus(r) ==
  /\ At(r, "write") /\ desk[r].kind = "status"
  /\ IF pupils[Who(r)] = NoRow THEN Answer(r, "error") /\ NoDeed /\ UNCHANGED pupils
     ELSE /\ pupils' = [pupils EXCEPT ![Who(r)].active = desk[r].active]
          /\ Deed(r) /\ Step(r, "audit")
  /\ UNCHANGED <<catalogue, trail, saves, scroll, slips, jobs>>

\* The status is answered as it is read then: a student deleted meanwhile is an error.
Reread(r) ==
  /\ At(r, "reread")
  /\ Answer(r, IF rows[Who(r)] = "there" THEN "ok" ELSE "error")
  /\ NoDeed
  /\ UNCHANGED <<catalogue, pupils, trail, saves, scroll, slips, jobs>>

WritePassword(r) ==
  /\ At(r, "write") /\ desk[r].kind = "resend"
  /\ IF pupils[Who(r)] = NoRow THEN Answer(r, "error") /\ NoDeed /\ UNCHANGED pupils
     ELSE /\ pupils' = [pupils EXCEPT ![Who(r)].pw = Key(r)]
          /\ Deed(r) /\ Step(r, "audit")
  /\ UNCHANGED <<catalogue, trail, saves, scroll, slips, jobs>>

\* The ML service has erased the student; the rows are next.
Erase(r) ==
  /\ At(r, "erase")
  /\ Step(r, "drop")
  /\ NoDeed
  /\ UNCHANGED <<catalogue, pupils, trail, saves, scroll, slips, jobs>>

\* The login goes and takes the profile with it, and downloads forget whose they were;
\* a second delete finds nothing to do and is entered all the same.
Drop(r) ==
  /\ At(r, "drop")
  /\ pupils' = [pupils EXCEPT ![Who(r)] = NoRow]
  /\ rows' = [rows EXCEPT ![Who(r)] = "gone"]
  /\ home' = [home EXCEPT ![Who(r)] = NoGroup]
  /\ saves' = [i \in DOMAIN saves |-> IF saves[i] = Who(r) THEN NoUser ELSE saves[i]]
  /\ IF pupils[Who(r)] = NoRow THEN NoDeed ELSE Deed(r)
  /\ Step(r, "audit")
  /\ UNCHANGED <<groups, links, shots, trail, scroll, slips, jobs>>

------------------------------------------------------------------------------
(* The logs.                                                               *)

\* A student saves a photo of their own, or staff one of anybody's.
Save(s) ==
  /\ Job
  /\ s \in Enrolled \cup {NoUser}
  /\ saves' = Append(saves, s)
  /\ UNCHANGED <<catalogue, pupils, desk, trail, scroll, deeds, slips, handed, swapped>>

\* What the filter lets through, of the one log and of the other.
Actions(w) == {i \in DOMAIN trail : w.who \in {NoUser, trail[i].who}}
Downloads(w) == {i \in DOMAIN saves : w.who \in {NoUser, saves[i]}}
Entries(w) == IF w.log = "actions" THEN Actions(w) ELSE Downloads(w)

\* A page, the newest first.
Newest(w) ==
  LET E == Entries(w)
      newer(i) == Cardinality({j \in E : j > i})
  IN {i \in E : newer(i) >= w.page * PageSize /\ newer(i) < (w.page + 1) * PageSize}

BeginExport(log, s) ==
  /\ Job /\ Permitted("audit:view") /\ scroll.step \in {"idle", "done"}
  /\ LET w == [NoScroll EXCEPT !.log = log, !.who = s, !.step = "rows"]
     IN scroll' = [w EXCEPT !.due = Entries(w)]
  /\ UNCHANGED <<catalogue, pupils, desk, trail, saves, deeds, slips, handed, swapped>>

ReadEntries ==
  /\ scroll.step = "rows"
  /\ LET Q == Newest(scroll)
     IN scroll' = [scroll EXCEPT !.seen = @ \cup Q, !.got = Cardinality(Q), !.step = "total"]
  /\ UNCHANGED <<catalogue, pupils, desk, trail, saves, jobs, deeds, slips, handed, swapped>>

\* The export ends with a page that is not full or has reached the total it came with.
Exhausted(w, total) == w.got < PageSize \/ (w.page + 1) * PageSize >= total

CountEntries ==
  /\ scroll.step = "total"
  /\ scroll' = IF Exhausted(scroll, Cardinality(Entries(scroll)))
                 THEN [scroll EXCEPT !.step = "done"]
                 ELSE [scroll EXCEPT !.step = "rows", !.page = @ + 1]
  /\ UNCHANGED <<catalogue, pupils, desk, trail, saves, jobs, deeds, slips, handed, swapped>>

------------------------------------------------------------------------------
(* One student created or deleted, the whole of StudentLifecycle in one step. *)

Overtaking(s) ==
  swapped' = IF \E o \in Requests : At(o, "audit") /\ Who(o) = s THEN swapped \cup {s}
             ELSE swapped

CreateStudent(s) ==
  /\ Enter(s)
  /\ pupils[s] = NoRow
  /\ pupils' = [pupils EXCEPT ![s] = [active |-> TRUE, pw |-> <<0, 0>>, seen |-> FALSE]]
  /\ trail' = Append(trail, [what |-> "created", who |-> s])
  /\ Overtaking(s)
  /\ UNCHANGED <<desk, saves, scroll, jobs, deeds, slips, handed>>

DeleteStudent(s) ==
  /\ Delete(s)
  /\ pupils' = [pupils EXCEPT ![s] = NoRow]
  /\ saves' = [i \in DOMAIN saves |-> IF saves[i] = s THEN NoUser ELSE saves[i]]
  /\ trail' = Append(trail, [what |-> "deleted", who |-> s])
  /\ Overtaking(s)
  /\ UNCHANGED <<desk, scroll, jobs, deeds, slips, handed>>

------------------------------------------------------------------------------
Asks(r) ==
  \/ \E sheet \in Sheets : BeginImport(r, sheet)
  \/ \E kind \in {"status", "resend", "delete"}, pick \in Picks, active \in BOOLEAN :
       BeginBulk(r, kind, pick, active)

Works(r) ==
  \/ FailRow(r) \/ Break(r) \/ Audit(r)
  \/ CreateLogin(r) \/ CreateProfile(r) \/ UndoLogin(r) \/ ResolveClass(r) \/ AssignClass(r)
  \/ FindStudent(r) \/ WriteStatus(r) \/ Reread(r) \/ WritePassword(r) \/ Erase(r) \/ Drop(r)

Batch(r) == IF AtWork(r) THEN Works(r) ELSE MoreJobs /\ Asks(r)

Logs ==
  \/ MoreJobs /\ \E s \in Students \cup {NoUser} :
       Save(s) \/ \E log \in {"actions", "downloads"} : BeginExport(log, s)
  \/ ReadEntries \/ CountEntries

OfficeStep ==
  \/ (Logs \/ \E r \in Requests : Batch(r)) /\ UNCHANGED <<clerk, walk, turns>>
  \/ MoreTurns /\ \E s \in Students : CreateStudent(s) \/ DeleteStudent(s)

------------------------------------------------------------------------------
(* Properties.                                                             *)

OfficeTyped ==
  /\ pupils \in [Students -> Pupils \cup {NoRow}]
  /\ \A s \in Students : rows[s] = "there" => pupils[s] # NoRow
  /\ \A r \in Requests :
       /\ desk[r].cache \in [Names -> Groups \cup {NoGroup}]
       /\ desk[r].step \notin {"idle", "done"} => desk[r].list # <<>>
  /\ trail \in Seq(TrailRows) /\ \A i \in DOMAIN trail : rows[trail[i].who] # "new"
  /\ \A i \in DOMAIN saves : saves[i] \in Enrolled \cup {NoUser}
  /\ jobs \in 0..MaxJobs

Slipped(key, steps) == \E l \in slips : l.key = key /\ l.step \in steps
Written(key) == \E d \in deeds : d.key = key

\* Every answer of a bulk operation tells what its row came to, whatever else fails or goes
\* on beside it.  A student answered as created, or as sent a password, was; a row answered
\* otherwise wrote nothing, except a status of a student deleted before it was read back, or
\* read back in vain.  No student has a password that nobody was shown, and none a login
\* without a profile, unless the request died or the repair failed.
AnswersAreTrue ==
  /\ \A r \in Requests : \A i \in DOMAIN desk[r].answers :
       LET a == desk[r].answers[i]
       IN CASE a.said \in {"created", "sent"} -> Written(a.key)
            [] a.said \in {"duplicate", "invalid"} -> ~Written(a.key)
            [] a.said = "error" ->
                 Written(a.key) => rows[a.who] = "gone" \/ Slipped(a.key, {"reread"})
            [] OTHER -> TRUE
  /\ \A s \in Students :
       LET pw == pupils[s].pw
       IN pupils[s] # NoRow /\ pw[1] > 0 =>
            \/ rows[s] = "there" /\ pw \in handed
            \/ \E r \in Requests : desk[r].job = pw[1]
            \/ \E l \in slips : l.key[1] = pw[1] /\ l.died
            \/ Slipped(pw, {"undo"})

Told(s) == {i \in DOMAIN trail : trail[i].who = s /\ trail[i].what # "resent"}
LastTold(s) == CHOOSE i \in Told(s) : \A j \in Told(s) : j <= i

\* The log of actions tells how every student stands: its last word on them is that they
\* were deleted if they are gone, and otherwise enabled or disabled as they are.  It is late
\* by the entry under way, and may be wrong where an entry failed, where the request died
\* before it, or where another change came between a change and its entry.  And an export of
\* either log, read page by page while entries come in and students go, has every entry that
\* was there when it began.
TrailIsTrue ==
  /\ \A s \in Students \ swapped :
       /\ rows[s] # "new"
       /\ \A r \in Requests : ~(At(r, "audit") /\ Who(r) = s)
       /\ \A l \in slips : l.who = s => l.step # "audit"
       => /\ Told(s) # {}
          /\ trail[LastTold(s)].what \in
               IF rows[s] = "gone" THEN {"deleted"}
               ELSE IF pupils[s].active THEN {"created", "enabled"} ELSE {"disabled"}
  /\ scroll.step = "done" => scroll.due \cap Entries(scroll) \subseteq scroll.seen
=============================================================================
