------------------------------- MODULE Accounts -------------------------------
(***************************************************************************)
(* A school's staff: its administrators and teachers, their passwords and  *)
(* the sessions that are honoured, the cap on teachers and the guard of    *)
(* the last administrator.                                                 *)
(*                                                                         *)
(* One action is the code between two awaits.  What a request has read it  *)
(* keeps in its locals, and other requests run in between.  Passwords are  *)
(* numbers, each issued or chosen once; a token stands for its pair, and a *)
(* refresh answers the pair it was asked with (same user, same version).   *)
(***************************************************************************)
EXTENDS Integers, FiniteSets

CONSTANTS
  Admins, Teachers,  \* the addresses that may become accounts, by role
  Requests,          \* slots for requests, each serving one at a time
  Caps,              \* the values the platform may give max_teachers
  NoUser, NoRow,
  MaxMoves           \* bound on the requests and changes begun, some before we look

Users == Admins \cup Teachers

ASSUME UsersAssumption ==
  /\ Admins \cap Teachers = {} /\ NoUser \notin Users
  /\ IsFiniteSet(Teachers) /\ IsFiniteSet(Admins) /\ IsFiniteSet(Requests)
ASSUME CapsAssumption == Caps \subseteq Nat \ {0}
ASSUME BoundAssumption == MaxMoves \in Nat

VARIABLES
  school,   \* active and max_teachers
  users,    \* per address, the row of the account
  issued,   \* the last password issued or chosen
  tokens,   \* the sessions handed out
  req,      \* per slot, the request and its locals
  \* What happened, for the properties; the code keeps none of it.
  latest,   \* per account, the password last set for it
  crossed,  \* what overlapped: counting creations, counting disablings, password writes
  peak,     \* the highest cap so far
  moves

accounts == <<school, users, issued, tokens, req, latest, crossed, peak>>

Rows == [active : BOOLEAN, pw : Nat, tv : Nat, old : BOOLEAN, seen : Nat]
ASSUME NoRowAssumption == NoRow \notin Rows

Tokens == [user : Users, tv : Nat, pw : Nat]

Exists(u) == users[u] # NoRow
ActiveAdmins == {u \in Admins : Exists(u) /\ users[u].active}
TeachersThere == {u \in Teachers : Exists(u)}

\* A token is honoured: the account is active and its version is the row's.
Accepts(t) == Exists(t.user) /\ users[t.user].active /\ t.tv = users[t.user].tv

\* What a role may do, of what is asked for here.
Grants(u) ==
  {"student:manage", "event:manage"}
    \cup IF u \in Admins THEN {"staff:manage", "class:manage", "audit:view"} ELSE {}

\* An operation is asked for in a session that is honoured and has the permission.
Permitted(p) == \E t \in tokens : p \in Grants(t.user) /\ Accepts(t)

NewRow(pw) == [active |-> TRUE, pw |-> pw, tv |-> 0, old |-> FALSE, seen |-> 0]

NoRequest ==
  [kind |-> "none", step |-> "idle", user |-> NoUser, queue |-> {}, mark |-> 0,
   active |-> FALSE, offer |-> 0, fresh |-> 0, tv |-> 0]

\* Some staff are there and signed in, and some of their hashes may be out of date.
AccountsInit ==
  /\ \E cap \in Caps, staff \in SUBSET Users, old \in SUBSET Users :
       /\ staff \cap Admins # {} /\ old \subseteq staff
       /\ Cardinality(staff \cap Teachers) <= cap
       /\ school = [active |-> TRUE, cap |-> cap]
       /\ peak = cap
       /\ users = [u \in Users |-> IF u \in staff THEN [NewRow(0) EXCEPT !.old = u \in old]
                                  ELSE NoRow]
       /\ tokens = {[user |-> u, tv |-> 0, pw |-> 0] : u \in staff}
  /\ issued = 0
  /\ req = [r \in Requests |-> NoRequest]
  /\ latest = [u \in Users |-> 0]
  /\ crossed = {}
  /\ moves \in 0..MaxMoves

------------------------------------------------------------------------------
(* The locals of a request.                                                *)

Free(r) == moves < MaxMoves /\ req[r].step = "idle"

Begin(r, q) == moves' = moves + 1 /\ req' = [req EXCEPT ![r] = q]

To(r, step) == req' = [req EXCEPT ![r].step = step]

Done(r) == req' = [req EXCEPT ![r] = NoRequest]

\* On to the next address of the list, or done.
Following(r) ==
  IF req[r].queue = {} THEN Done(r)
  ELSE req' = [req EXCEPT ![r].step = "school", ![r].user = NoUser]

Others(r, steps) == {o \in Requests \ {r} : req[o].step \in steps}

------------------------------------------------------------------------------
(* New accounts.                                                           *)

\* Invite a teacher, or several at once, which a suspended school refuses altogether.
BeginTeachers(r, Q) ==
  /\ Permitted("staff:manage")
  /\ school.active
  /\ Begin(r, [NoRequest EXCEPT !.kind = "teachers", !.queue = Q, !.step = "school"])
  /\ UNCHANGED <<school, users, issued, tokens, latest, crossed, peak>>

\* The school is read for each teacher anew.
ReadSchool(r, u) ==
  /\ req[r].step = "school" /\ u \in req[r].queue
  /\ LET rest == req[r].queue \ {u}
     IN IF school.active
          THEN req' = [req EXCEPT ![r].queue = rest, ![r].user = u,
                                  ![r].mark = school.cap, ![r].step = "count"]
          ELSE IF rest = {} THEN Done(r)
          ELSE req' = [req EXCEPT ![r].queue = rest]
  /\ UNCHANGED <<school, users, issued, tokens, latest, crossed, peak, moves>>

\* A mutant: one too many.
CountTeachersBeyond(r) ==
  /\ req[r].step = "count"
  /\ IF Cardinality(TeachersThere) > req[r].mark
       THEN Following(r) /\ UNCHANGED crossed
       ELSE /\ To(r, "insert")
            /\ crossed' = IF \E o \in Others(r, {"insert"}) : req[o].kind = "teachers"
                            THEN crossed \cup {"creations"} ELSE crossed
  /\ UNCHANGED <<school, users, issued, tokens, latest, peak, moves>>

\* Teachers are counted, disabled ones too; at the cap this one is turned down.
CountTeachers(r) ==
  /\ req[r].step = "count"
  /\ IF Cardinality(TeachersThere) >= req[r].mark
       THEN Following(r) /\ UNCHANGED crossed
       ELSE /\ To(r, "insert")
            /\ crossed' = IF \E o \in Others(r, {"insert"}) : req[o].kind = "teachers"
                            THEN crossed \cup {"creations"} ELSE crossed
  /\ UNCHANGED <<school, users, issued, tokens, latest, peak, moves>>

\* The platform invites an administrator: the school is there, and there is no cap.
BeginAdmin(r, u) ==
  /\ Begin(r, [NoRequest EXCEPT !.kind = "admin", !.user = u, !.step = "insert"])
  /\ UNCHANGED <<school, users, issued, tokens, latest, crossed, peak>>

\* The row, with a password shown once; an address that is taken is a conflict.
Insert(r) ==
  /\ req[r].step = "insert"
  /\ LET u == req[r].user
     IN IF Exists(u)
          THEN UNCHANGED <<users, issued, latest>>
          ELSE /\ issued' = issued + 1
               /\ users' = [users EXCEPT ![u] = NewRow(issued')]
               /\ latest' = [latest EXCEPT ![u] = issued']
  /\ Following(r)
  /\ UNCHANGED <<school, tokens, crossed, peak, moves>>

\* The platform suspends the school, brings it back or changes its cap, below the number
\* of its teachers if need be.
UpdateSchool ==
  /\ moves < MaxMoves /\ moves' = moves + 1
  /\ \/ school' = [school EXCEPT !.active = ~@] /\ UNCHANGED peak
     \/ \E cap \in Caps \ {school.cap} :
          /\ school' = [school EXCEPT !.cap = cap]
          /\ peak' = IF cap > peak THEN cap ELSE peak
  /\ UNCHANGED <<users, issued, tokens, req, latest, crossed>>

------------------------------------------------------------------------------
(* Accounts are disabled and enabled.                                      *)

\* An account that has the status already is left alone; a teacher's is an admin's matter.
BeginStatus(r, u, active) ==
  /\ u \in Teachers => Permitted("staff:manage")
  /\ Exists(u) /\ users[u].active # active
  /\ Begin(r, [NoRequest EXCEPT !.kind = "status", !.user = u, !.active = active,
                 !.step = IF u \in Admins /\ ~active THEN "guard" ELSE "status"])
  /\ UNCHANGED <<school, users, issued, tokens, latest, crossed, peak>>

\* A mutant: disabled administrators count as well.
GuardLastAdminOfAll(r) ==
  /\ req[r].step = "guard"
  /\ IF Cardinality({u \in Admins : Exists(u)}) <= 1
       THEN Done(r) /\ UNCHANGED crossed
       ELSE /\ To(r, "status")
            /\ crossed' = IF \E o \in Others(r, {"status"}) : req[o].user \in Admins
                            THEN crossed \cup {"disablings"} ELSE crossed
  /\ UNCHANGED <<school, users, issued, tokens, latest, peak, moves>>

\* The last active administrator is not disabled.
GuardLastAdmin(r) ==
  /\ req[r].step = "guard"
  /\ IF Cardinality(ActiveAdmins) <= 1
       THEN Done(r) /\ UNCHANGED crossed
       ELSE /\ To(r, "status")
            /\ crossed' = IF \E o \in Others(r, {"status"}) : req[o].user \in Admins
                            THEN crossed \cup {"disablings"} ELSE crossed
  /\ UNCHANGED <<school, users, issued, tokens, latest, peak, moves>>

SetStatus(r) ==
  /\ req[r].step = "status"
  /\ users' = [users EXCEPT ![req[r].user].active = req[r].active]
  /\ Done(r)
  /\ UNCHANGED <<school, issued, tokens, latest, crossed, peak, moves>>

------------------------------------------------------------------------------
(* Passwords and sessions.                                                 *)

\* A new temporary password for an account, whether or not it ever signed in.
BeginResend(r, u) ==
  /\ u \in Teachers => Permitted("staff:manage")
  /\ Exists(u)
  /\ issued' = issued + 1
  /\ Begin(r, [NoRequest EXCEPT !.kind = "resend", !.user = u, !.fresh = issued',
                                !.step = "load"])
  /\ UNCHANGED <<school, users, tokens, latest, crossed, peak>>

\* A login reads the row and checks the password offered; an out-of-date hash is renewed
\* on the way.
BeginLogin(r, u, pw) ==
  /\ Exists(u) /\ users[u].active /\ users[u].pw = pw
  /\ Begin(r, [NoRequest EXCEPT !.kind = "login", !.user = u, !.offer = pw, !.fresh = pw,
                 !.tv = users[u].tv, !.step = IF users[u].old THEN "load" ELSE "touch"])
  /\ UNCHANGED <<school, users, issued, tokens, latest, crossed, peak>>

\* A session's holder asks for a new password, offering the one they know.
BeginChange(r, t) ==
  /\ t \in tokens /\ Accepts(t)
  /\ issued' = issued + 1
  /\ Begin(r, [NoRequest EXCEPT !.kind = "change", !.user = t.user, !.offer = t.pw,
                                !.fresh = issued', !.step = "verify"])
  /\ UNCHANGED <<school, users, tokens, latest, crossed, peak>>

\* The row is read again, and the password checked against that.
Verify(r) ==
  /\ req[r].step = "verify"
  /\ LET row == users[req[r].user]
     IN IF row.active /\ row.pw = req[r].offer THEN To(r, "load") ELSE Done(r)
  /\ UNCHANGED <<school, users, issued, tokens, latest, crossed, peak, moves>>

\* set_password loads the row ...
LoadRow(r) ==
  /\ req[r].step = "load"
  /\ req' = [req EXCEPT ![r].step = "store", ![r].mark = users[req[r].user].tv]
  /\ UNCHANGED <<school, users, issued, tokens, latest, crossed, peak, moves>>

\* A mutant: a reset does not move the version on.
StoredWithoutBump(r) ==
  [users[req[r].user] EXCEPT !.pw = req[r].fresh, !.old = FALSE]

\* ... and writes the hash, and the version it has loaded plus one, unless this is a login
\* renewing the hash.
Stored(r) ==
  LET row == [users[req[r].user] EXCEPT !.pw = req[r].fresh, !.old = FALSE]
  IN IF req[r].kind = "login" THEN row ELSE [row EXCEPT !.tv = req[r].mark + 1]

StoreRow(r) ==
  /\ req[r].step = "store"
  /\ users' = [users EXCEPT ![req[r].user] = Stored(r)]
  /\ latest' = IF req[r].kind = "login" THEN latest
               ELSE [latest EXCEPT ![req[r].user] = req[r].fresh]
  /\ crossed' = IF \E o \in Others(r, {"load", "store", "reload"}) : req[o].user = req[r].user
                  THEN crossed \cup {"passwords"} ELSE crossed
  /\ CASE req[r].kind = "change" -> To(r, "reload")
       [] req[r].kind = "login" -> To(r, "touch")
       [] OTHER -> Done(r)
  /\ UNCHANGED <<school, issued, tokens, peak, moves>>

\* The changer's own session goes on under the new version, as the row has it now.
Reload(r) ==
  /\ req[r].step = "reload"
  /\ tokens' = tokens \cup {[user |-> req[r].user, tv |-> users[req[r].user].tv,
                             pw |-> req[r].fresh]}
  /\ Done(r)
  /\ UNCHANGED <<school, users, issued, latest, crossed, peak, moves>>

\* The sign-in is stamped, if that works, and a session issued for the row read first.
SignIn(r) ==
  /\ req[r].step = "touch"
  /\ users' \in {users, [users EXCEPT ![req[r].user].seen = moves]}
  /\ tokens' = tokens \cup {[user |-> req[r].user, tv |-> req[r].tv, pw |-> req[r].offer]}
  /\ Done(r)
  /\ UNCHANGED <<school, issued, latest, crossed, peak, moves>>

\* A request dies where it stands.
Die(r) ==
  /\ req[r].step # "idle"
  /\ Done(r)
  /\ UNCHANGED <<school, users, issued, tokens, latest, crossed, peak, moves>>

------------------------------------------------------------------------------
Asked(r) ==
  \/ \E Q \in (SUBSET Teachers) \ {{}} : BeginTeachers(r, Q)
  \/ \E u \in Admins : BeginAdmin(r, u)
  \/ \E u \in Users, active \in BOOLEAN : BeginStatus(r, u, active)
  \/ \E u \in Users : BeginResend(r, u)
  \/ \E u \in Users, pw \in 0..issued : BeginLogin(r, u, pw)
  \/ \E t \in tokens : BeginChange(r, t)

AccountsStep(r) ==
  \/ Free(r) /\ Asked(r)
  \/ \E u \in Teachers : ReadSchool(r, u)
  \/ CountTeachers(r) \/ Insert(r)
  \/ GuardLastAdmin(r) \/ SetStatus(r)
  \/ Verify(r) \/ LoadRow(r) \/ StoreRow(r) \/ Reload(r) \/ SignIn(r)
  \/ Die(r)

------------------------------------------------------------------------------
(* Properties.                                                             *)

RequestsTyped ==
  \A r \in Requests :
    LET q == req[r]
    IN /\ q.kind \in {"none", "teachers", "admin", "status", "resend", "login", "change"}
       /\ q.step \in {"idle", "school", "count", "insert", "guard", "status", "load", "store",
                      "verify", "reload", "touch"}
       /\ q.user \in Users \cup {NoUser} /\ q.queue \subseteq Teachers
       /\ q.mark \in Nat /\ q.tv \in Nat /\ q.active \in BOOLEAN
       /\ q.offer \in 0..issued /\ q.fresh \in 0..issued
       /\ q.step \notin {"idle", "school"} => q.user \in Users
       /\ q.step \in {"status", "guard", "load", "store", "verify", "reload", "touch"}
            => Exists(q.user)

\* Every variable has the values the code can give it, and a request at work on an account
\* finds its row.
AccountsTyped ==
  /\ school \in [active : BOOLEAN, cap : Caps]
  /\ users \in [Users -> Rows \cup {NoRow}]
  /\ issued \in Nat
  /\ tokens \subseteq Tokens
  /\ RequestsTyped
  /\ latest \in [Users -> 0..issued]
  /\ crossed \subseteq {"creations", "disablings", "passwords"}
  /\ peak \in Caps /\ school.cap <= peak
  /\ moves \in 0..MaxMoves

\* Both guards count first and write later.  As long as no two requests are between the
\* two at once, a school never has more teachers than its cap has ever allowed, and never
\* loses its last active administrator, whatever else is disabled, enabled, suspended or
\* broken off; and requests that do overlap exceed the cap by one each at most.
CountsHold ==
  /\ Cardinality(TeachersThere) <=
       peak + (IF "creations" \in crossed THEN Cardinality(Requests) - 1 ELSE 0)
  /\ "disablings" \notin crossed => ActiveAdmins # {}

\* Only who knows the password last set for an account has a session that is honoured, and
\* that password is the one that opens it: a login or a change overtaken by a reset comes
\* to nothing.  (Password writes of one account that overlap are out of it: one of the two
\* increments is lost, or a renewed hash brings the old password back.)
OldCredentialsAreDead ==
  "passwords" \notin crossed =>
    /\ \A u \in Users : Exists(u) => users[u].pw = latest[u]
    /\ \A t \in tokens : Accepts(t) => t.pw = latest[t.user]
=============================================================================
