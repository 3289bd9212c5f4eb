---------------------------- MODULE AccountsProofs ----------------------------
(***************************************************************************)
(* Proofs about a school's accounts.  The variables of Accounts change in  *)
(* its own steps only, whatever lists, batches and reports go on beside    *)
(* them, so that its properties hold of the whole office.                  *)
(***************************************************************************)
EXTENDS Insight, FiniteSetTheorems, TLAPS

Locals ==
  [kind : {"none", "teachers", "admin", "status", "resend", "login", "change"},
   step : {"idle", "school", "count", "insert", "guard", "status", "load", "store",
           "verify", "reload", "touch"},
   user : Users \cup {NoUser}, queue : SUBSET Teachers, mark : Nat, active : BOOLEAN,
   offer : Nat, fresh : Nat, tv : Nat]

\* What AccountsTyped says, with the shape of the records spelled out, request by request.
SchoolTyped ==
  /\ school \in [active : BOOLEAN, cap : Caps]
  /\ peak \in Caps /\ school.cap <= peak
  /\ crossed \subseteq {"creations", "disablings", "passwords"}
  /\ moves \in 0..MaxMoves
UsersTyped ==
  /\ users \in [Users -> Rows \cup {NoRow}]
  /\ issued \in Nat
  /\ latest \in [Users -> 0..issued]
TokensTyped == tokens \subseteq Tokens /\ \A t \in tokens : t.pw <= issued

InUse(q) ==
  /\ q.offer \in 0..issued /\ q.fresh \in 0..issued
  /\ q.step \notin {"idle", "school"} => q.user \in Users
  /\ q.step \in {"status", "guard", "load", "store", "verify", "reload", "touch"}
       => q.user \in Users /\ Exists(q.user)

LocalsTyped == req \in [Requests -> Locals] /\ \A r \in Requests : InUse(req[r])

Typed == SchoolTyped /\ UsersTyped /\ TokensTyped /\ LocalsTyped

\* The steps of the accounts.
AccountsNext == UpdateSchool \/ \E r \in Requests : AccountsStep(r)

\* Nothing else changes them.
LEMMA OnlyAccountsSteps == [Next]_vars => AccountsNext \/ UNCHANGED <<accounts, moves>>
BY DEF Next, vars, AccountsNext

\* What Typed says is what AccountsTyped says.
LEMMA TypedIsTyped == Typed => AccountsTyped
BY DEF Typed, SchoolTyped, UsersTyped, TokensTyped, LocalsTyped, InUse, Locals, AccountsTyped,
       RequestsTyped

\* A row of the staff there at first is a row.
LEMMA FirstRow ==
  ASSUME NEW old, NEW u
  PROVE  [NewRow(0) EXCEPT !.old = u \in old] \in Rows
<1> DEFINE b == u \in old
<1>1. b \in BOOLEAN
  OBVIOUS
<1> HIDE DEF b
<1>2. [NewRow(0) EXCEPT !.old = b] \in Rows
  BY <1>1 DEF NewRow, Rows
<1> QED BY <1>2 DEF b

\* Accounts begin typed: staff with rows and sessions, and no request.
LEMMA TypedInit == Init => Typed
<1> SUFFICES ASSUME AccountsInit PROVE Typed
  BY DEF Init
<1> USE CapsAssumption, BoundAssumption
<1>1. PICK cap \in Caps, staff \in SUBSET Users, old \in SUBSET Users :
        /\ school = [active |-> TRUE, cap |-> cap] /\ peak = cap
        /\ users = [u \in Users |-> IF u \in staff THEN [NewRow(0) EXCEPT !.old = u \in old]
                                    ELSE NoRow]
        /\ tokens = {[user |-> u, tv |-> 0, pw |-> 0] : u \in staff}
  BY Zenon DEF AccountsInit
<1>2. SchoolTyped
  BY <1>1 DEF SchoolTyped, AccountsInit
<1>3. UsersTyped
  BY <1>1, FirstRow DEF UsersTyped, AccountsInit
<1>4. TokensTyped
  BY <1>1 DEF TokensTyped, Tokens, AccountsInit
<1>5. LocalsTyped
  BY <1>1 DEF LocalsTyped, AccountsInit, NoRequest, Locals, InUse
<1> QED BY <1>2, <1>3, <1>4, <1>5 DEF Typed

\* A request that moves on keeps the locals typed, if what it holds now is in use and no
\* row or password number is taken back.
LEMMA LocalsStep ==
  ASSUME LocalsTyped, issued \in Nat, issued' \in Nat, issued <= issued',
         \A u \in Users : Exists(u) => Exists(u)',
         NEW r \in Requests, NEW q \in Locals, InUse(q)',
         req' = [req EXCEPT ![r] = q]
  PROVE  LocalsTyped'
<1>1. req' \in [Requests -> Locals]
  BY DEF LocalsTyped
<1>2. ASSUME NEW o \in Requests PROVE InUse(req[o])'
  <2>1. CASE o = r
    BY <2>1 DEF LocalsTyped, InUse
  <2>2. CASE o # r
    <3>1. req'[o] = req[o] /\ InUse(req[o]) /\ req[o] \in Locals
      BY <2>2 DEF LocalsTyped
    <3> QED BY <3>1 DEF InUse, Locals
  <2> QED BY <2>1, <2>2
<1> QED BY <1>1, <1>2 DEF LocalsTyped

\* So does one that is done or goes on to its next address.
LEMMA LocalsEnd ==
  ASSUME LocalsTyped, issued \in Nat, issued' \in Nat, issued <= issued',
         \A u \in Users : Exists(u) => Exists(u)',
         NEW r \in Requests, Done(r) \/ Following(r)
  PROVE  LocalsTyped'
<1>1. CASE Done(r)
  <2>1. NoRequest \in Locals /\ InUse(NoRequest)'
    BY DEF NoRequest, Locals, InUse
  <2> QED BY <1>1, <2>1, LocalsStep DEF Done
<1>2. CASE ~Done(r)
  <2>1. PICK q \in Locals : q = [req[r] EXCEPT !.step = "school", !.user = NoUser]
    BY DEF LocalsTyped, Locals
  <2>2. /\ req' = [req EXCEPT ![r] = q]
        /\ q.step = "school" /\ q.offer = req[r].offer /\ q.fresh = req[r].fresh
    BY <1>2, <2>1 DEF Following, LocalsTyped, Locals
  <2>3. InUse(req[r])
    BY DEF LocalsTyped
  <2>4. InUse(q)'
    BY <2>2, <2>3 DEF InUse
  <2> QED BY <2>2, <2>4, LocalsStep
<1> QED BY <1>1, <1>2

\* The cap never exceeds the highest so far, and moves stay within their bound.
LEMMA SchoolStep == Typed /\ AccountsNext => SchoolTyped'
<1> SUFFICES ASSUME Typed, AccountsNext PROVE SchoolTyped'
  OBVIOUS
<1> USE CapsAssumption, BoundAssumption DEF Typed, SchoolTyped
<1>1. CASE UpdateSchool
  <2>1. school' \in [active : BOOLEAN, cap : Caps] /\ peak' \in Caps
    BY <1>1 DEF UpdateSchool
  <2>2. school'.cap <= peak'
    <3>1. CASE school' = [school EXCEPT !.active = ~@] /\ peak' = peak
      <4>1. school'.cap = school.cap
        BY <3>1
      <4> QED BY <3>1, <4>1
    <3>2. ASSUME NEW cap \in Caps, school' = [school EXCEPT !.cap = cap],
                 peak' = IF cap > peak THEN cap ELSE peak
          PROVE  school'.cap <= peak'
      <4>1. school'.cap = cap /\ cap \in Nat /\ peak \in Nat
        BY <3>2
      <4> QED BY <3>2, <4>1
    <3> QED BY <1>1, <3>1, <3>2 DEF UpdateSchool
  <2>3. moves' \in 0..MaxMoves /\ crossed' = crossed
    BY <1>1 DEF UpdateSchool
  <2> QED BY <2>1, <2>2, <2>3
<1>2. ASSUME NEW r \in Requests, AccountsStep(r) PROVE SchoolTyped'
  <2>1. CASE Free(r) /\ Asked(r)
    <3>1. school' = school /\ peak' = peak /\ crossed' = crossed /\ moves' = moves + 1
      BY <2>1 DEF Asked, Begin, BeginTeachers, BeginAdmin, BeginStatus, BeginResend,
                  BeginLogin, BeginChange
    <3> QED BY <2>1, <3>1 DEF Free
  <2>2. CASE \/ \E u \in Teachers : ReadSchool(r, u)
             \/ Insert(r) \/ SetStatus(r) \/ Verify(r) \/ LoadRow(r) \/ Reload(r) \/ SignIn(r)
             \/ Die(r)
    BY <2>2 DEF ReadSchool, Insert, SetStatus, Verify, LoadRow, Reload, SignIn, Die
  <2>3. CASE CountTeachers(r) \/ GuardLastAdmin(r) \/ StoreRow(r)
    BY <2>3 DEF CountTeachers, GuardLastAdmin, StoreRow
  <2> QED BY <1>2, <2>1, <2>2, <2>3 DEF AccountsStep
<1> QED BY <1>1, <1>2 DEF AccountsNext

\* A row stays an account's row once it is there, and the numbers of passwords only grow.
LEMMA UsersStep ==
  Typed /\ AccountsNext =>
    /\ UsersTyped' /\ issued <= issued'
    /\ \A u \in Users : Exists(u) => Exists(u)'
<1> SUFFICES ASSUME Typed, AccountsNext
             PROVE  /\ UsersTyped' /\ issued <= issued'
                    /\ \A u \in Users : Exists(u) => Exists(u)'
  OBVIOUS
<1>0. UsersTyped /\ SchoolTyped /\ \A r \in Requests : req[r] \in Locals /\ InUse(req[r])
  BY DEF Typed, LocalsTyped
<1> DEFINE Same == users' = users /\ latest' = latest /\ issued' \in {issued, issued + 1}
<1>1. CASE Same
  BY <1>0, <1>1 DEF UsersTyped, Exists
<1>2. ASSUME NEW u \in Users, NEW row \in Rows, users' = [users EXCEPT ![u] = row],
             NEW i \in {issued, issued + 1}, issued' = i,
             NEW l \in 0..i, latest' = [latest EXCEPT ![u] = l]
      PROVE  /\ UsersTyped' /\ issued <= issued'
             /\ \A v \in Users : Exists(v) => Exists(v)'
  BY <1>0, <1>2, NoRowAssumption DEF UsersTyped, Exists
<1>3. CASE UpdateSchool
  BY <1>1, <1>3 DEF UpdateSchool
<1>4. ASSUME NEW r \in Requests, AccountsStep(r)
      PROVE  /\ UsersTyped' /\ issued <= issued'
             /\ \A u \in Users : Exists(u) => Exists(u)'
  <2> DEFINE u == req[r].user
  <2>0. /\ req[r].step \in {"insert", "status", "store", "touch"} => u \in Users
        /\ req[r].step \in {"status", "store", "touch"} =>
             users[u] \in Rows /\ latest[u] \in 0..issued /\ latest = [latest EXCEPT ![u] = latest[u]]
    BY <1>0 DEF InUse, Exists, UsersTyped
  <2>1. CASE Free(r) /\ Asked(r)
    BY <1>1, <2>1 DEF Asked, BeginTeachers, BeginAdmin, BeginStatus, BeginResend,
                BeginLogin, BeginChange
  <2>2. CASE \/ \E v \in Teachers : ReadSchool(r, v)
             \/ CountTeachers(r) \/ GuardLastAdmin(r)
             \/ Verify(r) \/ LoadRow(r) \/ Reload(r) \/ Die(r)
    BY <1>1, <2>2 DEF ReadSchool, CountTeachers, GuardLastAdmin, Verify, LoadRow, Reload, Die
  <2>3. CASE Insert(r)
    <3>1. issued \in Nat /\ issued' \in {issued, issued + 1}
      BY <1>0, <2>3 DEF Insert, UsersTyped
    <3>2. CASE Exists(u)
      BY <1>1, <2>3, <3>2 DEF Insert
    <3>3. CASE ~Exists(u)
      <4>1. issued' = issued + 1 /\ NewRow(issued + 1) \in Rows
        BY <1>0, <2>3, <3>1, <3>3 DEF Insert, NewRow, Rows
      <4> QED BY <1>2, <2>0, <2>3, <3>1, <3>3, <4>1 DEF Insert
    <3> QED BY <3>2, <3>3
  <2>4. CASE SetStatus(r)
    <3>1. PICK row : row = [users[u] EXCEPT !.active = req[r].active]
      OBVIOUS
    <3>2. row \in Rows
      BY <1>0, <2>0, <2>4, <3>1 DEF SetStatus, Rows, Locals
    <3>3. users' = [users EXCEPT ![u] = row] /\ u \in Users
      BY <1>0, <2>0, <2>4, <3>1 DEF SetStatus, UsersTyped
    <3> QED BY <1>0, <1>2, <2>0, <2>4, <3>2, <3>3 DEF SetStatus
  <2>5. CASE StoreRow(r)
    <3>0. users[u] \in Rows /\ req[r].fresh \in Nat /\ req[r].mark + 1 \in Nat
      BY <1>0, <2>0, <2>5 DEF StoreRow, Locals
    <3>1. Stored(r) \in Rows
      BY <3>0 DEF Stored, Rows
    <3>2. PICK l \in 0..issued : latest' = [latest EXCEPT ![u] = l]
      BY <1>0, <2>0, <2>5 DEF StoreRow, InUse
    <3> QED BY <1>0, <1>2, <2>0, <2>5, <3>1, <3>2 DEF StoreRow, UsersTyped
  <2>6. CASE SignIn(r)
    <3>1. CASE users' = users
      BY <1>1, <2>6, <3>1 DEF SignIn
    <3>2. CASE users' # users
      <4>1. PICK row : row = [users[u] EXCEPT !.seen = moves]
        OBVIOUS
      <4>2. row \in Rows /\ users' = [users EXCEPT ![u] = row] /\ u \in Users
        BY <1>0, <2>0, <2>6, <3>2, <4>1, BoundAssumption DEF SignIn, Rows, UsersTyped, SchoolTyped
      <4> QED BY <1>0, <1>2, <2>0, <2>6, <4>2 DEF SignIn
    <3> QED BY <3>1, <3>2
  <2> QED BY <1>4, <2>1, <2>2, <2>3, <2>4, <2>5, <2>6 DEF AccountsStep
<1> QED BY <1>3, <1>4 DEF AccountsNext

\* A session is issued for a user, a version and a password that are such.
LEMMA TokensStep == Typed /\ AccountsNext => TokensTyped'
<1> SUFFICES ASSUME Typed, AccountsNext PROVE TokensTyped'
  OBVIOUS
<1>0. /\ UsersTyped /\ \A r \in Requests : req[r] \in Locals /\ InUse(req[r])
      /\ issued \in Nat /\ issued' \in Nat /\ issued <= issued'
  BY UsersStep DEF Typed, LocalsTyped, UsersTyped
<1>1. CASE tokens' = tokens
  BY <1>0, <1>1 DEF Typed, TokensTyped, Tokens
<1>2. ASSUME NEW r \in Requests, Reload(r) \/ SignIn(r) PROVE TokensTyped'
  <2>1. req[r].user \in Users /\ users[req[r].user] \in Rows
    BY <1>0, <1>2 DEF InUse, Exists, Reload, SignIn, UsersTyped
  <2>2. PICK tv \in Nat, pw \in 0..issued :
          tokens' = tokens \cup {[user |-> req[r].user, tv |-> tv, pw |-> pw]}
    <3>1. CASE Reload(r)
      <4>1. users[req[r].user].tv \in Nat /\ req[r].fresh \in 0..issued
        BY <1>0, <2>1 DEF Rows, InUse
      <4> QED BY <3>1, <4>1 DEF Reload
    <3>2. CASE SignIn(r)
      <4>1. req[r].tv \in Nat /\ req[r].offer \in 0..issued
        BY <1>0 DEF Locals, InUse
      <4> QED BY <3>2, <4>1 DEF SignIn
    <3> QED BY <1>2, <3>1, <3>2
  <2>3. [user |-> req[r].user, tv |-> tv, pw |-> pw] \in Tokens
    BY <1>0, <2>1, <2>2 DEF Tokens
  <2> QED BY <1>0, <2>2, <2>3 DEF Typed, TokensTyped, Tokens
<1> QED
  BY <1>1, <1>2 DEF AccountsNext, UpdateSchool, AccountsStep, Asked, BeginTeachers, BeginAdmin,
       BeginStatus, BeginResend, BeginLogin, BeginChange, ReadSchool, CountTeachers,
       GuardLastAdmin, Verify, LoadRow, Insert, SetStatus, StoreRow, Die

\* What a request holds is typed, and names a row that is there when it works on one.
LEMMA RequestsStep == Typed /\ AccountsNext => LocalsTyped'
<1> SUFFICES ASSUME Typed, AccountsNext PROVE LocalsTyped'
  OBVIOUS
<1>0. /\ UsersTyped /\ SchoolTyped /\ LocalsTyped
      /\ issued \in Nat /\ issued' \in Nat /\ issued <= issued'
      /\ \A u \in Users : Exists(u) => Exists(u)'
  BY UsersStep DEF Typed, UsersTyped
<1>1. CASE UpdateSchool
  BY <1>0, <1>1 DEF UpdateSchool, LocalsTyped, InUse, Exists
<1>2. ASSUME NEW r \in Requests, AccountsStep(r) PROVE LocalsTyped'
  <2>0. req[r] \in Locals /\ InUse(req[r]) /\ NoRequest \in Locals
    BY <1>0 DEF LocalsTyped, NoRequest, Locals
  <2>1. CASE Free(r) /\ Asked(r)
    <3>1. ASSUME NEW q \in Locals, Begin(r, q), InUse(q)' PROVE LocalsTyped'
      BY <1>0, <3>1, LocalsStep DEF Begin
    <3>2. ASSUME NEW Q \in SUBSET Teachers, BeginTeachers(r, Q) PROVE LocalsTyped'
      <4>1. PICK q \in Locals : q = [NoRequest EXCEPT !.kind = "teachers", !.queue = Q,
                                                      !.step = "school"]
        BY DEF NoRequest, Locals
      <4>2. InUse(q)'
        BY <1>0, <4>1 DEF NoRequest, InUse, Users
      <4>3. Begin(r, q)
        BY <3>2, <4>1 DEF BeginTeachers
      <4> QED BY <3>1, <4>2, <4>3
    <3>3. ASSUME NEW u \in Admins, BeginAdmin(r, u) PROVE LocalsTyped'
      <4>1. PICK q \in Locals : q = [NoRequest EXCEPT !.kind = "admin", !.user = u,
                                                      !.step = "insert"]
        BY DEF NoRequest, Locals, Users
      <4>2. InUse(q)'
        BY <1>0, <4>1 DEF NoRequest, InUse, Users
      <4>3. Begin(r, q)
        BY <3>3, <4>1 DEF BeginAdmin
      <4> QED BY <3>1, <4>2, <4>3
    <3>4. ASSUME NEW u \in Users, NEW active \in BOOLEAN, BeginStatus(r, u, active)
          PROVE  LocalsTyped'
      <4>1. PICK step \in {"guard", "status"} :
              step = IF u \in Admins /\ ~active THEN "guard" ELSE "status"
        OBVIOUS
      <4>2. PICK q \in Locals : q = [NoRequest EXCEPT !.kind = "status", !.user = u,
                                       !.active = active, !.step = step]
        BY DEF NoRequest, Locals
      <4>3. Exists(u)' /\ Begin(r, q)
        BY <1>0, <3>4, <4>1, <4>2 DEF BeginStatus
      <4>4. InUse(q)'
        BY <1>0, <4>2, <4>3 DEF NoRequest, InUse
      <4> QED BY <3>1, <4>3, <4>4
    <3>5. ASSUME NEW u \in Users, BeginResend(r, u) PROVE LocalsTyped'
      <4>1. PICK q \in Locals : q = [NoRequest EXCEPT !.kind = "resend", !.user = u,
                                       !.fresh = issued + 1, !.step = "load"]
        <5>1. issued + 1 \in Nat
          BY <1>0
        <5> QED BY <5>1 DEF NoRequest, Locals
      <4>2. Exists(u)' /\ Begin(r, q) /\ issued' = issued + 1
        BY <1>0, <3>5, <4>1 DEF BeginResend
      <4>3. InUse(q)'
        BY <1>0, <4>1, <4>2 DEF NoRequest, InUse
      <4> QED BY <3>1, <4>2, <4>3
    <3>6. ASSUME NEW u \in Users, NEW pw \in 0..issued, BeginLogin(r, u, pw) PROVE LocalsTyped'
      <4>1. PICK step \in {"load", "touch"}, tv \in Nat :
              /\ step = IF users[u].old THEN "load" ELSE "touch"
              /\ tv = users[u].tv
        BY <1>0, <3>6 DEF BeginLogin, UsersTyped, Rows, Exists
      <4>2. PICK q \in Locals : q = [NoRequest EXCEPT !.kind = "login", !.user = u, !.offer = pw,
                                       !.fresh = pw, !.tv = tv, !.step = step]
        <5>1. pw \in Nat
          BY <1>0
        <5> QED BY <5>1 DEF NoRequest, Locals
      <4>3. Exists(u)' /\ pw \in 0..issued' /\ Begin(r, q)
        BY <1>0, <3>6, <4>1, <4>2 DEF BeginLogin
      <4>4. InUse(q)'
        BY <1>0, <4>2, <4>3 DEF NoRequest, InUse
      <4> QED BY <3>1, <4>3, <4>4
    <3>7. ASSUME NEW t \in tokens, BeginChange(r, t) PROVE LocalsTyped'
      <4>1. t.user \in Users /\ Exists(t.user) /\ Exists(t.user)'
        BY <1>0, <3>7 DEF BeginChange, Accepts, Typed, TokensTyped, Tokens
      <4>2. t.pw \in 0..issued
        BY <1>0, <3>7 DEF Typed, TokensTyped, Tokens
      <4>3. PICK q \in Locals : q = [NoRequest EXCEPT !.kind = "change", !.user = t.user,
                                       !.offer = t.pw, !.fresh = issued + 1, !.step = "verify"]
        <5>1. issued + 1 \in Nat /\ t.pw \in Nat
          BY <1>0, <4>2
        <5> QED BY <4>1, <5>1 DEF NoRequest, Locals
      <4>4. Begin(r, q) /\ issued' = issued + 1
        BY <3>7, <4>3 DEF BeginChange
      <4>5. InUse(q)'
        BY <1>0, <4>1, <4>2, <4>3, <4>4 DEF NoRequest, InUse
      <4> QED BY <3>1, <4>4, <4>5
    <3> QED BY <2>1, <3>2, <3>3, <3>4, <3>5, <3>6, <3>7 DEF Asked
  <2>2. CASE Done(r) \/ Following(r)
    BY <1>0, <2>2, LocalsEnd
  <2>3. ASSUME NEW u \in Teachers, ReadSchool(r, u) PROVE LocalsTyped'
    <3>1. CASE school.active
      <4>1. PICK q \in Locals : q = [req[r] EXCEPT !.queue = @ \ {u}, !.user = u,
                                         !.mark = school.cap, !.step = "count"]
        BY <1>0, <2>0, <2>3, CapsAssumption DEF SchoolTyped, Locals, Users
      <4> QED BY <1>0, <2>0, <2>3, <3>1, <4>1, LocalsStep
            DEF ReadSchool, Locals, InUse, LocalsTyped, Users
    <3>2. CASE ~school.active /\ req[r].queue \ {u} # {}
      <4>1. PICK q \in Locals : q = [req[r] EXCEPT !.queue = @ \ {u}]
        BY <2>0 DEF Locals
      <4> QED BY <1>0, <2>0, <2>3, <3>2, <4>1, LocalsStep
            DEF ReadSchool, Locals, InUse, LocalsTyped
    <3> QED BY <2>2, <2>3, <3>1, <3>2 DEF ReadSchool
  <2>4. ASSUME NEW step, To(r, step),
               \/ req[r].step = "count" /\ step = "insert"
               \/ req[r].step = "guard" /\ step = "status"
               \/ req[r].step = "verify" /\ step = "load"
               \/ req[r].step = "store" /\ step \in {"reload", "touch"}
        PROVE  LocalsTyped'
    <3>1. PICK q \in Locals : q = [req[r] EXCEPT !.step = step]
      BY <2>0, <2>4 DEF Locals
    <3>2. InUse(q)'
      BY <1>0, <2>0, <2>4, <3>1 DEF InUse, Locals
    <3> QED BY <1>0, <2>4, <3>1, <3>2, LocalsStep DEF To, LocalsTyped, Locals
  <2>5. CASE LoadRow(r)
    <3>0. req[r].user \in Users /\ Exists(req[r].user)
      BY <2>0, <2>5 DEF LoadRow, InUse
    <3>1. users[req[r].user].tv \in Nat
      BY <1>0, <3>0 DEF UsersTyped, Exists, Rows
    <3>2. PICK q \in Locals : q = [req[r] EXCEPT !.step = "store", !.mark = users[req[r].user].tv]
      BY <2>0, <3>1 DEF Locals
    <3>3. InUse(q)'
      <4>1. q.user = req[r].user /\ q.offer = req[r].offer /\ q.fresh = req[r].fresh
        BY <2>0, <3>2 DEF Locals
      <4> QED BY <1>0, <2>0, <3>0, <4>1 DEF InUse
    <3> QED BY <1>0, <2>5, <3>2, <3>3, LocalsStep DEF LoadRow, LocalsTyped, Locals
  <2>6. CASE CountTeachers(r) \/ GuardLastAdmin(r) \/ Verify(r) \/ StoreRow(r)
    BY <2>2, <2>4, <2>6 DEF CountTeachers, GuardLastAdmin, Verify, StoreRow
  <2>7. CASE Insert(r) \/ SetStatus(r) \/ Reload(r) \/ SignIn(r) \/ Die(r)
    BY <2>2, <2>7 DEF Insert, SetStatus, Reload, SignIn, Die
  <2> QED BY <1>2, <2>1, <2>3, <2>5, <2>6, <2>7 DEF AccountsStep
<1> QED BY <1>1, <1>2 DEF AccountsNext

\* The typing of the accounts is inductive.
LEMMA TypedNext == Typed /\ [Next]_vars => Typed'
<1> SUFFICES ASSUME Typed, [Next]_vars PROVE Typed'
  OBVIOUS
<1>1. CASE AccountsNext
  BY <1>1, SchoolStep, UsersStep, TokensStep, RequestsStep DEF Typed
<1>2. CASE UNCHANGED <<accounts, moves>>
  BY <1>2 DEF accounts, Typed, SchoolTyped, UsersTyped, TokensTyped, LocalsTyped, InUse, Exists
<1> QED BY <1>1, <1>2, OnlyAccountsSteps

\* Whatever else goes on in the office, every variable of the accounts has the values the
\* code can give it, and a request at work on an account finds its row.
THEOREM AccountsAreTyped == Spec => []AccountsTyped
<1>1. Spec => []Typed
  BY TypedInit, TypedNext, PTL DEF Spec
<1> QED BY <1>1, TypedIsTyped, PTL

------------------------------------------------------------------------------
(* Counting before writing.                                                *)

\* Requests about to insert a teacher, and requests about to disable an administrator.
Creating == {r \in Requests : req[r].step = "insert" /\ req[r].kind = "teachers"}
Disabling ==
  {r \in Requests : req[r].step = "status" /\ req[r].user \in Admins /\ ~req[r].active}

\* Which requests get to which step, and a cap they read is one that was allowed.
Courteous(q) ==
  /\ q.step \in {"school", "count"} => q.kind = "teachers"
  /\ q.step = "insert" => q.kind \in {"teachers", "admin"}
  /\ q.kind = "teachers" /\ q.step \in {"count", "insert"} => q.user \in Teachers
  /\ q.kind = "admin" => q.queue = {} /\ q.user \in Admins
  /\ q.step = "count" => q.mark <= peak

\* What is there and what is about to be inserted stay within the cap together, but for one
\* per request once two have overlapped; before that there are no two.
CreationsCounted ==
  /\ \A r \in Requests : Courteous(req[r])
  /\ Cardinality(TeachersThere) + Cardinality(Creating) <=
       peak + (IF "creations" \in crossed THEN Cardinality(Requests) - 1 ELSE 0)
  /\ "creations" \notin crossed => \A r, o \in Creating : r = o

\* One administrator at a time is about to be disabled, and another one is active.
DisablingsGuarded ==
  "disablings" \notin crossed =>
    /\ ActiveAdmins # {}
    /\ \A r, o \in Disabling : r = o
    /\ \A r \in Disabling : ActiveAdmins \ {req[r].user} # {}

\* What a request knows of passwords and versions, as long as no two writes overlap.
Current(q) ==
  /\ q.step = "store" => q.mark = users[q.user].tv
  /\ q.kind = "login" /\ q.step \in {"load", "store"} =>
       q.fresh = q.offer /\ q.offer = latest[q.user] /\ q.tv = users[q.user].tv
  /\ q.step = "reload" => q.fresh = latest[q.user]
  /\ q.step = "touch" =>
       q.tv <= users[q.user].tv /\ (q.tv = users[q.user].tv => q.offer = latest[q.user])

\* Every session issued is of a version that is past, or knows the password.
CredentialsCurrent ==
  /\ \A r \in Requests : (req[r].step \in {"verify", "reload"} => req[r].kind = "change")
                          /\ (req[r].step = "touch" => req[r].kind = "login")
  /\ "passwords" \notin crossed =>
       /\ \A u \in Users : Exists(u) => users[u].pw = latest[u]
       /\ \A t \in tokens :
            /\ Exists(t.user) /\ t.tv <= users[t.user].tv
            /\ t.tv = users[t.user].tv => t.pw = latest[t.user]
       /\ \A r \in Requests : Current(req[r])

\* Only an insertion adds a row.
LEMMA OnlyInsertAdds ==
  ASSUME Typed, NEW r \in Requests, AccountsStep(r), ~Insert(r), NEW u \in Users
  PROVE  Exists(u)' <=> Exists(u)
<1>0. UsersTyped /\ SchoolTyped /\ req[r] \in Locals /\ InUse(req[r])
  BY DEF Typed, LocalsTyped
<1>1. CASE users' = users
  BY <1>1 DEF Exists
<1>2. CASE SetStatus(r) \/ StoreRow(r) \/ (SignIn(r) /\ users' # users)
  <2>1. Exists(req[r].user) /\ req[r].user \in Users
    BY <1>0, <1>2 DEF InUse, SetStatus, StoreRow, SignIn
  <2>2. users[req[r].user] \in Rows
    BY <1>0, <2>1 DEF UsersTyped, Exists
  <2>3. PICK row \in Rows : users' = [users EXCEPT ![req[r].user] = row]
    <3>1. CASE SetStatus(r)
      <4>1. [users[req[r].user] EXCEPT !.active = req[r].active] \in Rows
        BY <1>0, <2>2 DEF Rows, Locals
      <4> QED BY <1>0, <2>1, <3>1, <4>1 DEF SetStatus, UsersTyped
    <3>2. CASE StoreRow(r)
      <4>1. req[r].fresh \in Nat /\ req[r].mark + 1 \in Nat
        BY <1>0 DEF Locals
      <4>2. Stored(r) \in Rows
        BY <2>2, <4>1 DEF Stored, Rows
      <4> QED BY <3>2, <4>2 DEF StoreRow
    <3>3. CASE SignIn(r) /\ users' # users
      <4>1. [users[req[r].user] EXCEPT !.seen = moves] \in Rows
        BY <1>0, <2>2, BoundAssumption DEF Rows, SchoolTyped
      <4> QED BY <1>0, <2>1, <3>3, <4>1 DEF SignIn, UsersTyped
    <3> QED BY <1>2, <3>1, <3>2, <3>3
  <2> QED BY <1>0, <2>1, <2>2, <2>3, NoRowAssumption DEF Exists, UsersTyped
<1> QED
  BY <1>1, <1>2 DEF AccountsStep, Asked, BeginTeachers, BeginAdmin, BeginStatus, BeginResend,
       BeginLogin, BeginChange, ReadSchool, CountTeachers, GuardLastAdmin, Verify, LoadRow,
       Reload, Die

\* The requests and the teachers are finitely many, and so is what is counted of them.
LEMMA Countable ==
  /\ IsFiniteSet(TeachersThere) /\ IsFiniteSet(Creating)
  /\ Cardinality(TeachersThere) \in Nat /\ Cardinality(Creating) \in Nat
  /\ Cardinality(Requests) \in Nat /\ Cardinality(Creating) <= Cardinality(Requests)
<1>1. TeachersThere \subseteq Teachers /\ Creating \subseteq Requests
  BY DEF TeachersThere, Creating
<1>2. /\ IsFiniteSet(TeachersThere) /\ IsFiniteSet(Creating) /\ IsFiniteSet(Requests)
      /\ Cardinality(Creating) <= Cardinality(Requests)
  BY <1>1, FS_Subset, UsersAssumption
<1> QED BY <1>2, FS_CardinalityType

\* At first nobody is inserting, and the teachers are within the cap.
LEMMA CreationsInit == Init => CreationsCounted
<1> SUFFICES ASSUME AccountsInit PROVE CreationsCounted
  BY DEF Init
<1>1. PICK cap \in Caps, staff \in SUBSET Users, old \in SUBSET Users :
        /\ Cardinality(staff \cap Teachers) <= cap /\ peak = cap
        /\ users = [u \in Users |-> IF u \in staff THEN [NewRow(0) EXCEPT !.old = u \in old]
                                    ELSE NoRow]
  BY Zenon DEF AccountsInit
<1>2. TeachersThere = staff \cap Teachers
  BY <1>1, FirstRow, NoRowAssumption DEF TeachersThere, Exists, Users
<1>3. Creating = {} /\ crossed = {} /\ \A r \in Requests : Courteous(req[r])
  BY DEF Creating, Courteous, AccountsInit, NoRequest
<1>4. Cardinality(TeachersThere) <= peak /\ Cardinality(Creating) = 0
  BY <1>1, <1>2, <1>3, FS_EmptySet
<1> QED
  BY <1>1, <1>3, <1>4, Countable, CapsAssumption DEF CreationsCounted

\* A request at work leaves the others where they are.
LEMMA Alone ==
  ASSUME Typed, NEW r \in Requests, AccountsStep(r), NEW o \in Requests, o # r
  PROVE  req'[o] = req[o]
<1>1. req \in [Requests -> Locals]
  BY DEF Typed, LocalsTyped
<1> QED
  BY <1>1 DEF AccountsStep, Asked, BeginTeachers, BeginAdmin, BeginStatus, BeginResend,
       BeginLogin, BeginChange, ReadSchool, CountTeachers, GuardLastAdmin, Verify, LoadRow,
       Insert, SetStatus, StoreRow, Reload, SignIn, Die, Begin, To, Done, Following

\* A request stays courteous whatever the others do, and whatever it does itself.
LEMMA CourteousStep ==
  ASSUME Typed, CreationsCounted, AccountsNext, NEW o \in Requests
  PROVE  Courteous(req[o])' /\ peak <= peak'
<1>0. /\ SchoolTyped /\ SchoolTyped' /\ Courteous(req[o]) /\ req \in [Requests -> Locals]
      /\ \A c \in Caps : c \in Nat
  BY SchoolStep, CapsAssumption DEF Typed, CreationsCounted, LocalsTyped
<1>1. CASE UpdateSchool
  <2>1. peak' \in Nat /\ peak \in Nat /\ peak <= peak' /\ req' = req
    BY <1>0, <1>1 DEF UpdateSchool, SchoolTyped
  <2> QED BY <1>0, <2>1 DEF Courteous, Locals
<1>2. ASSUME NEW r \in Requests, AccountsStep(r) PROVE Courteous(req[o])' /\ peak <= peak'
  <2>0. peak' = peak /\ peak \in Nat
    BY <1>0, <1>2 DEF SchoolTyped, AccountsStep, Asked, BeginTeachers, BeginAdmin, BeginStatus,
         BeginResend, BeginLogin, BeginChange, ReadSchool, CountTeachers, GuardLastAdmin,
         Verify, LoadRow, Insert, SetStatus, StoreRow, Reload, SignIn, Die
  <2>1. CASE req'[o] = req[o]
    BY <1>0, <2>0, <2>1 DEF Courteous
  <2>2. CASE o # r
    BY <1>2, <2>1, <2>2, Alone
  <2>3. CASE o = r
    <3>0. Courteous(req[r]) /\ InUse(req[r]) /\ req[r] \in Locals
      BY <1>0, <2>3 DEF Typed, LocalsTyped
    <3>1. CASE Free(r) /\ Asked(r)
      <4>1. ASSUME NEW Q, BeginTeachers(r, Q) PROVE Courteous(req[o])'
        BY <1>0, <2>3, <4>1 DEF BeginTeachers, Begin, NoRequest, Courteous
      <4>2. ASSUME NEW u \in Admins, BeginAdmin(r, u) PROVE Courteous(req[o])'
        BY <1>0, <2>3, <4>2 DEF BeginAdmin, Begin, NoRequest, Courteous
      <4>3. ASSUME NEW u, NEW active, BeginStatus(r, u, active) PROVE Courteous(req[o])'
        BY <1>0, <2>3, <4>3 DEF BeginStatus, Begin, NoRequest, Courteous
      <4>4. ASSUME NEW u, BeginResend(r, u) PROVE Courteous(req[o])'
        BY <1>0, <2>3, <4>4 DEF BeginResend, Begin, NoRequest, Courteous
      <4>5. ASSUME NEW u, NEW pw, BeginLogin(r, u, pw) PROVE Courteous(req[o])'
        BY <1>0, <2>3, <4>5 DEF BeginLogin, Begin, NoRequest, Courteous
      <4>6. ASSUME NEW t, BeginChange(r, t) PROVE Courteous(req[o])'
        BY <1>0, <2>3, <4>6 DEF BeginChange, Begin, NoRequest, Courteous
      <4> QED BY <2>0, <3>1, <4>1, <4>2, <4>3, <4>4, <4>5, <4>6 DEF Asked
    <3>2. CASE Done(r) \/ (Following(r) /\ req[r].step \in {"count", "insert"})
      <4>1. CASE Done(r)
        BY <1>0, <2>0, <2>3, <4>1 DEF Done, NoRequest, Courteous
      <4>2. CASE ~Done(r)
        BY <1>0, <2>0, <2>3, <3>0, <3>2, <4>2 DEF Following, Courteous, Locals
      <4> QED BY <4>1, <4>2
    <3>3. CASE \E u \in Teachers : ReadSchool(r, u)
      BY <1>0, <2>0, <2>3, <3>0, <3>3 DEF ReadSchool, Courteous, Locals, Done, NoRequest, SchoolTyped
    <3>4. CASE CountTeachers(r)
      BY <1>0, <2>0, <2>3, <3>0, <3>2, <3>4 DEF CountTeachers, To, Courteous, Locals
    <3>5. CASE GuardLastAdmin(r) \/ Verify(r) \/ LoadRow(r) \/ StoreRow(r)
      <4>1. CASE Done(r)
        BY <3>2, <4>1
      <4>2. ASSUME NEW step \in {"status", "load", "reload", "touch"}, To(r, step)
            PROVE  Courteous(req[o])' /\ peak <= peak'
        <5>1. req'[r] = [req[r] EXCEPT !.step = step]
          BY <1>0, <4>2 DEF To
        <5>2. /\ req'[r].kind = req[r].kind /\ req'[r].queue = req[r].queue
              /\ req'[r].user = req[r].user /\ req'[r].step = step
          BY <3>0, <5>1 DEF Locals
        <5> QED BY <2>0, <2>3, <3>0, <5>2 DEF Courteous
      <4>3. CASE LoadRow(r)
        <5>1. req'[r] = [req[r] EXCEPT !.step = "store", !.mark = users[req[r].user].tv]
          BY <1>0, <4>3 DEF LoadRow
        <5>2. /\ req'[r].kind = req[r].kind /\ req'[r].queue = req[r].queue
              /\ req'[r].user = req[r].user /\ req'[r].step = "store"
          BY <3>0, <5>1 DEF Locals
        <5> QED BY <2>0, <2>3, <3>0, <5>2 DEF Courteous
      <4> QED BY <3>5, <4>1, <4>2, <4>3 DEF GuardLastAdmin, Verify, StoreRow
    <3>6. CASE Insert(r) \/ SetStatus(r) \/ Reload(r) \/ SignIn(r) \/ Die(r)
      BY <3>2, <3>6 DEF Insert, SetStatus, Reload, SignIn, Die
    <3> QED BY <1>2, <3>1, <3>3, <3>4, <3>5, <3>6 DEF AccountsStep
  <2> QED BY <2>2, <2>3
<1> QED BY <1>1, <1>2 DEF AccountsNext

\* Only a count that comes out below the cap brings a request to the point of inserting.
LEMMA OnlyCountsCreate ==
  ASSUME Typed, CreationsCounted, NEW r \in Requests, AccountsStep(r),
         CountTeachers(r) => ~To(r, "insert")
  PROVE  Creating' \subseteq Creating \ (IF Insert(r) THEN {r} ELSE {})
<1>0. /\ req \in [Requests -> Locals] /\ Courteous(req[r])
      /\ \A o \in Requests : o # r => req'[o] = req[o]
  BY Alone DEF Typed, LocalsTyped, CreationsCounted
<1>1. ASSUME req'[r].step # "insert" \/ req'[r].kind # "teachers" PROVE r \notin Creating'
  BY <1>1 DEF Creating
<1>2. CASE Free(r) /\ Asked(r)
  <2>1. req'[r].step # "insert" \/ req'[r].kind # "teachers"
    <3>1. ASSUME NEW Q, BeginTeachers(r, Q) PROVE req'[r].step # "insert"
      BY <1>0, <3>1 DEF BeginTeachers, Begin, NoRequest
    <3>2. ASSUME NEW u, BeginAdmin(r, u) PROVE req'[r].kind # "teachers"
      BY <1>0, <3>2 DEF BeginAdmin, Begin, NoRequest
    <3>3. ASSUME NEW u, NEW active, BeginStatus(r, u, active) PROVE req'[r].kind # "teachers"
      BY <1>0, <3>3 DEF BeginStatus, Begin, NoRequest
    <3>4. ASSUME NEW u, BeginResend(r, u) PROVE req'[r].kind # "teachers"
      BY <1>0, <3>4 DEF BeginResend, Begin, NoRequest
    <3>5. ASSUME NEW u, NEW pw, BeginLogin(r, u, pw) PROVE req'[r].kind # "teachers"
      BY <1>0, <3>5 DEF BeginLogin, Begin, NoRequest
    <3>6. ASSUME NEW t, BeginChange(r, t) PROVE req'[r].kind # "teachers"
      BY <1>0, <3>6 DEF BeginChange, Begin, NoRequest
    <3> QED BY <1>2, <3>1, <3>2, <3>3, <3>4, <3>5, <3>6 DEF Asked
  <2>2. ~Insert(r)
    BY <1>2 DEF Insert, Free
  <2> QED BY <1>0, <1>1, <2>1, <2>2 DEF Creating
<1>3. CASE ~(Free(r) /\ Asked(r))
  <2>1. req'[r].step # "insert" \/ (req'[r] = req[r] /\ ~Insert(r))
    <3>1. CASE Done(r) \/ Following(r) \/ To(r, "status") \/ To(r, "load") \/ To(r, "reload")
               \/ To(r, "touch")
      BY <1>0, <3>1 DEF Done, Following, NoRequest, To, Locals
    <3>2. CASE LoadRow(r)
      BY <1>0, <3>2 DEF LoadRow, Locals
    <3>3. ASSUME NEW u, ReadSchool(r, u) PROVE req'[r].step # "insert"
      BY <1>0, <3>3 DEF ReadSchool, Locals, Done, NoRequest
    <3> QED
      BY <1>3, <3>1, <3>2, <3>3
         DEF AccountsStep, CountTeachers, GuardLastAdmin, Verify, Insert, SetStatus, StoreRow,
             Reload, SignIn, Die
  <2> QED BY <1>0, <1>1, <2>1 DEF Creating
<1> QED BY <1>2, <1>3

\* Counting below the cap makes one more that is about to insert; inserting makes one less,
\* and at most one teacher more.
LEMMA CreationsStep == Typed /\ CreationsCounted /\ AccountsNext => CreationsCounted'
<1> SUFFICES ASSUME Typed, CreationsCounted, AccountsNext PROVE CreationsCounted'
  OBVIOUS
<1> DEFINE Room == IF "creations" \in crossed THEN Cardinality(Requests) - 1 ELSE 0
<1>0. /\ peak \in Nat /\ peak' \in Nat /\ peak <= peak' /\ Typed'
      /\ \A o \in Requests : Courteous(req[o]) /\ Courteous(req[o])'
      /\ Cardinality(TeachersThere) + Cardinality(Creating) <= peak + Room
      /\ "creations" \notin crossed => \A r, o \in Creating : r = o
  <2>1. Typed'
    BY SchoolStep, UsersStep, TokensStep, RequestsStep DEF Typed
  <2>2. peak \in Nat /\ peak' \in Nat
    BY <2>1, CapsAssumption DEF Typed, SchoolTyped
  <2>3. peak <= peak'
    <3>1. CASE UpdateSchool
      BY <2>2, <3>1 DEF UpdateSchool
    <3>2. ASSUME NEW r \in Requests, AccountsStep(r) PROVE peak <= peak'
      BY <3>2, CourteousStep
    <3> QED BY <3>1, <3>2 DEF AccountsNext
  <2> QED BY <2>1, <2>2, <2>3, CourteousStep DEF CreationsCounted
<1>1. /\ IsFiniteSet(TeachersThere) /\ IsFiniteSet(Creating)
      /\ Cardinality(TeachersThere) \in Nat /\ Cardinality(Creating) \in Nat
      /\ Cardinality(Requests) \in Nat
  BY Countable
<1>2. /\ Cardinality(TeachersThere') \in Nat /\ Cardinality(Creating') \in Nat
      /\ IsFiniteSet(TeachersThere') /\ IsFiniteSet(Creating')
      /\ Cardinality(Creating') <= Cardinality(Requests)
  <2>1. TeachersThere' \subseteq Teachers /\ Creating' \subseteq Requests
    BY DEF TeachersThere, Creating
  <2> QED BY <2>1, FS_Subset, FS_CardinalityType, UsersAssumption
<1>3. ASSUME Cardinality(TeachersThere') + Cardinality(Creating') <= peak' + Room',
             "creations" \notin crossed' => \A r, o \in Creating' : r = o
      PROVE  CreationsCounted'
  BY <1>0, <1>3 DEF CreationsCounted
<1>4. ASSUME TeachersThere' = TeachersThere, Creating' \subseteq Creating,
             "creations" \in crossed <=> "creations" \in crossed'
      PROVE  CreationsCounted'
  <2>1. Cardinality(Creating') <= Cardinality(Creating)
    BY <1>1, <1>4, FS_Subset
  <2>2. Cardinality(TeachersThere') + Cardinality(Creating') <= peak' + Room'
    BY <1>0, <1>1, <1>2, <1>4, <2>1
  <2> QED BY <1>0, <1>3, <1>4, <2>2
<1>5. CASE UpdateSchool
  BY <1>4, <1>5 DEF UpdateSchool, TeachersThere, Exists, Creating
<1>6. ASSUME NEW r \in Requests, AccountsStep(r) PROVE CreationsCounted'
  <2>0. /\ req \in [Requests -> Locals] /\ InUse(req[r]) /\ UsersTyped
    BY DEF Typed, LocalsTyped
  <2>1. CASE CountTeachers(r) /\ To(r, "insert")
    <3>1. /\ Cardinality(TeachersThere) < req[r].mark /\ req[r].step = "count"
          /\ TeachersThere' = TeachersThere
          /\ crossed' = IF \E o \in Others(r, {"insert"}) : req[o].kind = "teachers"
                            THEN crossed \cup {"creations"} ELSE crossed
      <4>1. ~(Cardinality(TeachersThere) >= req[r].mark)
        <5>1. req'[r].step = "insert"
          BY <2>0, <2>1 DEF To, Locals
        <5>2. ASSUME Following(r) PROVE req'[r].step # "insert"
          BY <2>0, <5>2 DEF Following, Done, NoRequest, Locals
        <5> QED BY <2>1, <5>1, <5>2 DEF CountTeachers
      <4>2. req[r].mark \in Nat
        BY <2>0 DEF Locals
      <4> QED BY <1>1, <2>1, <4>1, <4>2 DEF CountTeachers, TeachersThere, Exists
    <3>2. req[r].mark <= peak /\ req[r].mark \in Nat /\ req[r].kind = "teachers"
      BY <1>0, <2>0, <3>1 DEF Courteous, Locals
    <3>3. Cardinality(TeachersThere') + 1 <= peak'
      BY <1>0, <1>1, <3>1, <3>2
    <3>4. Creating' = Creating \cup {r} /\ r \notin Creating
      BY <2>0, <2>1, <3>1, <3>2 DEF To, Creating, Locals
    <3>5. CASE "creations" \in crossed'
      <4>1. Room' = Cardinality(Requests) - 1
        BY <3>5
      <4>2. Cardinality(TeachersThere') + Cardinality(Creating') <= peak' + Room'
        BY <1>0, <1>1, <1>2, <3>3, <4>1
      <4> QED BY <1>3, <3>5, <4>2
    <3>6. CASE "creations" \notin crossed'
      <4>1. Creating = {}
        <5>1. ASSUME NEW o \in Creating PROVE FALSE
          BY <2>0, <3>1, <3>4, <3>6 DEF Creating, Others
        <5> QED BY <5>1
      <4>2. Cardinality(Creating') = 1
        BY <3>4, <4>1, FS_Singleton
      <4>3. Cardinality(TeachersThere') + Cardinality(Creating') <= peak' + Room'
        BY <1>0, <1>1, <1>2, <3>3, <3>6, <4>2
      <4> QED BY <1>3, <3>4, <4>1, <4>3
    <3> QED BY <3>5, <3>6
  <2>2. CASE ~(CountTeachers(r) /\ To(r, "insert"))
    <3>1. Creating' \subseteq Creating \ (IF Insert(r) THEN {r} ELSE {})
      BY <1>6, <2>2, OnlyCountsCreate
    <3>2. "creations" \in crossed <=> "creations" \in crossed'
      <4>1. CASE Free(r) /\ Asked(r)
        BY <4>1 DEF Asked, BeginTeachers, BeginAdmin, BeginStatus, BeginResend, BeginLogin,
             BeginChange
      <4>2. CASE CountTeachers(r) \/ GuardLastAdmin(r) \/ StoreRow(r)
        BY <2>2, <4>2 DEF CountTeachers, GuardLastAdmin, StoreRow
      <4> QED
        BY <1>6, <4>1, <4>2 DEF AccountsStep, ReadSchool, Verify, LoadRow, Insert, SetStatus,
             Reload, SignIn, Die
    <3>3. CASE ~Insert(r)
      <4>1. TeachersThere' = TeachersThere
        BY <1>6, <3>3, OnlyInsertAdds DEF TeachersThere, Users
      <4> QED BY <1>4, <3>1, <3>2, <3>3, <4>1
    <3>4. CASE Insert(r)
      <4> DEFINE u == req[r].user
      <4>0. u \in Users /\ Courteous(req[r]) /\ req[r].step = "insert"
        BY <1>0, <2>0, <3>4 DEF InUse, Insert
      <4>3. /\ \A v \in Users : v # u => (Exists(v)' <=> Exists(v))
            /\ Exists(u) => users' = users
        <5>1. CASE Exists(u)
          BY <3>4, <5>1 DEF Insert, Exists
        <5>2. CASE ~Exists(u)
          BY <2>0, <3>4, <5>2 DEF Insert, Exists, UsersTyped
        <5> QED BY <5>1, <5>2
      <4>1. CASE Exists(u) \/ u \notin Teachers
        <5>1. TeachersThere' = TeachersThere
          <6>1. CASE Exists(u)
            BY <4>3, <6>1 DEF TeachersThere, Exists
          <6>2. CASE u \notin Teachers
            BY <4>3, <6>2 DEF TeachersThere, Users
          <6> QED BY <4>1, <6>1, <6>2
        <5> QED BY <1>4, <3>1, <3>2, <5>1
      <4>2. CASE ~Exists(u) /\ u \in Teachers
        <5>1. req[r].kind = "teachers" /\ r \in Creating
          BY <4>0, <4>2, UsersAssumption DEF Courteous, Creating
        <5>2. TeachersThere' \subseteq TeachersThere \cup {u}
          BY <4>3 DEF TeachersThere, Users
        <5>3. u \notin TeachersThere
          BY <4>2 DEF TeachersThere
        <5>4. Cardinality(TeachersThere') <= Cardinality(TeachersThere) + 1
          <6>1. /\ IsFiniteSet(TeachersThere \cup {u})
                /\ Cardinality(TeachersThere \cup {u}) = Cardinality(TeachersThere) + 1
            BY <1>1, <5>3, FS_AddElement
          <6> QED BY <5>2, <6>1, FS_Subset
        <5>5. Cardinality(Creating') <= Cardinality(Creating) - 1
          <6>1. /\ IsFiniteSet(Creating \ {r})
                /\ Cardinality(Creating \ {r}) = Cardinality(Creating) - 1
            BY <1>1, <5>1, FS_RemoveElement
          <6>2. Creating' \subseteq Creating \ {r}
            BY <3>1, <3>4
          <6> QED BY <6>1, <6>2, FS_Subset
        <5>6. Room' = Room
          BY <3>2
        <5>7. Room \in Int
          BY <1>1
        <5> HIDE DEF Room
        <5>8. Cardinality(TeachersThere') + Cardinality(Creating') <= peak' + Room'
          BY <1>0, <1>1, <1>2, <5>4, <5>5, <5>6, <5>7
        <5> QED BY <1>0, <1>3, <3>1, <3>2, <5>8
      <4> QED BY <4>1, <4>2
    <3> QED BY <3>3, <3>4
  <2> QED BY <2>1, <2>2
<1> QED BY <1>5, <1>6 DEF AccountsNext

------------------------------------------------------------------------------
(* The last administrator.                                                 *)

\* At first an administrator is active, and none is about to be disabled.
LEMMA DisablingsInit == Init => DisablingsGuarded
<1> SUFFICES ASSUME AccountsInit PROVE DisablingsGuarded
  BY DEF Init
<1>1. PICK staff \in SUBSET Users, old \in SUBSET Users :
        /\ staff \cap Admins # {}
        /\ users = [u \in Users |-> IF u \in staff THEN [NewRow(0) EXCEPT !.old = u \in old]
                                    ELSE NoRow]
  BY Zenon DEF AccountsInit
<1>2. ActiveAdmins # {}
  <2>1. PICK u \in Admins : u \in staff
    BY <1>1
  <2>2. users[u] = [NewRow(0) EXCEPT !.old = u \in old] /\ users[u] # NoRow
    BY <1>1, <2>1, FirstRow, NoRowAssumption DEF Users
  <2>3. users[u].active
    BY <2>2 DEF NewRow
  <2> QED BY <2>1, <2>2, <2>3 DEF ActiveAdmins, Exists
<1>3. Disabling = {}
  BY DEF Disabling, AccountsInit, NoRequest
<1> QED BY <1>2, <1>3 DEF DisablingsGuarded

\* Only a disabling that passed the guard takes an administrator off the active ones.
LEMMA OnlyDisablingsTake ==
  ASSUME Typed, NEW r \in Requests, AccountsStep(r)
  PROVE  ActiveAdmins \ (IF SetStatus(r) /\ r \in Disabling THEN {req[r].user} ELSE {})
           \subseteq ActiveAdmins'
<1>0. UsersTyped /\ SchoolTyped /\ req[r] \in Locals /\ InUse(req[r])
  BY DEF Typed, LocalsTyped
<1> DEFINE u == req[r].user
<1>1. CASE users' = users
  BY <1>1 DEF ActiveAdmins, Exists
<1>2. CASE Insert(r)
  <2>1. CASE Exists(u)
    BY <1>1, <1>2, <2>1 DEF Insert
  <2>2. CASE ~Exists(u)
    <3>1. \A v \in Users : Exists(v) => users'[v] = users[v]
      BY <1>0, <1>2, <2>2 DEF Insert, UsersTyped, Exists
    <3> QED BY <3>1 DEF ActiveAdmins, Exists, Users
  <2> QED BY <2>1, <2>2
<1>3. CASE SetStatus(r) \/ StoreRow(r) \/ (SignIn(r) /\ users' # users)
  <2>1. Exists(u) /\ u \in Users /\ users[u] \in Rows
    BY <1>0, <1>3 DEF InUse, SetStatus, StoreRow, SignIn, UsersTyped, Exists
  <2>2. \A v \in Users : v # u => users'[v] = users[v]
    BY <1>0, <1>3, <2>1 DEF SetStatus, StoreRow, SignIn, UsersTyped
  <2>3. users'[u] # NoRow
    <3>1. ~Insert(r)
      BY <1>3 DEF Insert, SetStatus, StoreRow, SignIn
    <3> QED BY <2>1, <3>1, OnlyInsertAdds DEF Exists
  <2>4. u \in ActiveAdmins => u \in ActiveAdmins' \/ (SetStatus(r) /\ r \in Disabling)
    <3>1. ASSUME users[u].active, ~(SetStatus(r) /\ ~req[r].active) PROVE users'[u].active
      <4>1. CASE SetStatus(r)
        BY <1>0, <2>1, <3>1, <4>1 DEF SetStatus, UsersTyped, Rows
      <4>2. CASE StoreRow(r)
        BY <1>0, <2>1, <3>1, <4>2 DEF StoreRow, Stored, UsersTyped, Rows
      <4>3. CASE SignIn(r) /\ users' # users
        BY <1>0, <2>1, <3>1, <4>3 DEF SignIn, UsersTyped, Rows
      <4> QED BY <1>3, <4>1, <4>2, <4>3
    <3>2. SetStatus(r) => req[r].step = "status"
      BY DEF SetStatus
    <3> QED BY <2>1, <2>3, <3>1, <3>2 DEF ActiveAdmins, Disabling, Exists
  <2> QED BY <2>2, <2>4 DEF ActiveAdmins, Exists, Users
<1> QED
  BY <1>1, <1>2, <1>3 DEF AccountsStep, Asked, BeginTeachers, BeginAdmin, BeginStatus,
       BeginResend, BeginLogin, BeginChange, ReadSchool, CountTeachers, GuardLastAdmin, Verify,
       LoadRow, Reload, Die

\* Only the guard brings a request to the point of disabling an administrator.
LEMMA OnlyGuardsDisable ==
  ASSUME Typed, NEW r \in Requests, AccountsStep(r), GuardLastAdmin(r) => ~To(r, "status")
  PROVE  Disabling' \subseteq Disabling \ (IF SetStatus(r) THEN {r} ELSE {})
<1>0. /\ req \in [Requests -> Locals] /\ \A o \in Requests : o # r => req'[o] = req[o]
  BY Alone DEF Typed, LocalsTyped
<1>1. CASE Free(r) /\ Asked(r)
  <2>1. r \notin Disabling'
    <3>1. ASSUME NEW Q, BeginTeachers(r, Q) PROVE req'[r].step # "status"
      BY <1>0, <3>1 DEF BeginTeachers, Begin, NoRequest
    <3>2. ASSUME NEW u, BeginAdmin(r, u) PROVE req'[r].step # "status"
      BY <1>0, <3>2 DEF BeginAdmin, Begin, NoRequest
    <3>3. ASSUME NEW u, NEW active, BeginStatus(r, u, active)
          PROVE  req'[r].step = "status" => req'[r].user \notin Admins \/ req'[r].active
      BY <1>0, <3>3 DEF BeginStatus, Begin, NoRequest
    <3>4. ASSUME NEW u, BeginResend(r, u) PROVE req'[r].step # "status"
      BY <1>0, <3>4 DEF BeginResend, Begin, NoRequest
    <3>5. ASSUME NEW u, NEW pw, BeginLogin(r, u, pw) PROVE req'[r].step # "status"
      BY <1>0, <3>5 DEF BeginLogin, Begin, NoRequest
    <3>6. ASSUME NEW t, BeginChange(r, t) PROVE req'[r].step # "status"
      BY <1>0, <3>6 DEF BeginChange, Begin, NoRequest
    <3> QED BY <1>1, <3>1, <3>2, <3>3, <3>4, <3>5, <3>6 DEF Asked, Disabling
  <2>2. ~SetStatus(r)
    BY <1>1 DEF SetStatus, Free
  <2> QED BY <1>0, <2>1, <2>2 DEF Disabling
<1>2. CASE ~(Free(r) /\ Asked(r))
  <2>1. req'[r].step # "status" \/ (req'[r] = req[r] /\ ~SetStatus(r))
    <3>1. CASE Done(r) \/ Following(r) \/ To(r, "insert") \/ To(r, "load") \/ To(r, "reload")
               \/ To(r, "touch")
      BY <1>0, <3>1 DEF Done, Following, NoRequest, To, Locals
    <3>2. CASE LoadRow(r)
      BY <1>0, <3>2 DEF LoadRow, Locals
    <3>3. ASSUME NEW u, ReadSchool(r, u) PROVE req'[r].step # "status"
      BY <1>0, <3>3 DEF ReadSchool, Locals, Done, NoRequest
    <3> QED
      BY <1>2, <3>1, <3>2, <3>3
         DEF AccountsStep, CountTeachers, GuardLastAdmin, Verify, Insert, SetStatus, StoreRow,
             Reload, SignIn, Die
  <2> QED BY <1>0, <2>1 DEF Disabling
<1> QED BY <1>1, <1>2

\* Passing the guard leaves another administrator active, and nobody else past the guard;
\* disabling takes one of them only.
LEMMA DisablingsStep == Typed /\ DisablingsGuarded /\ AccountsNext => DisablingsGuarded'
<1> SUFFICES ASSUME Typed, DisablingsGuarded, AccountsNext, "disablings" \notin crossed'
             PROVE  /\ ActiveAdmins' # {}
                    /\ \A r, o \in Disabling' : r = o
                    /\ \A r \in Disabling' : ActiveAdmins' \ {req'[r].user} # {}
  BY DEF DisablingsGuarded
<1>0. /\ req \in [Requests -> Locals] /\ \A r \in Requests : InUse(req[r])
  BY DEF Typed, LocalsTyped
<1>1. CASE UpdateSchool
  BY <1>1 DEF UpdateSchool, DisablingsGuarded, ActiveAdmins, Disabling, Exists
<1>2. ASSUME NEW r \in Requests, AccountsStep(r)
      PROVE  /\ ActiveAdmins' # {}
             /\ \A p, o \in Disabling' : p = o
             /\ \A o \in Disabling' : ActiveAdmins' \ {req'[o].user} # {}
  <2>0. "disablings" \notin crossed /\ \A o \in Requests : o # r => req'[o] = req[o]
    <3>1. crossed \subseteq crossed'
      <4>1. CASE Free(r) /\ Asked(r)
        BY <4>1 DEF Asked, BeginTeachers, BeginAdmin, BeginStatus, BeginResend, BeginLogin,
             BeginChange
      <4>2. CASE CountTeachers(r) \/ GuardLastAdmin(r) \/ StoreRow(r)
        BY <4>2 DEF CountTeachers, GuardLastAdmin, StoreRow
      <4> QED
        BY <1>2, <4>1, <4>2 DEF AccountsStep, ReadSchool, Verify, LoadRow, Insert, SetStatus,
             Reload, SignIn, Die
    <3> QED BY <1>2, <3>1, Alone
  <2>1. /\ ActiveAdmins # {}
        /\ \A p, o \in Disabling : p = o
        /\ \A o \in Disabling : ActiveAdmins \ {req[o].user} # {}
    BY <2>0 DEF DisablingsGuarded
  <2>2. CASE GuardLastAdmin(r) /\ To(r, "status")
    <3>1. /\ ActiveAdmins' = ActiveAdmins /\ req[r].step = "guard"
          /\ ~\E o \in Others(r, {"status"}) : req[o].user \in Admins
          /\ ~(Cardinality(ActiveAdmins) <= 1)
      <4>1. req'[r].step = "status"
        BY <1>0, <2>2 DEF To, Locals
      <4>2. ~Done(r)
        BY <1>0, <4>1 DEF Done, NoRequest
      <4> QED BY <2>2, <4>2 DEF GuardLastAdmin, ActiveAdmins, Exists
    <3>2. \A o \in Disabling' : o = r
      BY <2>0, <3>1 DEF Disabling, Others
    <3>3. ActiveAdmins \ {req'[r].user} # {}
      <4>1. SUFFICES ASSUME ActiveAdmins \subseteq {req'[r].user} PROVE FALSE
        OBVIOUS
      <4>2. Cardinality(ActiveAdmins) <= Cardinality({req'[r].user})
        BY <4>1, FS_Subset, FS_Singleton
      <4> QED BY <3>1, <4>2, FS_Singleton
    <3> QED BY <2>1, <3>1, <3>2, <3>3
  <2>3. CASE ~(GuardLastAdmin(r) /\ To(r, "status"))
    <3>1. Disabling' \subseteq Disabling \ (IF SetStatus(r) THEN {r} ELSE {})
      BY <1>2, <2>3, OnlyGuardsDisable
    <3>2. ActiveAdmins \ (IF SetStatus(r) /\ r \in Disabling THEN {req[r].user} ELSE {})
            \subseteq ActiveAdmins'
      BY <1>2, OnlyDisablingsTake
    <3>3. CASE SetStatus(r) /\ r \in Disabling
      <4>1. Disabling' = {}
        BY <2>1, <3>1, <3>3
      <4> QED BY <2>1, <3>2, <3>3, <4>1
    <3>4. CASE ~(SetStatus(r) /\ r \in Disabling)
      <4>1. ActiveAdmins \subseteq ActiveAdmins' /\ Disabling' \subseteq Disabling
        BY <3>1, <3>2, <3>4
      <4>2. ASSUME NEW o \in Disabling' PROVE req'[o].user = req[o].user
        <5>1. CASE o = r
          <6>1. req[r].step = "status" /\ req'[r].step = "status"
            BY <4>1, <5>1 DEF Disabling
          <6>2. r \in Disabling /\ ~SetStatus(r)
            BY <3>4, <4>1, <5>1
          <6>3. Die(r)
            BY <1>2, <6>1, <6>2 DEF AccountsStep, Free, ReadSchool, CountTeachers, Insert,
                 GuardLastAdmin, Verify, LoadRow, StoreRow, Reload, SignIn
          <6> QED BY <1>0, <6>1, <6>3 DEF Die, Done, NoRequest
        <5> QED BY <2>0, <5>1 DEF Disabling
      <4> QED BY <2>1, <4>1, <4>2
    <3> QED BY <3>3, <3>4
  <2> QED BY <2>2, <2>3
<1> QED BY <1>1, <1>2 DEF AccountsNext

\* The office has the accounts' steps and others that leave the accounts alone.
LEMMA CountsNext ==
  Typed /\ CreationsCounted /\ DisablingsGuarded /\ [Next]_vars =>
    CreationsCounted' /\ DisablingsGuarded'
<1> SUFFICES ASSUME Typed, CreationsCounted, DisablingsGuarded, [Next]_vars
             PROVE  CreationsCounted' /\ DisablingsGuarded'
  OBVIOUS
<1>1. CASE AccountsNext
  BY <1>1, CreationsStep, DisablingsStep
<1>2. CASE UNCHANGED <<accounts, moves>>
  BY <1>2 DEF accounts, CreationsCounted, DisablingsGuarded, Creating, Disabling, Courteous,
       TeachersThere, ActiveAdmins, Exists
<1> QED BY <1>1, <1>2, OnlyAccountsSteps

\* As long as no two requests are between count and write at once, a school never has more
\* teachers than its cap has ever allowed and never loses its last active administrator; and
\* requests that do overlap exceed the cap by one each at most.
THEOREM CountsAlwaysHold == Spec => []CountsHold
<1>1. Spec => [](Typed /\ CreationsCounted /\ DisablingsGuarded)
  BY TypedInit, TypedNext, CreationsInit, DisablingsInit, CountsNext, PTL DEF Spec
<1>2. Typed /\ CreationsCounted /\ DisablingsGuarded => CountsHold
  <2> SUFFICES ASSUME Typed, CreationsCounted, DisablingsGuarded PROVE CountsHold
    OBVIOUS
  <2>1. peak \in Nat
    BY CapsAssumption DEF Typed, SchoolTyped
  <2> QED BY <2>1, Countable DEF CreationsCounted, DisablingsGuarded, CountsHold
<1> QED BY <1>1, <1>2, PTL

------------------------------------------------------------------------------
(* Passwords and sessions.                                                 *)

\* At first every session is of the version that is there, and no password was changed.
LEMMA CredentialsInit == Init => CredentialsCurrent
<1> SUFFICES ASSUME AccountsInit PROVE CredentialsCurrent
  BY DEF Init
<1>1. PICK staff \in SUBSET Users, old \in SUBSET Users :
        /\ users = [u \in Users |-> IF u \in staff THEN [NewRow(0) EXCEPT !.old = u \in old]
                                    ELSE NoRow]
        /\ tokens = {[user |-> u, tv |-> 0, pw |-> 0] : u \in staff}
  BY Zenon DEF AccountsInit
<1>2. ASSUME NEW u \in staff
      PROVE  /\ u \in Users /\ Exists(u) /\ users[u].pw = 0 /\ users[u].tv = 0
             /\ latest[u] = 0
  <2>1. users[u] = [NewRow(0) EXCEPT !.old = u \in old] /\ users[u] # NoRow
    BY <1>1, FirstRow, NoRowAssumption
  <2> QED BY <2>1 DEF NewRow, Exists, AccountsInit
<1>3. \A u \in Users : Exists(u) => u \in staff
  BY <1>1 DEF Exists
<1>4. ASSUME NEW t \in tokens
      PROVE  /\ Exists(t.user) /\ t.tv <= users[t.user].tv
             /\ t.tv = users[t.user].tv => t.pw = latest[t.user]
  BY <1>1, <1>2
<1>5. \A r \in Requests : req[r] = NoRequest
  BY DEF AccountsInit
<1>6. \A r \in Requests : Current(req[r])
  BY <1>5 DEF Current, NoRequest
<1> QED BY <1>2, <1>3, <1>4, <1>5, <1>6 DEF CredentialsCurrent, NoRequest, AccountsInit

\* A stored row has the password the request brought; and unless it is a login, it has a
\* version of its own.
LEMMA StoredRow ==
  ASSUME Typed, NEW r \in Requests, StoreRow(r)
  PROVE  /\ req[r].user \in Users /\ Exists(req[r].user) /\ users'[req[r].user] # NoRow
         /\ \A v \in Users : v # req[r].user => users'[v] = users[v] /\ latest'[v] = latest[v]
         /\ users'[req[r].user].pw = req[r].fresh
         /\ users'[req[r].user].tv =
              IF req[r].kind = "login" THEN users[req[r].user].tv ELSE req[r].mark + 1
         /\ latest'[req[r].user] =
              IF req[r].kind = "login" THEN latest[req[r].user] ELSE req[r].fresh
<1> DEFINE u == req[r].user
<1>0. UsersTyped /\ req[r] \in Locals /\ InUse(req[r])
  BY DEF Typed, LocalsTyped
<1>1. u \in Users /\ Exists(u) /\ users[u] \in Rows
  BY <1>0 DEF InUse, StoreRow, UsersTyped, Exists
<1>2. req[r].fresh \in Nat /\ req[r].mark + 1 \in Nat
  BY <1>0 DEF Locals
<1>3. users' = [users EXCEPT ![u] = Stored(r)] /\ Stored(r) \in Rows
  BY <1>1, <1>2 DEF StoreRow, Stored, Rows
<1>4. /\ Stored(r).pw = req[r].fresh
      /\ Stored(r).tv = IF req[r].kind = "login" THEN users[u].tv ELSE req[r].mark + 1
  BY <1>1, <1>2 DEF Stored, Rows
<1>5. users'[u] = Stored(r) /\ \A v \in Users : v # u => users'[v] = users[v]
  BY <1>0, <1>1, <1>3 DEF UsersTyped
<1>6. /\ latest'[u] = IF req[r].kind = "login" THEN latest[u] ELSE req[r].fresh
      /\ \A v \in Users : v # u => latest'[v] = latest[v]
  BY <1>0, <1>1 DEF StoreRow, UsersTyped
<1> QED BY <1>1, <1>3, <1>4, <1>5, <1>6, NoRowAssumption DEF Exists

\* Nothing else that a row has of password and version is touched, once it is there.
LEMMA OnlyStoresRenew ==
  ASSUME Typed, NEW r \in Requests, AccountsStep(r), ~StoreRow(r), NEW u \in Users, Exists(u)
  PROVE  /\ users'[u].pw = users[u].pw /\ users'[u].tv = users[u].tv
         /\ latest'[u] = latest[u]
<1>0. UsersTyped /\ req[r] \in Locals /\ InUse(req[r]) /\ users[u] \in Rows
  BY DEF Typed, LocalsTyped, UsersTyped, Exists
<1>1. CASE users' = users /\ latest' = latest
  BY <1>1
<1>2. CASE Insert(r)
  BY <1>0, <1>2 DEF Insert, UsersTyped, Exists
<1>3. CASE SetStatus(r)
  BY <1>0, <1>3 DEF SetStatus, UsersTyped, Rows
<1>4. CASE SignIn(r)
  BY <1>0, <1>4 DEF SignIn, UsersTyped, Rows
<1> QED
  BY <1>1, <1>2, <1>3, <1>4 DEF AccountsStep, Asked, BeginTeachers, BeginAdmin, BeginStatus,
       BeginResend, BeginLogin, BeginChange, ReadSchool, CountTeachers, GuardLastAdmin, Verify,
       LoadRow, Reload, Die

\* A session, and what a request knows, stays current as long as the row is renewed by
\* nobody or by a reset that moves the version on.
LEMMA CredentialsStep == Typed /\ CredentialsCurrent /\ AccountsNext => CredentialsCurrent'
<1> SUFFICES ASSUME Typed, CredentialsCurrent, AccountsNext PROVE CredentialsCurrent'
  OBVIOUS
<1>0. /\ req \in [Requests -> Locals] /\ UsersTyped
      /\ \A r \in Requests : InUse(req[r])
      /\ \A u \in Users : Exists(u) => Exists(u)' /\ users[u] \in Rows
  BY UsersStep DEF Typed, LocalsTyped, UsersTyped, Exists
<1>1. CASE UpdateSchool
  BY <1>1 DEF UpdateSchool, CredentialsCurrent, Current, Exists
<1>2. ASSUME NEW r \in Requests, AccountsStep(r) PROVE CredentialsCurrent'
  <2>0. \A o \in Requests : o # r => req'[o] = req[o]
    BY <1>2, Alone
  <2>1. ASSUME NEW o \in Requests
        PROVE  /\ req'[o].step \in {"verify", "reload"} => req'[o].kind = "change"
               /\ req'[o].step = "touch" => req'[o].kind = "login"
    <3>1. CASE o # r
      BY <2>0, <3>1 DEF CredentialsCurrent
    <3>2. CASE Free(r) /\ Asked(r)
      <4>1. ASSUME NEW Q, BeginTeachers(r, Q) PROVE req'[r].step \notin {"verify", "reload", "touch"}
        BY <1>0, <4>1 DEF BeginTeachers, Begin, NoRequest
      <4>2. ASSUME NEW u, BeginAdmin(r, u) PROVE req'[r].step \notin {"verify", "reload", "touch"}
        BY <1>0, <4>2 DEF BeginAdmin, Begin, NoRequest
      <4>3. ASSUME NEW u, NEW active, BeginStatus(r, u, active)
            PROVE  req'[r].step \notin {"verify", "reload", "touch"}
        BY <1>0, <4>3 DEF BeginStatus, Begin, NoRequest
      <4>4. ASSUME NEW u, BeginResend(r, u) PROVE req'[r].step \notin {"verify", "reload", "touch"}
        BY <1>0, <4>4 DEF BeginResend, Begin, NoRequest
      <4>5. ASSUME NEW u, NEW pw, BeginLogin(r, u, pw)
            PROVE  req'[r].step \in {"load", "touch"} /\ req'[r].kind = "login"
        BY <1>0, <4>5 DEF BeginLogin, Begin, NoRequest
      <4>6. ASSUME NEW t, BeginChange(r, t)
            PROVE  req'[r].step = "verify" /\ req'[r].kind = "change"
        BY <1>0, <4>6 DEF BeginChange, Begin, NoRequest
      <4> QED BY <3>1, <3>2, <4>1, <4>2, <4>3, <4>4, <4>5, <4>6 DEF Asked
    <3>3. CASE o = r /\ ~(Free(r) /\ Asked(r))
      <4>1. CASE Done(r) \/ Following(r)
        BY <1>0, <3>3, <4>1 DEF Done, Following, NoRequest, Locals
      <4>2. CASE To(r, "insert") \/ To(r, "status") \/ To(r, "load") \/ LoadRow(r)
        BY <1>0, <3>3, <4>2 DEF To, LoadRow, Locals
      <4>3. CASE \/ To(r, "reload") /\ req[r].kind = "change"
                 \/ To(r, "touch") /\ req[r].kind = "login"
        BY <1>0, <3>3, <4>3 DEF To, Locals
      <4>4. ASSUME NEW u, ReadSchool(r, u)
            PROVE  req'[r].step \notin {"verify", "reload", "touch"}
        BY <1>0, <4>4 DEF ReadSchool, Done, NoRequest, Locals
      <4> QED
        BY <1>2, <3>3, <4>1, <4>2, <4>3, <4>4
           DEF AccountsStep, CountTeachers, GuardLastAdmin, Verify, Insert, SetStatus, StoreRow,
               Reload, SignIn, Die
    <3> QED BY <3>1, <3>2, <3>3
  <2>2. ASSUME "passwords" \notin crossed'
        PROVE  /\ \A u \in Users : users'[u] # NoRow => users'[u].pw = latest'[u]
               /\ \A t \in tokens' :
                    /\ users'[t.user] # NoRow /\ t.tv <= users'[t.user].tv
                    /\ t.tv = users'[t.user].tv => t.pw = latest'[t.user]
               /\ \A o \in Requests : Current(req[o])'
    <3> DEFINE u == req[r].user
    <3>1. crossed \subseteq crossed'
      <4>1. CASE Free(r) /\ Asked(r)
        BY <4>1 DEF Asked, BeginTeachers, BeginAdmin, BeginStatus, BeginResend, BeginLogin,
             BeginChange
      <4>2. CASE CountTeachers(r) \/ GuardLastAdmin(r) \/ StoreRow(r)
        BY <4>2 DEF CountTeachers, GuardLastAdmin, StoreRow
      <4> QED
        BY <1>2, <4>1, <4>2 DEF AccountsStep, ReadSchool, Verify, LoadRow, Insert, SetStatus,
             Reload, SignIn, Die
    <3>2. /\ \A v \in Users : Exists(v) => users[v].pw = latest[v]
          /\ \A t \in tokens :
               /\ Exists(t.user) /\ t.tv <= users[t.user].tv /\ t \in Tokens
               /\ t.tv = users[t.user].tv => t.pw = latest[t.user]
          /\ \A o \in Requests : Current(req[o])
      BY <2>2, <3>1 DEF CredentialsCurrent, Typed, TokensTyped
    <3>3. \A v \in Users : Exists(v) => users[v].tv \in Nat
      BY <1>0 DEF Rows
    <3>4. \A o \in Requests : req[o].step \in {"load", "store", "reload", "touch"} =>
                               req[o].user \in Users /\ Exists(req[o].user)
      BY <1>0 DEF InUse
    <3>5. CASE StoreRow(r)
      <4>1. /\ u \in Users /\ Exists(u) /\ users'[u] # NoRow
            /\ \A v \in Users : v # u => users'[v] = users[v] /\ latest'[v] = latest[v]
            /\ users'[u].pw = req[r].fresh
            /\ users'[u].tv = IF req[r].kind = "login" THEN users[u].tv ELSE req[r].mark + 1
            /\ latest'[u] = IF req[r].kind = "login" THEN latest[u] ELSE req[r].fresh
        BY <1>2, <3>5, StoredRow
      <4>2. \A o \in Requests : o # r /\ req[o].step \in {"load", "store", "reload"} =>
                                 req[o].user # u
        BY <2>2, <3>5 DEF StoreRow, Others
      <4>3. /\ req[r].mark = users[u].tv
            /\ req[r].kind = "login" => /\ req[r].fresh = latest[u] /\ req[r].offer = latest[u]
                                        /\ req[r].tv = users[u].tv
        BY <3>2, <3>5 DEF Current, StoreRow
      <4>4. /\ users'[u].pw = latest'[u] /\ users'[u].tv \in Nat
            /\ \/ users'[u].tv = users[u].tv /\ latest'[u] = latest[u]
               \/ users[u].tv < users'[u].tv
        BY <3>3, <4>1, <4>3
      <4>5. \A v \in Users : users'[v] # NoRow => users'[v].pw = latest'[v]
        BY <3>2, <4>1, <4>4 DEF Exists
      <4>6. ASSUME NEW t \in tokens
            PROVE  /\ users'[t.user] # NoRow /\ t.tv <= users'[t.user].tv
                   /\ t.tv = users'[t.user].tv => t.pw = latest'[t.user]
        <5>1. t.user \in Users /\ t.tv \in Nat
          BY <3>2 DEF Tokens
        <5>2. CASE t.user = u
          BY <3>2, <3>3, <4>1, <4>4, <5>1, <5>2
        <5>3. CASE t.user # u
          BY <3>2, <4>1, <5>1, <5>3 DEF Exists
        <5> QED BY <5>2, <5>3
      <4>7. ASSUME NEW o \in Requests PROVE Current(req[o])'
        <5>1. CASE o # r
          <6>1. CASE req[o].step \in {"load", "store", "reload"}
            BY <2>0, <3>2, <3>4, <4>1, <4>2, <5>1, <6>1 DEF Current
          <6>2. CASE req[o].step = "touch" /\ req[o].user # u
            BY <2>0, <3>2, <3>4, <4>1, <5>1, <6>2 DEF Current
          <6>3. CASE req[o].step = "touch" /\ req[o].user = u
            <7>1. req[o].tv \in Nat
              BY <1>0 DEF Locals
            <7> QED BY <2>0, <3>2, <3>3, <4>1, <4>4, <5>1, <6>3, <7>1 DEF Current
          <6>4. CASE req[o].step \notin {"load", "store", "reload", "touch"}
            BY <2>0, <5>1, <6>4 DEF Current
          <6> QED BY <6>1, <6>2, <6>3, <6>4
        <5>2. CASE o = r /\ req[r].kind = "change"
          <6>1. /\ req'[r].step = "reload" /\ req'[r].user = u /\ req'[r].fresh = req[r].fresh
                /\ req'[r].kind = "change"
            BY <1>0, <3>5, <5>2 DEF StoreRow, To, Locals
          <6> QED BY <4>1, <5>2, <6>1 DEF Current
        <5>3. CASE o = r /\ req[r].kind = "login"
          <6>1. /\ req'[r].step = "touch" /\ req'[r].user = u /\ req'[r].offer = req[r].offer
                /\ req'[r].tv = req[r].tv
            BY <1>0, <3>5, <5>3 DEF StoreRow, To, Locals
          <6> QED BY <3>3, <4>1, <4>3, <5>3, <6>1 DEF Current
        <5>4. CASE o = r /\ req[r].kind \notin {"change", "login"}
          BY <1>0, <3>5, <5>4 DEF StoreRow, Done, NoRequest, Current
        <5> QED BY <5>1, <5>2, <5>3, <5>4
      <4> QED BY <3>5, <4>5, <4>6, <4>7 DEF StoreRow
    <3>6. CASE Insert(r)
      <4>1. u \in Users /\ tokens' = tokens
        BY <1>0, <3>6 DEF Insert, InUse
      <4>2. /\ \A v \in Users : Exists(v) => users'[v] = users[v] /\ latest'[v] = latest[v]
            /\ \A v \in Users : ~Exists(v) /\ users'[v] # NoRow => users'[v].pw = latest'[v]
        <5>1. CASE Exists(u)
          BY <3>6, <5>1 DEF Insert, Exists
        <5>2. CASE ~Exists(u)
          BY <1>0, <3>6, <4>1, <5>2 DEF Insert, Exists, UsersTyped, NewRow
        <5> QED BY <5>1, <5>2
      <4>3. ASSUME NEW t \in tokens
            PROVE  /\ users'[t.user] # NoRow /\ t.tv <= users'[t.user].tv
                   /\ t.tv = users'[t.user].tv => t.pw = latest'[t.user]
        <5>1. t.user \in Users
          BY <3>2 DEF Tokens
        <5> QED BY <3>2, <4>2, <5>1 DEF Exists
      <4>4. ASSUME NEW o \in Requests PROVE Current(req[o])'
        <5>1. CASE o # r
          <6>1. CASE req[o].step \in {"load", "store", "reload", "touch"}
            BY <2>0, <3>2, <3>4, <4>2, <5>1, <6>1 DEF Current
          <6>2. CASE req[o].step \notin {"load", "store", "reload", "touch"}
            BY <2>0, <5>1, <6>2 DEF Current
          <6> QED BY <6>1, <6>2
        <5>2. CASE o = r
          <6>1. req'[r].step \in {"idle", "school"}
            BY <1>0, <3>6 DEF Insert, Following, Done, NoRequest, Locals
          <6> QED BY <5>2, <6>1 DEF Current
        <5> QED BY <5>1, <5>2
      <4> QED BY <3>2, <4>1, <4>2, <4>3, <4>4
    <3>7. CASE ~StoreRow(r) /\ ~Insert(r)
      <4>1. \A v \in Users : Exists(v) => /\ users'[v].pw = users[v].pw /\ users'[v].tv = users[v].tv
                                          /\ latest'[v] = latest[v]
        BY <1>2, <3>7, OnlyStoresRenew
      <4>2. \A v \in Users : users'[v] # NoRow <=> Exists(v)
        BY <1>2, <3>7, OnlyInsertAdds DEF Exists
      <4>3. \A v \in Users : users'[v] # NoRow => users'[v].pw = latest'[v]
        BY <3>2, <4>1, <4>2
      <4>4. ASSUME NEW t \in tokens'
            PROVE  /\ users'[t.user] # NoRow /\ t.tv <= users'[t.user].tv
                   /\ t.tv = users'[t.user].tv => t.pw = latest'[t.user]
        <5>1. CASE t \in tokens
          <6>1. t.user \in Users
            BY <3>2, <5>1 DEF Tokens
          <6> QED BY <3>2, <4>1, <4>2, <5>1, <6>1
        <5>2. CASE Reload(r) /\ t \notin tokens
          <6>1. /\ t = [user |-> u, tv |-> users[u].tv, pw |-> req[r].fresh]
                /\ req[r].step = "reload"
            BY <5>2 DEF Reload
          <6>2. t.user = u /\ t.tv = users[u].tv /\ t.pw = req[r].fresh
            BY <6>1
          <6>3. u \in Users /\ Exists(u) /\ req[r].fresh = latest[u]
            BY <3>2, <3>4, <6>1 DEF Current
          <6> QED BY <3>3, <4>1, <4>2, <6>2, <6>3
        <5>3. CASE SignIn(r) /\ t \notin tokens
          <6>1. /\ t = [user |-> u, tv |-> req[r].tv, pw |-> req[r].offer]
                /\ req[r].step = "touch"
            BY <5>3 DEF SignIn
          <6>2. t.user = u /\ t.tv = req[r].tv /\ t.pw = req[r].offer
            BY <6>1
          <6>3. /\ u \in Users /\ Exists(u) /\ req[r].tv <= users[u].tv
                /\ req[r].tv = users[u].tv => req[r].offer = latest[u]
            BY <3>2, <3>4, <6>1 DEF Current
          <6> QED BY <4>1, <4>2, <6>2, <6>3
        <5>4. CASE ~Reload(r) /\ ~SignIn(r)
          <6>1. tokens' = tokens
            BY <1>2, <3>7, <5>4 DEF AccountsStep, Asked, BeginTeachers, BeginAdmin, BeginStatus,
               BeginResend, BeginLogin, BeginChange, ReadSchool, CountTeachers, GuardLastAdmin,
               Verify, LoadRow, SetStatus, Die
          <6> QED BY <5>1, <6>1
        <5> QED BY <5>1, <5>2, <5>3, <5>4
      <4>5. ASSUME NEW o \in Requests PROVE Current(req[o])'
        <5>1. CASE o # r
          <6>1. CASE req[o].step \in {"load", "store", "reload", "touch"}
            BY <2>0, <3>2, <3>4, <4>1, <5>1, <6>1 DEF Current
          <6>2. CASE req[o].step \notin {"load", "store", "reload", "touch"}
            BY <2>0, <5>1, <6>2 DEF Current
          <6> QED BY <6>1, <6>2
        <5>2. ASSUME \/ req'[r].step \notin {"load", "store", "reload", "touch"}
                     \/ req'[r].step = "load" /\ req'[r].kind # "login"
              PROVE  Current(req[r])'
          BY <5>2 DEF Current
        <5>3. ASSUME Free(r) /\ Asked(r) PROVE Current(req[r])'
          <6>1. ASSUME NEW Q, BeginTeachers(r, Q) PROVE Current(req[r])'
            BY <1>0, <5>2, <6>1 DEF BeginTeachers, Begin, NoRequest
          <6>2. ASSUME NEW v, BeginAdmin(r, v) PROVE Current(req[r])'
            BY <1>0, <5>2, <6>2 DEF BeginAdmin, Begin, NoRequest
          <6>3. ASSUME NEW v, NEW active, BeginStatus(r, v, active) PROVE Current(req[r])'
            <7>1. req'[r].step \in {"guard", "status"}
              BY <1>0, <6>3 DEF BeginStatus, Begin, NoRequest
            <7> QED BY <5>2, <7>1
          <6>4. ASSUME NEW v, BeginResend(r, v) PROVE Current(req[r])'
            BY <1>0, <5>2, <6>4 DEF BeginResend, Begin, NoRequest
          <6>5. ASSUME NEW v \in Users, NEW pw, BeginLogin(r, v, pw) PROVE Current(req[r])'
            <7>1. /\ req'[r].step \in {"load", "touch"} /\ req'[r].user = v
                  /\ req'[r].offer = pw /\ req'[r].fresh = pw /\ req'[r].tv = users[v].tv
              BY <1>0, <6>5 DEF BeginLogin, Begin, NoRequest
            <7>2. Exists(v) /\ pw = latest[v]
              BY <3>2, <6>5 DEF BeginLogin
            <7> QED BY <3>3, <4>1, <7>1, <7>2 DEF Current
          <6>6. ASSUME NEW t, BeginChange(r, t) PROVE Current(req[r])'
            BY <1>0, <5>2, <6>6 DEF BeginChange, Begin, NoRequest
          <6> QED BY <5>3, <6>1, <6>2, <6>3, <6>4, <6>5, <6>6 DEF Asked
        <5>4. ASSUME Done(r) PROVE Current(req[r])'
          BY <1>0, <5>2, <5>4 DEF Done, NoRequest
        <5>5. ASSUME To(r, "insert") \/ To(r, "status") PROVE Current(req[r])'
          BY <1>0, <5>2, <5>5 DEF To, Locals
        <5>6. ASSUME Verify(r) /\ ~Done(r) PROVE Current(req[r])'
          <6>1. req'[r].step = "load" /\ req'[r].kind = "change"
            <7>1. req[r].kind = "change"
              BY <5>6 DEF CredentialsCurrent, Verify
            <7> QED BY <1>0, <5>6, <7>1 DEF Verify, To, Locals
          <6> QED BY <5>2, <6>1
        <5>7. ASSUME LoadRow(r) PROVE Current(req[r])'
          <6>1. /\ req[r].step = "load" /\ req'[r].step = "store" /\ req'[r].user = u
                /\ req'[r].mark = users[u].tv
                /\ req'[r].kind = req[r].kind /\ req'[r].fresh = req[r].fresh
                /\ req'[r].offer = req[r].offer /\ req'[r].tv = req[r].tv
            BY <1>0, <5>7 DEF LoadRow, Locals
          <6>2. u \in Users /\ Exists(u) /\ Current(req[r])
            BY <3>2, <3>4, <6>1
          <6> QED BY <4>1, <6>1, <6>2 DEF Current
        <5>8. ASSUME NEW v, ReadSchool(r, v) PROVE Current(req[r])'
          <6>1. req'[r].step \in {"idle", "count", "school"}
            BY <1>0, <5>8 DEF ReadSchool, Done, NoRequest, Locals
          <6> QED BY <5>2, <6>1
        <5>9. ASSUME CountTeachers(r) /\ Following(r) PROVE Current(req[r])'
          <6>1. req'[r].step \in {"idle", "school"}
            BY <1>0, <5>9 DEF Following, Done, NoRequest, Locals
          <6> QED BY <5>2, <6>1
        <5>10. Current(req[r])'
          BY <1>2, <3>7, <5>3, <5>4, <5>5, <5>6, <5>7, <5>8, <5>9
             DEF AccountsStep, CountTeachers, GuardLastAdmin, SetStatus, Reload, SignIn, Die
        <5> QED BY <5>1, <5>10
      <4> QED BY <4>3, <4>4, <4>5
    <3> QED BY <3>5, <3>6, <3>7
  <2> QED BY <2>1, <2>2 DEF CredentialsCurrent, Exists
<1> QED BY <1>1, <1>2 DEF AccountsNext

\* Only who knows the password last set for an account has a session that is honoured, and
\* that password is the one that opens it, as long as no two password writes of one account
\* overlap.
THEOREM OldCredentialsStayDead == Spec => []OldCredentialsAreDead
<1>1. Typed /\ CredentialsCurrent /\ [Next]_vars => CredentialsCurrent'
  <2> SUFFICES ASSUME Typed, CredentialsCurrent, [Next]_vars PROVE CredentialsCurrent'
    OBVIOUS
  <2>1. CASE AccountsNext
    BY <2>1, CredentialsStep
  <2>2. CASE UNCHANGED <<accounts, moves>>
    BY <2>2 DEF accounts, CredentialsCurrent, Current, Exists
  <2> QED BY <2>1, <2>2, OnlyAccountsSteps
<1>2. Spec => [](Typed /\ CredentialsCurrent)
  BY <1>1, TypedInit, TypedNext, CredentialsInit, PTL DEF Spec
<1>3. CredentialsCurrent => OldCredentialsAreDead
  BY DEF CredentialsCurrent, OldCredentialsAreDead, Accepts
<1> QED BY <1>2, <1>3, PTL
=============================================================================
