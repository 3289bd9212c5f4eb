------------------------------ MODULE MCInsight ------------------------------
EXTENDS Insight, TLC

CONSTANTS a1, a2, t1, t2, r1, r2, g1, g2, s1, s2, e1, e2, e3

There0 == {u \in Users : Exists(u)}
Stale0 == {u \in There0 : users[u].old}

Left(m, t, j, n) ==
  moves = MaxMoves - m /\ turns = MaxTurns - t /\ jobs = MaxJobs - j /\ news = MaxNews - n

\* Accounts on their own, lists on their own, and both; two batches, or one beside a change
\* of a class or a student; a report beside two changes, or beside a student who comes or
\* goes.
Scenes ==
  \/ Left(3, 0, 0, 0) \/ Left(0, 3, 0, 0) \/ Left(1, 1, 0, 0)
  \/ Left(0, 0, 2, 0) \/ Left(0, 1, 1, 0)
  \/ Left(0, 0, 0, 3) \/ Left(0, 1, 0, 1)

\* Accounts begin with both administrators, the rest with one; a teacher, or two for the
\* lists beside an account.
Staffed ==
  IF moves = 0 THEN There0 = Admins /\ rows[s2] = "there"
  ELSE /\ There0 \cap Admins = {a1} /\ Stale0 = {}
       /\ IF moves = MaxMoves THEN There0 \cap Teachers = {t1}
          ELSE Teachers \subseteq There0 /\ rows[s2] = "new"
       /\ turns = 0 => rows[s2] = "there"
       /\ turns > 0 /\ moves = MaxMoves => school.cap = 1

Quiet == [notified |-> FALSE, auto |-> FALSE, done |-> FALSE, archived |-> FALSE,
          running |-> FALSE, recent |-> FALSE, photos |-> {}]
Shown == [Quiet EXCEPT !.auto = TRUE, !.done = TRUE, !.photos = {"done"}]

\* One class with a student and an event in it, and room for another; a third event to come.
MCInit ==
  /\ Scenes
  /\ groups = {g1}
  /\ home = [i \in Items |-> IF i \in {s1, e1} THEN g1 ELSE NoGroup]
  /\ rows \in {[i \in Items |-> IF i \in {n, e3} THEN "new" ELSE "there"] : n \in {s2, e2}}
  /\ \E c \in {Quiet, Shown} :
       /\ c = Shown => news < MaxNews
       /\ course = [e \in Events |-> IF rows[e] = "new" THEN [Quiet EXCEPT !.recent = TRUE]
                                      ELSE IF e = e1 THEN c ELSE Quiet]
  /\ face = [s \in Students |-> "pending"]
  /\ saves = <<s1>>
  /\ Init
  /\ links = {t \in Teachers : Exists(t) /\ t = t1} \X {g1}
  /\ trail[1].who = s1
  /\ Staffed

MCSpec == MCInit /\ [][Next]_vars

MCRank == s1 :> 1 @@ s2 :> 2 @@ e1 :> 3 @@ e2 :> 4 @@ e3 :> 5 @@ t1 :> 6 @@ t2 :> 7

MCNameOf == [g \in {g1, g2} |-> "5A"]

Line(s, class, valid) == [who |-> s, class |-> class, valid |-> valid]

MCSheets ==
  {<<Line(s2, "5A", TRUE)>>,
   <<Line(s2, NoName, TRUE), Line(s2, "5A", TRUE)>>,
   <<Line(s1, "5A", FALSE), Line(s2, "5A", TRUE)>>}

MCPicks == {<<s1>>, <<s1, s2>>}

Symmetry == Permutations(Requests) \cup Permutations(Admins)
=============================================================================
