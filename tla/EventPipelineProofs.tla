------------------------- MODULE EventPipelineProofs -------------------------
(* Theorems about EventPipeline, for every value of its constants. *)
EXTENDS EventPipeline, NaturalsInduction, WellFoundedInduction,
  FiniteSetTheorems, TLAPS

\* A set of job ids that is not empty has an oldest one.
LEMMA OldestIn ==
  ASSUME NEW S, S \subseteq Nat, S # {}
  PROVE  Oldest(S) \in S /\ \A j \in S : Oldest(S) <= j
<1>1. \E x \in S : \A y \in S : ~ (<<y, x>> \in OpToRel(<, Nat))
  BY NatLessThanWellFounded, WFMin, Zenon
<1>2. PICK x \in S : \A y \in S : ~ (<<y, x>> \in OpToRel(<, Nat))
  BY <1>1, Zenon
<1>3. \A y \in S : x <= y
  <2>1. TAKE y \in S
  <2>2. ~ (<<y, x>> \in OpToRel(<, Nat))
    BY <1>2, Zenon
  <2>3. y \in Nat /\ x \in Nat
    OBVIOUS
  <2>4. ~ (y < x)
    BY <2>2, <2>3 DEF OpToRel
  <2>5. QED
    BY <2>3, <2>4, SMT
<1>4. QED
  BY <1>3, Zenon DEF Oldest

\* So has a set of messages.
LEMMA JobsOldest ==
  ASSUME NEW S, S \subseteq Jobs, S # {}
  PROVE  Oldest(S) \in S /\ Oldest(S) \in Jobs
<1>1. S \subseteq Nat
  BY PipelineAssumption DEF Jobs
<1>2. QED
  BY <1>1, OldestIn

\* Handing out a lease keeps the types of what it assigns.
LEMMA YieldType ==
  ASSUME TypeOK, NEW w \in Workers, NEW S, S \subseteq Jobs,
         NEW next \in LoopStates, Yield(w, S, next)
  PROVE  /\ wpc' \in [Workers -> LoopStates]
         /\ cur' \in [Workers -> Jobs \cup {NoJob}]
         /\ leases' \in [Workers -> SUBSET Jobs]
<1>1. CASE S = {}
  BY <1>1 DEF TypeOK, Yield, LoopStates
<1>2. CASE S # {}
  <2>1. Oldest(S) \in Jobs
    BY <1>2, JobsOldest
  <2>2. QED
    BY <1>2, <2>1 DEF TypeOK, Yield, LoopStates
<1>3. QED
  BY <1>1, <1>2

\* So does resuming the consume loop.
LEMMA ResumeType ==
  ASSUME TypeOK, NEW w \in Workers, Resume(w)
  PROVE  /\ wpc' \in [Workers -> LoopStates]
         /\ cur' \in [Workers -> Jobs \cup {NoJob}]
         /\ leases' \in [Workers -> SUBSET Jobs]
         /\ fresh' \in [Workers -> BOOLEAN]
         /\ todo' \in [Workers -> SUBSET Photos]
<1>1. (IF fresh[w] THEN "reclaim" ELSE "fetch") \in LoopStates
  BY DEF LoopStates
<1>2. leases[w] \subseteq Jobs
  BY DEF TypeOK
<1>3. Yield(w, leases[w], IF fresh[w] THEN "reclaim" ELSE "fetch")
  BY DEF Resume
<1>4. fresh' \in [Workers -> BOOLEAN] /\ todo' \in [Workers -> SUBSET Photos]
  BY DEF Resume, TypeOK
<1>5. QED
  BY <1>1, <1>2, <1>3, <1>4, YieldType

\* Type correctness holds initially ...
LEMMA InitType == ASSUME Init PROVE TypeOK
BY PipelineAssumption DEF Init, TypeOK, EventStates, PhotoStates, EntryStates,
  LoopStates, DeadLetters, Jobs, NoJob

\* ... and every step preserves it.
LEMMA NextType == ASSUME TypeOK, [Next]_vars PROVE TypeOK'
<1> USE PipelineAssumption DEF TypeOK, boundVars, EventStates, PhotoStates, LoopStates, EntryStates
<1> USE DEF dbVars, streamVars, loopVars, sweepVars, callVars, histVars
<1>1. ASSUME NEW m \in Photos, CheckActive(m) \/ RegisterMedia(m) PROVE TypeOK'
  BY <1>1 DEF CheckActive, RegisterMedia
<1>2. ASSUME NEW e \in Events, SetStatus(e) PROVE TypeOK'
  BY <1>2 DEF SetStatus
<1>3. ASSUME NEW e \in Events, GoStale(e) PROVE TypeOK'
  BY <1>3 DEF GoStale
<1>4. ASSUME NEW c \in Callers, NEW e \in Events, ReadEvent(c, e) PROVE TypeOK'
  BY <1>4 DEF ReadEvent
<1>5. ASSUME NEW c \in Callers, CountPhotos(c) PROVE TypeOK'
  <2>1. CASE Return(c)
    BY <1>5, <2>1 DEF CountPhotos, Return
  <2>2. CASE rpc' = [rpc EXCEPT ![c] = "enqueue"] /\ UNCHANGED <<rEvent, rFailed>>
    BY <1>5, <2>2 DEF CountPhotos
  <2>3. QED
    BY <1>5, <2>1, <2>2 DEF CountPhotos
<1>6. ASSUME NEW c \in Callers, Enqueue(c) PROVE TypeOK'
  BY <1>6 DEF Enqueue, Registered
<1>7. ASSUME NEW c \in Callers, SetQueued(c) PROVE TypeOK'
  BY <1>7 DEF SetQueued, Return
<1>8. ASSUME NEW c \in Callers, RequestFails(c) PROVE TypeOK'
  BY <1>8 DEF RequestFails, Return
<1>9. ASSUME NEW w \in Workers, Reclaim(w) PROVE TypeOK'
  <2> DEFINE claimed == OldestN({i \in Jobs : entry[i] = "idle"}, ClaimBatch)
  <2>1. claimed \subseteq Jobs
    BY DEF OldestN
  <2>2. entry' \in [Jobs -> EntryStates]
    BY <1>9 DEF Reclaim
  <2>3. deliveries' \in [Jobs -> 0..(MaxDeliveries + 1)]
    <3> HIDE DEF claimed
    <3>1. deliveries' = [i \in Jobs |->
             IF i \in claimed /\ deliveries[i] <= MaxDeliveries
               THEN deliveries[i] + 1 ELSE deliveries[i]]
      BY <1>9 DEF Reclaim, claimed
    <3>2. QED
      BY <3>1
  <2>4. batch' \in [Workers -> SUBSET Jobs]
    BY <1>9, <2>1 DEF Reclaim
  <2>5. wpc' \in [Workers -> LoopStates]
    <3> HIDE DEF claimed
    <3>1. wpc' = [wpc EXCEPT ![w] = IF claimed = {} THEN "fetch" ELSE "triage"]
      BY <1>9 DEF Reclaim, claimed
    <3>2. QED
      BY <3>1
  <2>6. QED
    BY <1>9, <2>2, <2>3, <2>4, <2>5 DEF Reclaim
<1>10. ASSUME NEW w \in Workers, KeepLease(w) PROVE TypeOK'
  <2>1. Oldest(batch[w]) \in Jobs
    BY <1>10, JobsOldest DEF KeepLease
  <2>2. QED
    BY <1>10, <2>1 DEF KeepLease, Lease
<1>11. ASSUME NEW w \in Workers, GiveUp(w) \/ DeadLetter(w) PROVE TypeOK'
  <2>2. NewCopies(Oldest(batch[w])) \subseteq DeadLetters
    BY DEF NewCopies
  <2>3. QED
    BY <1>11, <2>2 DEF GiveUp, DeadLetter
<1>12. ASSUME NEW w \in Workers, Unlist(w) PROVE TypeOK'
  BY <1>12 DEF Unlist
<1>13. ASSUME NEW w \in Workers, YieldReclaimed(w) PROVE TypeOK'
  <2>1. leases[w] \subseteq Jobs
    OBVIOUS
  <2>2. QED
    BY <1>13, <2>1, YieldType DEF YieldReclaimed
<1>14. ASSUME NEW w \in Workers, Fetch(w) PROVE TypeOK'
  <2> DEFINE unseen == {i \in Jobs : entry[i] = "new"}
  <2>1. CASE unseen = {}
    BY <1>14, <2>1 DEF Fetch
  <2>2. CASE unseen # {}
    <3>1. Oldest(unseen) \in Jobs
      BY <2>2, JobsOldest
    <3> HIDE DEF unseen
    <3>2. /\ entry' = [entry EXCEPT ![Oldest(unseen)] = "pending"]
          /\ deliveries' = [deliveries EXCEPT ![Oldest(unseen)] = 1]
          /\ cur' = [cur EXCEPT ![w] = Oldest(unseen)]
          /\ fresh' = [fresh EXCEPT ![w] = TRUE]
          /\ wpc' = [wpc EXCEPT ![w] = "begin"]
          /\ leased' = [leased EXCEPT ![Oldest(unseen)] = leased[Oldest(unseen)] + 1]
      BY <1>14, <2>2 DEF Fetch, Lease, unseen
    <3>3. deliveries' \in [Jobs -> 0..(MaxDeliveries + 1)]
      BY <3>1, <3>2
    <3>4. cur' \in [Workers -> Jobs \cup {NoJob}]
      BY <3>1, <3>2
    <3>5. entry' \in [Jobs -> EntryStates] /\ wpc' \in [Workers -> LoopStates]
          /\ fresh' \in [Workers -> BOOLEAN] /\ leased' \in [Jobs -> Nat]
      BY <3>1, <3>2
    <3>6. QED
      BY <1>14, <3>3, <3>4, <3>5 DEF Fetch
  <2>3. QED
    BY <2>1, <2>2
<1>15. ASSUME NEW w \in Workers, BeginEvent(w) PROVE TypeOK'
  BY <1>15 DEF BeginEvent
<1>16. ASSUME NEW w \in Workers, ReadRoster(w) PROVE TypeOK'
  BY <1>16 DEF ReadRoster, Registered, Outstanding
<1>17. ASSUME NEW w \in Workers, RunPhoto(w) PROVE TypeOK'
  BY <1>17 DEF RunPhoto
<1>18. ASSUME NEW w \in Workers, FinishEvent(w) PROVE TypeOK'
  BY <1>18 DEF FinishEvent
<1>19. ASSUME NEW w \in Workers, Ack(w) PROVE TypeOK'
  <2>1. entry' \in [Jobs -> EntryStates]
    BY <1>19 DEF Ack
  <2>2. QED
    BY <1>19, <2>1, ResumeType DEF Ack
<1>20. ASSUME NEW w \in Workers, Nack(w) PROVE TypeOK'
  <2>1. QED
    BY <1>20, ResumeType DEF Nack
<1>21. ASSUME NEW w \in Workers, Drain(w) PROVE TypeOK'
  BY <1>21 DEF Drain
<1>22. ASSUME NEW w \in Workers, MarkFailed(w) PROVE TypeOK'
  <2>1. PICK d \in drained[w] :
          /\ evStatus' = [evStatus EXCEPT ![jobEvent[d.job]] =
               IF evStatus[jobEvent[d.job]] \in Failable THEN "failed"
               ELSE evStatus[jobEvent[d.job]]]
          /\ told' = told \cup {d.job}
          /\ drained' = [drained EXCEPT ![w] = drained[w] \ {d}]
          /\ marked' = [marked EXCEPT ![w] = {d}]
    BY <1>22 DEF MarkFailed
  <2>2. d \in DeadLetters /\ d.job \in Jobs
    BY DEF DeadLetters
  <2>3. drained' \in [Workers -> SUBSET DeadLetters]
    BY <2>1
  <2>4. marked' \in [Workers -> SUBSET DeadLetters]
    BY <2>1, <2>2
  <2>5. told' \subseteq Jobs
    BY <2>1, <2>2
  <2>6. evStatus' \in [Events -> EventStates]
    BY <2>1
  <2>7. QED
    BY <1>22, <2>3, <2>4, <2>5, <2>6 DEF MarkFailed
<1>23. ASSUME NEW w \in Workers, RemoveDead(w) PROVE TypeOK'
  BY <1>23 DEF RemoveDead
<1>24. ASSUME NEW w \in Workers, SweepFails(w) PROVE TypeOK'
  BY <1>24 DEF SweepFails, ForgetDrained
<1>25. ASSUME NEW w \in Workers, Crash(w) PROVE TypeOK'
  BY <1>25 DEF Crash, ForgetDrained
<1>26. ASSUME NEW i \in Jobs, BecomeIdle(i) PROVE TypeOK'
  BY <1>26 DEF BecomeIdle
<1>27. ASSUME UNCHANGED vars PROVE TypeOK'
  BY <1>27 DEF vars
<1>28. QED
  BY <1>1, <1>2, <1>3, <1>4, <1>5, <1>6, <1>7, <1>8, <1>9, <1>10, <1>11, <1>12, <1>13, <1>14, <1>15, <1>16, <1>17, <1>18, <1>19, <1>20, <1>21, <1>22, <1>23, <1>24, <1>25, <1>26, <1>27
  DEF Next, Consume, Sweep, Request

\* Every variable keeps its type, whatever the constants.
THEOREM PipelineTypes == Spec => []TypeOK
<1>1. QED
  BY InitType, NextType, PTL DEF Spec

-----------------------------------------------------------------------------
(* Acknowledged jobs have run their photos.                                *)

\* Handing out a lease leaves every loop with messages that exist, and the
\* worker itself neither among photos nor before an ack.
LEMMA YieldRefs ==
  ASSUME TypeOK, References, NEW w \in Workers,
         NEW next \in {"reclaim", "fetch"}, Yield(w, leases[w], next)
  PROVE  /\ \A v \in Workers : leases'[v] \subseteq leases[v]
         /\ \A v \in Workers : wpc'[v] \in Handling =>
              cur'[v] \in Jobs /\ entry[cur'[v]] # "none"
         /\ \A v \in Workers : wpc'[v] \in {"photo", "ack"} =>
              wpc[v] = wpc'[v] /\ cur[v] = cur'[v] /\ v # w
<1>1. CASE leases[w] = {}
  BY <1>1 DEF TypeOK, Yield, References, Handling
<1>2. CASE leases[w] # {}
  <2>1. Oldest(leases[w]) \in leases[w] /\ Oldest(leases[w]) \in Jobs
    BY <1>2, JobsOldest DEF TypeOK
  <2>2. /\ wpc' = [wpc EXCEPT ![w] = "begin"]
        /\ cur' = [cur EXCEPT ![w] = Oldest(leases[w])]
        /\ leases' = [leases EXCEPT ![w] = leases[w] \ {Oldest(leases[w])}]
    BY <1>2 DEF Yield
  <2>3. QED
    BY <2>1, <2>2 DEF TypeOK, References, Handling
<1>3. QED
  BY <1>1, <1>2

\* No job owes anything before it is on the stream, and the stream is empty.
LEMMA InitAck == ASSUME Init PROVE AckInv
BY DEF Init, AckInv, References, OwedAreRegistered, RosterCoversOwed,
  AckedJobsRanTheirPhotos, Handling

\* Steps that leave the variables of AckInv alone.
LEMMA AckFrame ==
  ASSUME AckInv, UNCHANGED <<media, entry, jobEvent, wpc, batch, leases, cur,
                             todo, rpc, rEvent, owed>>
  PROVE  AckInv'
BY DEF AckInv, References, OwedAreRegistered, HasRow, RosterCoversOwed,
  AckedJobsRanTheirPhotos, Handling

\* Steps that only move a message between states other than "none" and
\* "acked", or move a loop, keep the three conjuncts about owed photos when
\* no worker comes to the photos or to the ack.
LEMMA OwedFrame ==
  ASSUME TypeOK, AckInv, UNCHANGED <<media, jobEvent, owed, todo>>,
         \A i \in Jobs : entry[i] = "none" <=> entry'[i] = "none",
         \A i \in Jobs : entry'[i] = "acked" => entry[i] = "acked",
         \A v \in Workers : wpc'[v] \in {"photo", "ack"} =>
           wpc'[v] = wpc[v] /\ cur'[v] = cur[v]
  PROVE  OwedAreRegistered' /\ RosterCoversOwed' /\ AckedJobsRanTheirPhotos'
<1>1. OwedAreRegistered'
  BY DEF AckInv, OwedAreRegistered, HasRow
<1>2. RosterCoversOwed'
  BY DEF AckInv, RosterCoversOwed
<1>3. AckedJobsRanTheirPhotos'
  BY DEF AckInv, AckedJobsRanTheirPhotos
<1>4. QED
  BY <1>1, <1>2, <1>3

\* Every step preserves AckInv.
LEMMA NextAck == ASSUME TypeOK, AckInv, [Next]_vars PROVE AckInv'
<1> USE PipelineAssumption DEF dbVars, streamVars, loopVars, sweepVars, callVars,
  histVars, boundVars
<1>1. ASSUME NEW m \in Photos, CheckActive(m) \/ RegisterMedia(m) PROVE AckInv'
  BY <1>1 DEF TypeOK, AckInv, References, Handling, OwedAreRegistered, HasRow,
    RosterCoversOwed, AckedJobsRanTheirPhotos, CheckActive, RegisterMedia
<1>2. ASSUME NEW c \in Callers, NEW e \in Events, ReadEvent(c, e) PROVE AckInv'
  <2>1. References'
    BY <1>2 DEF TypeOK, AckInv, References, ReadEvent
  <2>2. QED
    BY <1>2, <2>1, OwedFrame DEF AckInv, ReadEvent
<1>3. ASSUME NEW c \in Callers, CountPhotos(c) PROVE AckInv'
  <2>1. References'
    BY <1>3 DEF TypeOK, AckInv, References, CountPhotos, Return
  <2>2. QED
    BY <1>3, <2>1, OwedFrame DEF AckInv, CountPhotos
<1>4. ASSUME NEW c \in Callers, Enqueue(c) PROVE AckInv'
  <2>1. References'
    BY <1>4 DEF TypeOK, AckInv, References, Handling, Enqueue
  <2>2. OwedAreRegistered'
    BY <1>4 DEF TypeOK, AckInv, References, OwedAreRegistered, HasRow, Enqueue,
      Registered
  <2>3. RosterCoversOwed'
    BY <1>4 DEF TypeOK, AckInv, RosterCoversOwed, Handling, References, Enqueue
  <2>4. AckedJobsRanTheirPhotos'
    BY <1>4 DEF TypeOK, AckInv, AckedJobsRanTheirPhotos, Enqueue
  <2>5. QED
    BY <2>1, <2>2, <2>3, <2>4 DEF AckInv
<1>5. ASSUME NEW c \in Callers, SetQueued(c) \/ RequestFails(c) PROVE AckInv'
  <2>1. References'
    BY <1>5 DEF TypeOK, AckInv, References, SetQueued, RequestFails, Return
  <2>2. QED
    BY <1>5, <2>1, OwedFrame DEF AckInv, SetQueued, RequestFails
<1>6. ASSUME NEW w \in Workers, Reclaim(w) PROVE AckInv'
  <2> DEFINE claimed == OldestN({i \in Jobs : entry[i] = "idle"}, ClaimBatch)
  <2>1. claimed \subseteq {i \in Jobs : entry[i] = "idle"}
    BY DEF OldestN
  <2> HIDE DEF claimed
  <2>2. /\ entry' = [i \in Jobs |-> IF i \in claimed THEN "pending" ELSE entry[i]]
        /\ batch' = [batch EXCEPT ![w] = claimed]
        /\ wpc' = [wpc EXCEPT ![w] = IF claimed = {} THEN "fetch" ELSE "triage"]
        /\ UNCHANGED <<media, jobEvent, leases, cur, todo, rpc, rEvent, owed>>
    BY <1>6 DEF Reclaim, claimed
  <2>3. \A i \in Jobs : entry[i] = "none" <=> entry'[i] = "none"
    BY <2>1, <2>2
  <2>4. References'
    BY <2>1, <2>2, <2>3 DEF TypeOK, AckInv, References, Handling
  <2>5. QED
    BY <2>2, <2>3, <2>4, OwedFrame DEF TypeOK, AckInv
<1>7. ASSUME NEW w \in Workers, KeepLease(w) PROVE AckInv'
  <2>1. Oldest(batch[w]) \in batch[w]
    BY <1>7, JobsOldest DEF KeepLease, TypeOK
  <2>2. References'
    BY <1>7, <2>1 DEF TypeOK, AckInv, References, Handling, KeepLease
  <2>3. QED
    BY <1>7, <2>2, OwedFrame DEF AckInv, KeepLease
<1>8. ASSUME NEW w \in Workers, GiveUp(w) \/ DeadLetter(w) PROVE AckInv'
  <2>1. References'
    BY <1>8 DEF TypeOK, AckInv, References, Handling, GiveUp, DeadLetter
  <2>2. QED
    BY <1>8, <2>1, OwedFrame DEF TypeOK, AckInv, GiveUp, DeadLetter
<1>9. ASSUME NEW w \in Workers, Unlist(w) PROVE AckInv'
  <2>1. \A i \in Jobs : /\ entry[i] = "none" <=> entry'[i] = "none"
                        /\ entry'[i] = "acked" => entry[i] = "acked"
    BY <1>9 DEF TypeOK, Unlist, Unacked
  <2>2. References'
    BY <1>9, <2>1 DEF TypeOK, AckInv, References, Handling, Unlist
  <2>3. QED
    BY <1>9, <2>1, <2>2, OwedFrame DEF TypeOK, AckInv, Unlist
<1>10. ASSUME NEW w \in Workers, YieldReclaimed(w) PROVE AckInv'
  <2>1. Yield(w, leases[w], "fetch")
    BY <1>10 DEF YieldReclaimed
  <2>2. References'
    BY <1>10, <2>1, YieldRefs DEF TypeOK, AckInv, References, YieldReclaimed
  <2>3. QED
    BY <1>10, <2>1, <2>2, YieldRefs, OwedFrame DEF AckInv, YieldReclaimed
<1>11. ASSUME NEW w \in Workers, Fetch(w) PROVE AckInv'
  <2> DEFINE unseen == {i \in Jobs : entry[i] = "new"}
  <2>1. CASE unseen = {}
    <3>1. References'
      BY <1>11, <2>1 DEF TypeOK, AckInv, References, Handling, Fetch
    <3>2. QED
      BY <1>11, <2>1, <3>1, OwedFrame DEF TypeOK, AckInv, Fetch
  <2>2. CASE unseen # {}
    <3>1. Oldest(unseen) \in unseen /\ Oldest(unseen) \in Jobs
      BY <2>2, JobsOldest
    <3>2. entry[Oldest(unseen)] = "new"
      BY <3>1
    <3> HIDE DEF unseen
    <3>3. /\ entry' = [entry EXCEPT ![Oldest(unseen)] = "pending"]
          /\ cur' = [cur EXCEPT ![w] = Oldest(unseen)]
          /\ wpc' = [wpc EXCEPT ![w] = "begin"]
          /\ UNCHANGED <<media, jobEvent, batch, leases, todo, rpc, rEvent, owed>>
      BY <1>11, <2>2 DEF Fetch, unseen
    <3>4. \A i \in Jobs : /\ entry[i] = "none" <=> entry'[i] = "none"
                          /\ entry'[i] = "acked" => entry[i] = "acked"
      BY <3>1, <3>2, <3>3 DEF TypeOK
    <3>5. References'
      BY <3>1, <3>3, <3>4 DEF TypeOK, AckInv, References, Handling
    <3>6. QED
      BY <3>3, <3>4, <3>5, OwedFrame DEF TypeOK, AckInv
  <2>3. QED
    BY <2>1, <2>2
<1>12. ASSUME NEW w \in Workers, BeginEvent(w) PROVE AckInv'
  <2>1. References'
    BY <1>12 DEF TypeOK, AckInv, References, Handling, BeginEvent
  <2>2. QED
    BY <1>12, <2>1, OwedFrame DEF TypeOK, AckInv, BeginEvent
<1>13. ASSUME NEW w \in Workers, ReadRoster(w) PROVE AckInv'
  <2>1. References'
    BY <1>13 DEF TypeOK, AckInv, References, Handling, ReadRoster
  <2>2. RosterCoversOwed'
    BY <1>13 DEF TypeOK, AckInv, RosterCoversOwed, Handling, References,
      OwedAreRegistered, HasRow, ReadRoster, Registered, Outstanding, PhotoStates
  <2>3. OwedAreRegistered' /\ AckedJobsRanTheirPhotos'
    BY <1>13 DEF AckInv, OwedAreRegistered, HasRow, AckedJobsRanTheirPhotos, ReadRoster
  <2>4. QED
    BY <2>1, <2>2, <2>3 DEF AckInv
<1>14. ASSUME NEW w \in Workers, RunPhoto(w) PROVE AckInv'
  <2>1. References'
    BY <1>14 DEF AckInv, References, RunPhoto
  <2>2. OwedAreRegistered'
    BY <1>14 DEF TypeOK, AckInv, OwedAreRegistered, HasRow, RunPhoto
  <2>3. RosterCoversOwed'
    BY <1>14 DEF TypeOK, AckInv, RosterCoversOwed, RunPhoto
  <2>4. AckedJobsRanTheirPhotos'
    BY <1>14 DEF TypeOK, AckInv, AckedJobsRanTheirPhotos, RunPhoto
  <2>5. QED
    BY <2>1, <2>2, <2>3, <2>4 DEF AckInv
<1>15. ASSUME NEW w \in Workers, FinishEvent(w) PROVE AckInv'
  <2>1. References'
    BY <1>15 DEF TypeOK, AckInv, References, Handling, FinishEvent
  <2>2. RosterCoversOwed'
    BY <1>15 DEF TypeOK, AckInv, RosterCoversOwed, FinishEvent
  <2>3. OwedAreRegistered' /\ AckedJobsRanTheirPhotos'
    BY <1>15 DEF AckInv, OwedAreRegistered, HasRow, AckedJobsRanTheirPhotos,
      FinishEvent
  <2>4. QED
    BY <2>1, <2>2, <2>3 DEF AckInv
<1>16. ASSUME NEW w \in Workers, Ack(w) \/ Nack(w) PROVE AckInv'
  <2>1. PICK next \in {"reclaim", "fetch"} : Yield(w, leases[w], next)
    BY <1>16 DEF Ack, Nack, Resume
  <2>2. /\ todo' = [todo EXCEPT ![w] = {}]
        /\ UNCHANGED <<media, jobEvent, batch, rpc, rEvent, owed>>
    BY <1>16 DEF Ack, Nack, Resume
  <2>3. cur[w] \in Jobs
    BY <1>16 DEF Ack, Nack, AckInv, References, Handling
  <2>4. \A i \in Jobs :
          /\ entry[i] = "none" <=> entry'[i] = "none"
          /\ entry'[i] = "acked" =>
               (entry[i] = "acked" \/ (wpc[w] = "ack" /\ i = cur[w]))
    BY <1>16, <2>3 DEF TypeOK, Ack, Nack, Unacked
  <2>5. References'
    <3>1. /\ \A v \in Workers : leases'[v] \subseteq leases[v]
          /\ \A v \in Workers : wpc'[v] \in Handling =>
               cur'[v] \in Jobs /\ entry[cur'[v]] # "none"
      BY <2>1, YieldRefs DEF AckInv
    <3>2. \A v \in Workers : batch[v] \subseteq Jobs /\ leases[v] \subseteq Jobs
      BY DEF TypeOK
    <3>3. QED
      BY <2>2, <2>4, <3>1, <3>2 DEF AckInv, References, Handling
  <2>6. OwedAreRegistered'
    BY <2>2, <2>4 DEF AckInv, OwedAreRegistered, HasRow
  <2>7. RosterCoversOwed'
    BY <2>1, <2>2, YieldRefs DEF TypeOK, AckInv, RosterCoversOwed
  <2>8. AckedJobsRanTheirPhotos'
    <3>1. SUFFICES ASSUME NEW i \in Jobs, entry'[i] = "acked", NEW m \in owed[i]
                   PROVE  media[m] \in {"completed", "failed"}
      BY <2>2 DEF AckedJobsRanTheirPhotos
    <3>2. CASE entry[i] = "acked"
      BY <3>2 DEF AckInv, AckedJobsRanTheirPhotos
    <3>3. CASE wpc[w] = "ack" /\ i = cur[w]
      <4>1. media[m] # "pending" /\ HasRow(m)
        BY <3>3 DEF AckInv, RosterCoversOwed, OwedAreRegistered
      <4>2. m \in Photos
        BY DEF TypeOK
      <4>3. QED
        BY <4>1, <4>2 DEF TypeOK, PhotoStates, HasRow
    <3>4. QED
      BY <2>4, <3>1, <3>2, <3>3
  <2>9. QED
    BY <2>5, <2>6, <2>7, <2>8 DEF AckInv
<1>17. ASSUME NEW w \in Workers, Crash(w) PROVE AckInv'
  BY <1>17 DEF TypeOK, AckInv, References, Handling, OwedAreRegistered, HasRow,
    RosterCoversOwed, AckedJobsRanTheirPhotos, Crash
<1>18. ASSUME NEW i \in Jobs, BecomeIdle(i) PROVE AckInv'
  <2>1. References'
    BY <1>18 DEF TypeOK, AckInv, References, Handling, BecomeIdle
  <2>2. QED
    BY <1>18, <2>1, OwedFrame DEF TypeOK, AckInv, BecomeIdle
<1>19. ASSUME NEW w \in Workers,
              Drain(w) \/ MarkFailed(w) \/ RemoveDead(w) \/ SweepFails(w)
       PROVE  AckInv'
  BY <1>19, AckFrame DEF Drain, MarkFailed, RemoveDead, SweepFails
<1>20. ASSUME NEW e \in Events, SetStatus(e) \/ GoStale(e) PROVE AckInv'
  BY <1>20, AckFrame DEF SetStatus, GoStale
<1>21. ASSUME UNCHANGED vars PROVE AckInv'
  BY <1>21, AckFrame DEF vars
<1>22. QED
  BY <1>1, <1>2, <1>3, <1>4, <1>5, <1>6, <1>7, <1>8, <1>9, <1>10, <1>11, <1>12,
     <1>13, <1>14, <1>15, <1>16, <1>17, <1>18, <1>19, <1>20, <1>21
  DEF Next, Consume, Sweep, Request

\* Whatever the number of workers, requests, crashes and redeliveries: a job
\* is acknowledged only when every photo registered before it was put on the
\* stream has had an outcome.
THEOREM AcksAreEarned == Spec => []AckedJobsRanTheirPhotos
<1>1. Init => TypeOK /\ AckInv
  BY InitType, InitAck
<1>2. TypeOK /\ AckInv /\ [Next]_vars => (TypeOK /\ AckInv)'
  BY NextType, NextAck
<1>3. AckInv => AckedJobsRanTheirPhotos
  BY DEF AckInv
<1>4. QED
  BY <1>1, <1>2, <1>3, PTL DEF Spec

-----------------------------------------------------------------------------
(* Dead letters: no job is lost, and none is given up on too early.        *)

\* There are no dead letters at the start.
LEMMA InitDead == ASSUME Init PROVE DeadInv
BY DEF Init, DeadInv, GivenUpWereExhausted, CopyBeforeUnlist, DeadJobsAreNotLost

\* Steps that leave the variables of DeadInv alone.
LEMMA DeadFrame ==
  ASSUME DeadInv, UNCHANGED <<entry, deliveries, dlq, wpc, batch, marked, told>>
  PROVE  DeadInv'
BY DEF DeadInv, GivenUpWereExhausted, CopyBeforeUnlist, DeadJobsAreNotLost

\* Steps of the consume loops that touch no dead letter: nothing new is taken
\* off the stream, delivery counts do not fall, and no loop comes among the
\* commands that give a message up or changes its batch while it is there.
LEMMA LoopFrame ==
  ASSUME TypeOK, DeadInv, UNCHANGED <<dlq, marked, told>>,
         \A i \in Jobs : entry'[i] = "dead" => entry[i] = "dead",
         \A i \in Jobs : entry'[i] \in {"none", "new"} =>
           entry[i] \in {"none", "new"} /\ deliveries'[i] = deliveries[i],
         \A i \in Jobs : deliveries[i] > MaxDeliveries => deliveries'[i] > MaxDeliveries,
         \A v \in Workers : wpc'[v] \in {"bury", "unlist"} =>
           wpc[v] = wpc'[v] /\ batch'[v] = batch[v]
  PROVE  DeadInv'
<1>1. \A d \in dlq : d.job \in Jobs
  BY DEF TypeOK, DeadLetters
<1>2. CopyBeforeUnlist'
  BY <1>1 DEF DeadInv, CopyBeforeUnlist
<1>3. DeadJobsAreNotLost'
  BY DEF DeadInv, DeadJobsAreNotLost
<1>4. GivenUpWereExhausted'
  <2>1. ASSUME NEW v \in Workers, wpc'[v] = "bury"
        PROVE  batch'[v] # {} /\ deliveries'[Oldest(batch'[v])] > MaxDeliveries
    <3>1. batch'[v] = batch[v] /\ batch[v] # {} /\ deliveries[Oldest(batch[v])] > MaxDeliveries
      BY <2>1 DEF DeadInv, GivenUpWereExhausted
    <3>2. Oldest(batch[v]) \in Jobs
      BY <3>1, JobsOldest DEF TypeOK
    <3> QED
      BY <3>1, <3>2
  <2>2. \A d \in dlq' : deliveries'[d.job] > MaxDeliveries
    BY <1>1 DEF DeadInv, GivenUpWereExhausted
  <2>3. \A i \in Jobs : entry'[i] \in {"none", "new"} => deliveries'[i] = 0
    BY DEF DeadInv, GivenUpWereExhausted
  <2> QED
    BY <2>1, <2>2, <2>3 DEF GivenUpWereExhausted
<1>5. QED
  BY <1>2, <1>3, <1>4 DEF DeadInv

\* After handing out a lease, no loop has come among those commands.
LEMMA YieldNoUnlist ==
  ASSUME TypeOK, NEW w \in Workers, NEW S, NEW next \in {"reclaim", "fetch"},
         Yield(w, S, next)
  PROVE  \A v \in Workers : wpc'[v] \in {"bury", "unlist"} => wpc[v] = wpc'[v]
BY DEF TypeOK, Yield

\* Every step preserves DeadInv.
LEMMA NextDead == ASSUME TypeOK, DeadInv, [Next]_vars PROVE DeadInv'
<1> USE PipelineAssumption DEF dbVars, streamVars, loopVars, sweepVars, callVars,
  histVars, boundVars
<1>1. ASSUME NEW c \in Callers, Enqueue(c) PROVE DeadInv'
  BY <1>1, LoopFrame DEF TypeOK, Enqueue
<1>2. ASSUME NEW w \in Workers, Reclaim(w) PROVE DeadInv'
  <2> DEFINE claimed == OldestN({i \in Jobs : entry[i] = "idle"}, ClaimBatch)
  <2>1. claimed \subseteq {i \in Jobs : entry[i] = "idle"}
    BY DEF OldestN
  <2> HIDE DEF claimed
  <2>2. /\ entry' = [i \in Jobs |-> IF i \in claimed THEN "pending" ELSE entry[i]]
        /\ deliveries' = [i \in Jobs |->
             IF i \in claimed /\ deliveries[i] <= MaxDeliveries
               THEN deliveries[i] + 1 ELSE deliveries[i]]
        /\ batch' = [batch EXCEPT ![w] = claimed]
        /\ wpc[w] = "reclaim"
        /\ wpc' = [wpc EXCEPT ![w] = IF claimed = {} THEN "fetch" ELSE "triage"]
        /\ UNCHANGED <<dlq, marked, told>>
    BY <1>2 DEF Reclaim, claimed
  <2>3. \A i \in Jobs : /\ entry'[i] = "dead" => entry[i] = "dead"
                        /\ entry'[i] \in {"none", "new"} =>
                             entry[i] \in {"none", "new"} /\ deliveries'[i] = deliveries[i]
    BY <2>1, <2>2
  <2>4. \A i \in Jobs : deliveries[i] > MaxDeliveries => deliveries'[i] > MaxDeliveries
    BY <2>2 DEF TypeOK
  <2>5. \A v \in Workers : wpc'[v] \in {"bury", "unlist"} =>
          wpc[v] = wpc'[v] /\ batch'[v] = batch[v]
    BY <2>2 DEF TypeOK
  <2>6. QED
    BY <2>2, <2>3, <2>4, <2>5, LoopFrame
<1>3. ASSUME NEW w \in Workers, KeepLease(w) PROVE DeadInv'
  BY <1>3, LoopFrame DEF TypeOK, KeepLease
<1>4. ASSUME NEW w \in Workers, GiveUp(w) PROVE DeadInv'
  <2>1. /\ batch[w] # {} /\ DeliveryCount(Oldest(batch[w])) > MaxDeliveries
        /\ wpc' = [wpc EXCEPT ![w] = "bury"]
        /\ UNCHANGED <<entry, deliveries, dlq, batch, marked, told>>
    BY <1>4 DEF GiveUp
  <2>2. deliveries[Oldest(batch[w])] > MaxDeliveries
    BY <2>1 DEF DeliveryCount
  <2>3. GivenUpWereExhausted'
    BY <2>1, <2>2 DEF TypeOK, DeadInv, GivenUpWereExhausted
  <2>4. CopyBeforeUnlist' /\ DeadJobsAreNotLost'
    BY <2>1 DEF TypeOK, DeadInv, CopyBeforeUnlist, DeadJobsAreNotLost
  <2> QED
    BY <2>3, <2>4 DEF DeadInv
<1>19. ASSUME NEW w \in Workers, DeadLetter(w) PROVE DeadInv'
  <2> DEFINE i == Oldest(batch[w])
  <2>1. batch[w] # {} /\ deliveries[i] > MaxDeliveries
    BY <1>19 DEF DeadLetter, DeadInv, GivenUpWereExhausted
  <2>2. PICK d \in NewCopies(i) : dlq' = dlq \cup {d}
    BY <1>19 DEF DeadLetter
  <2> HIDE DEF i
  <2>3. d.job = i
    BY <2>2 DEF NewCopies
  <2>4. /\ wpc' = [wpc EXCEPT ![w] = "unlist"]
        /\ UNCHANGED <<entry, deliveries, batch, marked, told>>
    BY <1>19 DEF DeadLetter
  <2>5. GivenUpWereExhausted'
    BY <2>1, <2>2, <2>3, <2>4 DEF TypeOK, DeadInv, GivenUpWereExhausted
  <2>6. CopyBeforeUnlist'
    <3>1. \A v \in Workers : wpc'[v] = "unlist" =>
            /\ batch[v] # {}
            /\ Oldest(batch[v]) \in told \/ \E x \in dlq' : x.job = Oldest(batch[v])
      BY <2>1, <2>2, <2>3, <2>4 DEF i, TypeOK, DeadInv, CopyBeforeUnlist
    <3>2. \A v \in Workers : \A x \in marked[v] : x.job \in told
      BY DEF DeadInv, CopyBeforeUnlist
    <3>3. QED
      BY <2>4, <3>1, <3>2 DEF CopyBeforeUnlist
  <2>7. DeadJobsAreNotLost'
    BY <2>2, <2>4 DEF DeadInv, DeadJobsAreNotLost
  <2> QED
    BY <2>5, <2>6, <2>7 DEF DeadInv
<1>5. ASSUME NEW w \in Workers, Unlist(w) PROVE DeadInv'
  <2> DEFINE i == Oldest(batch[w])
  <2>1. /\ wpc[w] = "unlist"
        /\ entry' = [entry EXCEPT ![i] = IF Unacked(i) THEN "dead" ELSE entry[i]]
        /\ batch' = [batch EXCEPT ![w] = batch[w] \ {i}]
        /\ wpc' = [wpc EXCEPT ![w] = "triage"]
        /\ UNCHANGED <<deliveries, dlq, marked, told>>
    BY <1>5 DEF Unlist
  <2>2. batch[w] # {} /\ (i \in told \/ \E d \in dlq : d.job = i)
    BY <2>1 DEF DeadInv, CopyBeforeUnlist
  <2> HIDE DEF i
  <2>3. \A j \in Jobs : /\ entry'[j] \in {"none", "new"} => entry[j] = entry'[j]
                        /\ entry'[j] = "dead" => entry[j] = "dead" \/ j = i
    BY <2>1 DEF TypeOK
  <2>5. CopyBeforeUnlist'
    BY <2>1 DEF TypeOK, DeadInv, CopyBeforeUnlist
  <2>6. DeadJobsAreNotLost'
    BY <2>1, <2>2, <2>3 DEF DeadInv, DeadJobsAreNotLost
  <2>7. GivenUpWereExhausted'
    BY <2>1, <2>3 DEF TypeOK, DeadInv, GivenUpWereExhausted
  <2>8. QED
    BY <2>5, <2>6, <2>7 DEF DeadInv
<1>6. ASSUME NEW w \in Workers, YieldReclaimed(w) PROVE DeadInv'
  <2>1. Yield(w, leases[w], "fetch")
    BY <1>6 DEF YieldReclaimed
  <2>2. QED
    BY <1>6, <2>1, YieldNoUnlist, LoopFrame DEF TypeOK, YieldReclaimed
<1>7. ASSUME NEW w \in Workers, Fetch(w) PROVE DeadInv'
  <2> DEFINE unseen == {i \in Jobs : entry[i] = "new"}
  <2>1. CASE unseen = {}
    BY <1>7, <2>1, LoopFrame DEF TypeOK, Fetch
  <2>2. CASE unseen # {}
    <3>1. Oldest(unseen) \in unseen /\ Oldest(unseen) \in Jobs
      BY <2>2, JobsOldest
    <3>2. entry[Oldest(unseen)] = "new"
      BY <3>1
    <3> HIDE DEF unseen
    <3>3. /\ entry' = [entry EXCEPT ![Oldest(unseen)] = "pending"]
          /\ deliveries' = [deliveries EXCEPT ![Oldest(unseen)] = 1]
          /\ wpc' = [wpc EXCEPT ![w] = "begin"]
          /\ UNCHANGED <<dlq, marked, told, batch>>
      BY <1>7, <2>2 DEF Fetch, unseen
    <3>4. /\ \A i \in Jobs : deliveries[i] > MaxDeliveries => deliveries'[i] > MaxDeliveries
          /\ \A i \in Jobs : entry'[i] \in {"none", "new"} =>
               entry[i] \in {"none", "new"} /\ deliveries'[i] = deliveries[i]
      BY <3>1, <3>2, <3>3 DEF TypeOK, DeadInv, GivenUpWereExhausted
    <3>5. QED
      BY <3>1, <3>3, <3>4, LoopFrame DEF TypeOK
  <2>3. QED
    BY <2>1, <2>2
<1>8. ASSUME NEW w \in Workers, BeginEvent(w) \/ ReadRoster(w) \/ FinishEvent(w)
      PROVE  DeadInv'
  BY <1>8, LoopFrame DEF TypeOK, BeginEvent, ReadRoster, FinishEvent
<1>9. ASSUME NEW w \in Workers, Ack(w) \/ Nack(w) PROVE DeadInv'
  <2>1. PICK next \in {"reclaim", "fetch"} : Yield(w, leases[w], next)
    BY <1>9 DEF Ack, Nack, Resume
  <2>2. UNCHANGED <<deliveries, dlq, batch, marked, told>>
    BY <1>9 DEF Ack, Nack
  <2>3. \A i \in Jobs : /\ entry'[i] = "dead" => entry[i] = "dead"
                        /\ entry'[i] \in {"none", "new"} => entry[i] = entry'[i]
    BY <1>9 DEF TypeOK, Ack, Nack
  <2>4. QED
    BY <2>1, <2>2, <2>3, YieldNoUnlist, LoopFrame
<1>10. ASSUME NEW w \in Workers, MarkFailed(w) PROVE DeadInv'
  <2>1. PICK d \in drained[w] : /\ told' = told \cup {d.job}
                                /\ marked' = [marked EXCEPT ![w] = {d}]
    BY <1>10 DEF MarkFailed
  <2>2. UNCHANGED <<entry, deliveries, dlq, wpc, batch>>
    BY <1>10 DEF MarkFailed
  <2>3. \A v \in Workers : \A x \in marked'[v] : x.job \in told'
    BY <2>1 DEF TypeOK, DeadInv, CopyBeforeUnlist
  <2>4. QED
    BY <2>1, <2>2, <2>3 DEF DeadInv, CopyBeforeUnlist, DeadJobsAreNotLost,
      GivenUpWereExhausted
<1>11. ASSUME NEW w \in Workers, RemoveDead(w) PROVE DeadInv'
  <2>1. /\ dlq' = dlq \ marked[w]
        /\ marked' = [marked EXCEPT ![w] = {}]
        /\ UNCHANGED <<entry, deliveries, wpc, batch, told>>
    BY <1>11 DEF RemoveDead
  <2>2. \A x \in marked[w] : x.job \in told
    BY DEF DeadInv, CopyBeforeUnlist
  <2>3. CopyBeforeUnlist'
    BY <2>1, <2>2 DEF TypeOK, DeadInv, CopyBeforeUnlist
  <2>4. DeadJobsAreNotLost'
    BY <2>1, <2>2 DEF DeadInv, DeadJobsAreNotLost
  <2>5. GivenUpWereExhausted'
    BY <2>1 DEF DeadInv, GivenUpWereExhausted
  <2>6. QED
    BY <2>3, <2>4, <2>5 DEF DeadInv
<1>12. ASSUME NEW w \in Workers, SweepFails(w) \/ Crash(w) PROVE DeadInv'
  BY <1>12 DEF TypeOK, DeadInv, CopyBeforeUnlist, DeadJobsAreNotLost,
    GivenUpWereExhausted, SweepFails, Crash, ForgetDrained
<1>13. ASSUME NEW i \in Jobs, BecomeIdle(i) PROVE DeadInv'
  BY <1>13, LoopFrame DEF TypeOK, BecomeIdle
<1>14. ASSUME NEW w \in Workers, RunPhoto(w) \/ Drain(w) PROVE DeadInv'
  BY <1>14, DeadFrame DEF RunPhoto, Drain
<1>15. ASSUME NEW c \in Callers,
              \/ \E e \in Events : ReadEvent(c, e)
              \/ CountPhotos(c) \/ SetQueued(c) \/ RequestFails(c)
       PROVE  DeadInv'
  BY <1>15, DeadFrame DEF ReadEvent, CountPhotos, SetQueued, RequestFails
<1>16. ASSUME \/ \E m \in Photos : CheckActive(m) \/ RegisterMedia(m)
              \/ \E e \in Events : SetStatus(e) \/ GoStale(e)
       PROVE  DeadInv'
  BY <1>16, DeadFrame DEF CheckActive, RegisterMedia, SetStatus, GoStale
<1>17. ASSUME UNCHANGED vars PROVE DeadInv'
  BY <1>17, DeadFrame DEF vars
<1>18. QED
  BY <1>1, <1>2, <1>3, <1>4, <1>5, <1>6, <1>7, <1>8, <1>9, <1>10, <1>11, <1>12,
     <1>13, <1>14, <1>15, <1>16, <1>17, <1>19
  DEF Next, Consume, Sweep, Request

\* A job that leaves the stream without an ack has its event marked failed, or
\* still has a dead letter from which a sweep will do so, whatever the number
\* of workers and wherever they crash.
THEOREM NoJobIsLost == Spec => []DeadJobsAreNotLost
<1>1. Init => TypeOK /\ DeadInv
  BY InitType, InitDead
<1>2. TypeOK /\ DeadInv /\ [Next]_vars => (TypeOK /\ DeadInv)'
  BY NextType, NextDead
<1>3. DeadInv => DeadJobsAreNotLost
  BY DEF DeadInv
<1>4. QED
  BY <1>1, <1>2, <1>3, PTL DEF Spec

-----------------------------------------------------------------------------
(* A job is handed out a bounded number of times.                          *)

\* The claims on a message are counted.
LEMMA HoldersCount ==
  ASSUME NEW i \in Jobs
  PROVE  /\ IsFiniteSet(Holders(i)) /\ Cardinality(Holders(i)) \in Nat
         /\ Cardinality(Workers) \in Nat
         /\ Cardinality(Holders(i)) <= Cardinality(Workers)
<1>1. Holders(i) \subseteq Workers /\ IsFiniteSet(Workers)
  BY PipelineAssumption DEF Holders
<1> QED
  BY <1>1, FS_Subset, FS_CardinalityType

\* A worker that looks at its claim on message i leaves one claim fewer.
LEMMA OneClaimFewer ==
  ASSUME TypeOK, NEW w \in Workers, NEW i \in batch[w],
         batch' = [batch EXCEPT ![w] = batch[w] \ {i}]
  PROVE  /\ Cardinality(Holders(i)') = Cardinality(Holders(i)) - 1
         /\ \A j \in Jobs : j # i => Holders(j)' = Holders(j)
<1>1. i \in Jobs /\ w \in Holders(i)
  BY DEF TypeOK, Holders
<1>2. Holders(i)' = Holders(i) \ {w}
  BY DEF TypeOK, Holders
<1>3. \A j \in Jobs : j # i => Holders(j)' = Holders(j)
  BY DEF TypeOK, Holders
<1> QED
  BY <1>1, <1>2, <1>3, HoldersCount, FS_RemoveElement

\* What a step does not touch keeps its bound.
LEMMA BoundStays ==
  ASSUME TypeOK, NEW i \in Jobs, LeaseBound(i), Holders(i)' = Holders(i),
         leased'[i] = leased[i], deliveries'[i] = deliveries[i],
         \/ entry'[i] = entry[i]
         \/ Unacked(i) /\ Unacked(i)'
         \/ {entry[i], entry'[i]} \subseteq {"none", "new"}
  PROVE  LeaseBound(i)'
<1>1. Cardinality(Holders(i)') = Cardinality(Holders(i))
  OBVIOUS
<1> QED
  BY <1>1 DEF LeaseBound, Unacked

\* Steps that touch no claim, no lease and no message.
LEMMA LeaseFrame ==
  ASSUME TypeOK, LeasesFollowDeliveries,
         UNCHANGED <<entry, deliveries, batch, leased>>,
         \A v \in Workers : \/ wpc'[v] = wpc[v]
                            \/ wpc'[v] \in {"triage", "bury", "unlist"}
                            \/ batch[v] = {}
  PROVE  LeasesFollowDeliveries'
<1>1. \A i \in Jobs : LeaseBound(i)'
  <2> SUFFICES ASSUME NEW i \in Jobs PROVE LeaseBound(i)'
    OBVIOUS
  <2>1. LeaseBound(i) /\ Holders(i)' = Holders(i)
    BY DEF LeasesFollowDeliveries, Holders
  <2> QED
    BY <2>1, BoundStays
<1>2. \A v \in Workers : wpc'[v] \notin {"triage", "bury", "unlist"} => batch'[v] = {}
  BY DEF LeasesFollowDeliveries
<1> QED
  BY <1>1, <1>2 DEF LeasesFollowDeliveries

\* Every step keeps leases within deliveries.
LEMMA NextLeases ==
  ASSUME TypeOK, References, DeadInv, LeasesFollowDeliveries, [Next]_vars
  PROVE  LeasesFollowDeliveries'
<1> USE PipelineAssumption DEF dbVars, streamVars, loopVars, sweepVars, callVars,
  histVars, boundVars
<1> DEFINE Held(v) == wpc'[v] \notin {"triage", "bury", "unlist"} => batch'[v] = {}
<1>1. ASSUME NEW w \in Workers, Reclaim(w) PROVE LeasesFollowDeliveries'
  <2> DEFINE claimed == OldestN({i \in Jobs : entry[i] = "idle"}, ClaimBatch)
  <2>1. claimed \subseteq {i \in Jobs : entry[i] = "idle"}
    BY DEF OldestN
  <2> HIDE DEF claimed
  <2>2. /\ entry' = [i \in Jobs |-> IF i \in claimed THEN "pending" ELSE entry[i]]
        /\ deliveries' = [i \in Jobs |->
             IF i \in claimed /\ deliveries[i] <= MaxDeliveries
               THEN deliveries[i] + 1 ELSE deliveries[i]]
        /\ batch' = [batch EXCEPT ![w] = claimed]
        /\ wpc[w] = "reclaim"
        /\ wpc' = [wpc EXCEPT ![w] = IF claimed = {} THEN "fetch" ELSE "triage"]
        /\ leased' = leased
    BY <1>1 DEF Reclaim, claimed
  <2>3. batch[w] = {}
    BY <2>2 DEF LeasesFollowDeliveries
  <2>4. \A v \in Workers : Held(v)
    BY <2>2 DEF TypeOK, LeasesFollowDeliveries
  <2>5. ASSUME NEW i \in Jobs, i \notin claimed PROVE LeaseBound(i)'
    <3>1. Holders(i)' = Holders(i)
      BY <2>2, <2>3, <2>5 DEF TypeOK, Holders
    <3> QED
      BY <2>2, <2>5, <3>1, BoundStays DEF LeasesFollowDeliveries
  <2>6. ASSUME NEW i \in Jobs, i \in claimed PROVE LeaseBound(i)'
    <3>1. w \notin Holders(i) /\ Holders(i)' = Holders(i) \cup {w}
      BY <2>2, <2>3, <2>6 DEF TypeOK, Holders
    <3>2. Cardinality(Holders(i)') = Cardinality(Holders(i)) + 1
      BY <3>1, HoldersCount, FS_AddElement
    <3>3. Unacked(i) /\ entry'[i] = "pending" /\ LeaseBound(i)
      BY <2>1, <2>2, <2>6 DEF Unacked, LeasesFollowDeliveries
    <3>4. /\ deliveries[i] \in Nat /\ leased[i] \in Nat
          /\ deliveries'[i] = (IF deliveries[i] <= MaxDeliveries
                                 THEN deliveries[i] + 1 ELSE deliveries[i])
      BY <2>2, <2>6 DEF TypeOK
    <3> QED
      BY <2>2, <3>2, <3>3, <3>4, HoldersCount DEF LeaseBound
  <2> QED
    BY <2>4, <2>5, <2>6 DEF LeasesFollowDeliveries
<1>2. ASSUME NEW w \in Workers, KeepLease(w) PROVE LeasesFollowDeliveries'
  <2>0. PICK i \in Jobs : i = Oldest(batch[w]) /\ i \in batch[w]
    BY <1>2, JobsOldest DEF KeepLease, TypeOK
  <2>1. /\ DeliveryCount(i) <= MaxDeliveries
        /\ batch' = [batch EXCEPT ![w] = batch[w] \ {i}]
        /\ leased' = [leased EXCEPT ![i] = leased[i] + 1]
        /\ wpc[w] = "triage" /\ batch[w] # {}
        /\ UNCHANGED <<wpc, entry, deliveries>>
    BY <1>2, <2>0 DEF KeepLease, Lease
  <2>2. i \in batch[w] /\ i \in Jobs
    BY <2>0
  <2>3. \A v \in Workers : Held(v)
    BY <2>1 DEF TypeOK, LeasesFollowDeliveries
  <2>4. /\ Cardinality(Holders(i)') = Cardinality(Holders(i)) - 1
        /\ \A j \in Jobs : j # i => Holders(j)' = Holders(j)
    BY <2>1, <2>2, OneClaimFewer
  <2>5. ASSUME NEW j \in Jobs, j # i PROVE LeaseBound(j)'
    BY <2>1, <2>4, <2>5, BoundStays DEF TypeOK, LeasesFollowDeliveries
  <2>6. LeaseBound(i)'
    <3>1. /\ leased'[i] = leased[i] + 1 /\ leased[i] \in Nat /\ deliveries[i] \in Nat
          /\ Unacked(i)' = Unacked(i) /\ LeaseBound(i)
      BY <2>1, <2>2 DEF TypeOK, Unacked, LeasesFollowDeliveries
    <3>2. Unacked(i) => deliveries[i] <= MaxDeliveries
      BY <2>1 DEF DeliveryCount
    <3>3. Cardinality(Holders(i)) # 0
      <4>1. w \in Holders(i)
        BY <2>2 DEF Holders
      <4> QED
        BY <4>1, <2>2, HoldersCount, FS_EmptySet
    <3> QED
      BY <2>1, <2>2, <2>4, <3>1, <3>2, <3>3, HoldersCount DEF LeaseBound
  <2> QED
    BY <2>3, <2>5, <2>6 DEF LeasesFollowDeliveries
<1>3. ASSUME NEW w \in Workers, Unlist(w) PROVE LeasesFollowDeliveries'
  <2>0. PICK i \in Jobs : i = Oldest(batch[w]) /\ i \in batch[w]
    BY <1>3, JobsOldest DEF Unlist, TypeOK, DeadInv, CopyBeforeUnlist
  <2>1. /\ batch' = [batch EXCEPT ![w] = batch[w] \ {i}]
        /\ wpc[w] = "unlist" /\ wpc' = [wpc EXCEPT ![w] = "triage"]
        /\ entry' = [entry EXCEPT ![i] = IF Unacked(i) THEN "dead" ELSE entry[i]]
        /\ UNCHANGED <<deliveries, leased>>
    BY <1>3, <2>0 DEF Unlist
  <2>2. i \in batch[w] /\ i \in Jobs
    BY <2>0
  <2>3. \A v \in Workers : Held(v)
    BY <2>1 DEF TypeOK, LeasesFollowDeliveries
  <2>4. /\ Cardinality(Holders(i)') = Cardinality(Holders(i)) - 1
        /\ \A j \in Jobs : j # i => Holders(j)' = Holders(j)
    BY <2>1, <2>2, OneClaimFewer
  <2>5. ASSUME NEW j \in Jobs, j # i PROVE LeaseBound(j)'
    BY <2>1, <2>4, <2>5, BoundStays DEF TypeOK, LeasesFollowDeliveries
  <2>6. LeaseBound(i)'
    <3>1. /\ leased[i] \in Nat /\ deliveries[i] \in Nat /\ LeaseBound(i)
          /\ entry[i] \in EntryStates
          /\ entry'[i] = (IF Unacked(i) THEN "dead" ELSE entry[i])
      BY <2>1, <2>2 DEF TypeOK, LeasesFollowDeliveries
    <3>2. Cardinality(Holders(i)) # 0
      <4>1. w \in Holders(i)
        BY <2>2 DEF Holders
      <4> QED
        BY <4>1, <2>2, HoldersCount, FS_EmptySet
    <3>3. CASE Unacked(i)
      <4>1. leased[i] <= MaxDeliveries
        BY <2>2, <3>1, <3>3, HoldersCount DEF LeaseBound
      <4> QED
        BY <2>1, <2>2, <2>4, <3>1, <3>3, <4>1, HoldersCount DEF LeaseBound, Unacked
    <3>4. CASE ~Unacked(i)
      BY <2>1, <2>2, <2>4, <3>1, <3>2, <3>4, HoldersCount
      DEF LeaseBound, Unacked, EntryStates
    <3> QED
      BY <3>3, <3>4
  <2> QED
    BY <2>3, <2>5, <2>6 DEF LeasesFollowDeliveries
<1>4. ASSUME NEW w \in Workers, Fetch(w) PROVE LeasesFollowDeliveries'
  <2> DEFINE unseen == {i \in Jobs : entry[i] = "new"}
  <2>1. wpc[w] = "fetch" /\ batch' = batch /\ batch[w] = {}
    BY <1>4 DEF Fetch, LeasesFollowDeliveries
  <2>2. CASE unseen = {}
    BY <1>4, <2>1, <2>2, LeaseFrame DEF Fetch, TypeOK
  <2>3. CASE unseen # {}
    <3>1. PICK i \in Jobs : i \in unseen /\ i = Oldest(unseen)
      BY <2>3, JobsOldest
    <3>2. entry[i] = "new"
      BY <3>1
    <3>3. /\ entry' = [entry EXCEPT ![i] = "pending"]
          /\ deliveries' = [deliveries EXCEPT ![i] = 1]
          /\ leased' = [leased EXCEPT ![i] = leased[i] + 1]
          /\ wpc' = [wpc EXCEPT ![w] = "begin"]
      BY <1>4, <2>3, <3>1 DEF Fetch, Lease
    <3> HIDE DEF unseen
    <3>4. \A v \in Workers : Held(v)
      BY <2>1, <3>3 DEF TypeOK, LeasesFollowDeliveries
    <3>5. \A j \in Jobs : Holders(j)' = Holders(j)
      BY <2>1 DEF Holders
    <3>6. ASSUME NEW j \in Jobs, j # i PROVE LeaseBound(j)'
      BY <3>1, <3>3, <3>5, <3>6, BoundStays DEF TypeOK, LeasesFollowDeliveries
    <3>7. LeaseBound(i)'
      <4>1. leased[i] = 0 /\ Cardinality(Holders(i)) = 0
        BY <3>1, <3>2 DEF LeasesFollowDeliveries, LeaseBound
      <4>2. leased'[i] = 1 /\ deliveries'[i] = 1 /\ entry'[i] = "pending"
        BY <3>1, <3>3, <4>1 DEF TypeOK
      <4>3. Cardinality(Holders(i)') = 0
        BY <3>1, <3>5, <4>1
      <4> QED
        BY <4>2, <4>3 DEF LeaseBound, Unacked
    <3> QED
      BY <3>4, <3>6, <3>7 DEF LeasesFollowDeliveries
  <2> QED
    BY <2>2, <2>3
<1>5. ASSUME NEW w \in Workers, Ack(w) \/ Nack(w) PROVE LeasesFollowDeliveries'
  <2>0. PICK i : i = cur[w]
    OBVIOUS
  <2>1. i \in Jobs /\ entry[i] # "none" /\ batch[w] = {}
    BY <1>5, <2>0 DEF Ack, Nack, References, Handling, LeasesFollowDeliveries
  <2>2. /\ UNCHANGED <<deliveries, batch, leased>>
        /\ \/ entry' = entry
           \/ entry' = [entry EXCEPT ![i] = IF Unacked(i) THEN "acked" ELSE entry[i]]
    BY <1>5, <2>0 DEF Ack, Nack
  <2>3. \A v \in Workers : v # w => wpc'[v] = wpc[v]
    BY <1>5 DEF Ack, Nack, Resume, Yield, TypeOK
  <2>4. \A v \in Workers : Held(v)
    BY <2>1, <2>2, <2>3 DEF LeasesFollowDeliveries
  <2>5. \A j \in Jobs : Holders(j)' = Holders(j)
    BY <2>2 DEF Holders
  <2>6. ASSUME NEW j \in Jobs, j # i \/ entry'[i] = entry[i] PROVE LeaseBound(j)'
    BY <2>1, <2>2, <2>5, <2>6, BoundStays DEF TypeOK, LeasesFollowDeliveries
  <2>7. ASSUME Unacked(i), entry'[i] = "acked" PROVE LeaseBound(i)'
    <3>1. leased[i] \in Nat /\ deliveries[i] \in Nat /\ LeaseBound(i)
      BY <2>1 DEF TypeOK, LeasesFollowDeliveries
    <3>2. leased[i] <= MaxDeliveries
      BY <2>1, <2>7, <3>1, HoldersCount DEF LeaseBound
    <3>3. Cardinality(Holders(i)) <= Cardinality(Workers) - 1
      <4>1. Holders(i) \subseteq Workers \ {w}
        BY <2>1 DEF Holders
      <4>2. /\ IsFiniteSet(Workers \ {w})
            /\ Cardinality(Workers \ {w}) = Cardinality(Workers) - 1
        BY FS_RemoveElement
      <4> QED
        BY <4>1, <4>2, FS_Subset
    <3>4. Cardinality(Holders(i)') = Cardinality(Holders(i)) /\ leased'[i] = leased[i]
      BY <2>1, <2>2, <2>5
    <3> QED
      BY <2>1, <2>7, <3>1, <3>2, <3>3, <3>4, HoldersCount DEF LeaseBound, Unacked
  <2>8. entry'[i] = entry[i] \/ (Unacked(i) /\ entry'[i] = "acked")
    BY <2>1, <2>2 DEF TypeOK
  <2> QED
    BY <2>1, <2>4, <2>6, <2>7, <2>8 DEF LeasesFollowDeliveries
<1>6. ASSUME NEW w \in Workers, Crash(w) PROVE LeasesFollowDeliveries'
  <2>1. /\ batch' = [batch EXCEPT ![w] = {}]
        /\ wpc' = [wpc EXCEPT ![w] = "reclaim"]
        /\ UNCHANGED <<entry, deliveries, leased>>
    BY <1>6 DEF Crash
  <2>2. \A v \in Workers : Held(v)
    BY <2>1 DEF TypeOK, LeasesFollowDeliveries
  <2>3. ASSUME NEW i \in Jobs PROVE LeaseBound(i)'
    <3>1. Holders(i)' \subseteq Holders(i)
      BY <2>1 DEF TypeOK, Holders
    <3>2. /\ Cardinality(Holders(i)') <= Cardinality(Holders(i))
          /\ Cardinality(Holders(i)') \in Nat
      BY <3>1, HoldersCount, FS_Subset, FS_CardinalityType
    <3>3. /\ leased[i] \in Nat /\ deliveries[i] \in Nat /\ LeaseBound(i)
          /\ Unacked(i)' = Unacked(i)
      BY <2>1 DEF TypeOK, LeasesFollowDeliveries, Unacked
    <3> QED
      BY <2>1, <3>2, <3>3, HoldersCount DEF LeaseBound
  <2> QED
    BY <2>2, <2>3 DEF LeasesFollowDeliveries
<1>7. ASSUME NEW c \in Callers, Enqueue(c) PROVE LeasesFollowDeliveries'
  <2>1. PICK i \in Jobs : entry[i] = "none" /\ entry' = [entry EXCEPT ![i] = "new"]
    BY <1>7 DEF Enqueue
  <2>2. UNCHANGED <<deliveries, batch, wpc, leased>>
    BY <1>7 DEF Enqueue
  <2>3. ASSUME NEW j \in Jobs PROVE LeaseBound(j)'
    <3>1. Holders(j)' = Holders(j)
      BY <2>2 DEF Holders
    <3>2. entry'[j] = entry[j] \/ {entry[j], entry'[j]} \subseteq {"none", "new"}
      BY <2>1 DEF TypeOK
    <3> QED
      BY <2>2, <3>1, <3>2, BoundStays DEF LeasesFollowDeliveries
  <2> QED
    BY <2>2, <2>3 DEF LeasesFollowDeliveries
<1>8. ASSUME NEW i \in Jobs, BecomeIdle(i) PROVE LeasesFollowDeliveries'
  <2>1. /\ entry[i] = "pending" /\ entry' = [entry EXCEPT ![i] = "idle"]
        /\ UNCHANGED <<deliveries, batch, wpc, leased>>
    BY <1>8 DEF BecomeIdle
  <2>2. ASSUME NEW j \in Jobs PROVE LeaseBound(j)'
    <3>1. Holders(j)' = Holders(j)
      BY <2>1 DEF Holders
    <3>2. entry'[j] = entry[j] \/ (Unacked(j) /\ Unacked(j)')
      BY <2>1 DEF TypeOK, Unacked
    <3> QED
      BY <2>1, <3>1, <3>2, BoundStays DEF LeasesFollowDeliveries
  <2> QED
    BY <2>1, <2>2 DEF LeasesFollowDeliveries
<1>9. ASSUME NEW w \in Workers, GiveUp(w) \/ DeadLetter(w) PROVE LeasesFollowDeliveries'
  BY <1>9, LeaseFrame DEF TypeOK, GiveUp, DeadLetter
<1>10. ASSUME NEW w \in Workers, YieldReclaimed(w) PROVE LeasesFollowDeliveries'
  BY <1>10, LeaseFrame DEF TypeOK, YieldReclaimed, Yield
<1>11. ASSUME NEW w \in Workers, BeginEvent(w) \/ ReadRoster(w) \/ FinishEvent(w)
       PROVE  LeasesFollowDeliveries'
  <2>1. batch[w] = {}
    BY <1>11 DEF BeginEvent, ReadRoster, FinishEvent, LeasesFollowDeliveries
  <2> QED
    BY <1>11, <2>1, LeaseFrame DEF TypeOK, BeginEvent, ReadRoster, FinishEvent
<1>12. ASSUME NEW w \in Workers, RunPhoto(w) \/ Sweep(w) \/ SweepFails(w)
       PROVE  LeasesFollowDeliveries'
  BY <1>12, LeaseFrame DEF RunPhoto, Sweep, Drain, MarkFailed, RemoveDead, SweepFails
<1>13. ASSUME NEW c \in Callers,
              \/ \E e \in Events : ReadEvent(c, e)
              \/ CountPhotos(c) \/ SetQueued(c) \/ RequestFails(c)
       PROVE  LeasesFollowDeliveries'
  BY <1>13, LeaseFrame DEF ReadEvent, CountPhotos, SetQueued, RequestFails
<1>14. ASSUME \/ \E m \in Photos : CheckActive(m) \/ RegisterMedia(m)
              \/ \E e \in Events : SetStatus(e) \/ GoStale(e)
       PROVE  LeasesFollowDeliveries'
  BY <1>14, LeaseFrame DEF CheckActive, RegisterMedia, SetStatus, GoStale
<1>15. ASSUME UNCHANGED vars PROVE LeasesFollowDeliveries'
  BY <1>15, LeaseFrame DEF vars
<1>16. QED
  BY <1>1, <1>2, <1>3, <1>4, <1>5, <1>6, <1>7, <1>8, <1>9, <1>10, <1>11, <1>12,
     <1>13, <1>14, <1>15
  DEF Next, Consume, Request

\* A job that fails or kills every worker that runs it is leased at most
\* max_deliveries times, and once more for each other worker, for any number of
\* workers and wherever they crash between the commands.
THEOREM PoisonIsContained == Spec => []HandOutsAreBounded
<1> DEFINE Inv == TypeOK /\ AckInv /\ DeadInv /\ LeasesFollowDeliveries
<1>1. Init => LeasesFollowDeliveries
  <2>1. ASSUME Init, NEW i \in Jobs PROVE LeaseBound(i)
    <3>1. Holders(i) = {}
      BY <2>1 DEF Init, Holders
    <3>2. Cardinality(Holders(i)) = 0
      BY <3>1, FS_EmptySet
    <3> QED
      BY <2>1, <3>2 DEF Init, LeaseBound, Unacked
  <2> QED
    BY <2>1 DEF Init, LeasesFollowDeliveries
<1>2. Init => Inv
  BY <1>1, InitType, InitAck, InitDead
<1>3. Inv /\ [Next]_vars => Inv'
  BY NextType, NextAck, NextDead, NextLeases DEF AckInv
<1>4. Inv => HandOutsAreBounded
  <2> SUFFICES ASSUME Inv, NEW i \in Jobs
               PROVE  leased[i] <= MaxDeliveries + Cardinality(Workers) - 1
    BY DEF HandOutsAreBounded
  <2>1. /\ entry[i] \in EntryStates /\ leased[i] \in Nat /\ deliveries[i] \in Nat
        /\ LeaseBound(i)
    BY DEF TypeOK, LeasesFollowDeliveries
  <2>2. Cardinality(Holders(i)) \in Nat /\ Cardinality(Workers) \in Nat
    BY HoldersCount
  <2>3. Cardinality(Workers) >= 1
    BY <2>2, PipelineAssumption, FS_EmptySet
  <2> QED
    BY <2>1, <2>2, <2>3, PipelineAssumption DEF LeaseBound, Unacked, EntryStates
<1> QED
  BY <1>2, <1>3, <1>4, PTL DEF Spec

-----------------------------------------------------------------------------
(* The pipeline implements the ledger.                                     *)

\* A sweep only ever tells of jobs that were buried.
LEMMA NextDrained ==
  ASSUME TypeOK, DeadInv, DrainedAreBuried, [Next]_vars
  PROVE  DrainedAreBuried'
<1> USE DEF dbVars, streamVars, loopVars, sweepVars, callVars, histVars, boundVars
<1>1. CASE UNCHANGED <<dlq, drained, told>>
  BY <1>1 DEF DrainedAreBuried
<1>2. ASSUME NEW w \in Workers, DeadLetter(w) PROVE DrainedAreBuried'
  BY <1>2 DEF DrainedAreBuried, DeadLetter
<1>3. ASSUME NEW w \in Workers, Drain(w) PROVE DrainedAreBuried'
  BY <1>3 DEF TypeOK, DrainedAreBuried, Drain
<1>4. ASSUME NEW w \in Workers, MarkFailed(w) PROVE DrainedAreBuried'
  BY <1>4 DEF TypeOK, DrainedAreBuried, MarkFailed
<1>5. ASSUME NEW w \in Workers, RemoveDead(w) PROVE DrainedAreBuried'
  BY <1>5 DEF DrainedAreBuried, RemoveDead, DeadInv, CopyBeforeUnlist
<1>6. ASSUME NEW w \in Workers, SweepFails(w) \/ Crash(w) PROVE DrainedAreBuried'
  BY <1>6 DEF TypeOK, DrainedAreBuried, SweepFails, Crash, ForgetDrained
<1>7. ASSUME NEW c \in Callers, Request(c) \/ RequestFails(c)
      PROVE  UNCHANGED <<dlq, drained, told>>
  BY <1>7 DEF Request, ReadEvent, CountPhotos, Enqueue, SetQueued, RequestFails
<1>8. ASSUME NEW w \in Workers,
             \/ Reclaim(w) \/ KeepLease(w) \/ GiveUp(w) \/ Unlist(w) \/ YieldReclaimed(w)
             \/ Fetch(w) \/ BeginEvent(w) \/ ReadRoster(w) \/ RunPhoto(w)
             \/ FinishEvent(w) \/ Ack(w) \/ Nack(w)
      PROVE  UNCHANGED <<dlq, drained, told>>
  BY <1>8 DEF Reclaim, KeepLease, GiveUp, Unlist, YieldReclaimed, Fetch, BeginEvent,
    ReadRoster, RunPhoto, FinishEvent, Ack, Nack
<1>9. ASSUME \/ \E m \in Photos : CheckActive(m) \/ RegisterMedia(m)
             \/ \E e \in Events : SetStatus(e) \/ GoStale(e)
             \/ \E i \in Jobs : BecomeIdle(i)
             \/ UNCHANGED vars
      PROVE  UNCHANGED <<dlq, drained, told>>
  BY <1>9 DEF CheckActive, RegisterMedia, SetStatus, GoStale, BecomeIdle, vars
<1>10. QED
  BY <1>1, <1>2, <1>3, <1>4, <1>5, <1>6, <1>7, <1>8, <1>9
  DEF Next, Consume, Sweep

\* The empty pipeline maps to the empty ledger.
LEMMA InitLedger == ASSUME Init PROVE Ledger!Init
BY PipelineAssumption DEF Init, Ledger!Init, JobState, Ran, Spent, Buried

\* Steps of the pipeline that the ledger does not see.
LEMMA LedgerStutters ==
  ASSUME UNCHANGED <<owed, told>>, Buried' = Buried, Ran' = Ran, Spent' = Spent,
         \A i \in Jobs : JobState(i)' = JobState(i)
  PROVE  UNCHANGED Ledger!ledgerVars
BY DEF Ledger!ledgerVars

\* Every step of the pipeline is a step of the ledger or none.
LEMMA NextLedger ==
  ASSUME TypeOK, AckInv, DeadInv, DrainedAreBuried, [Next]_vars
  PROVE  [Ledger!Next]_(Ledger!ledgerVars)
<1> USE DEF dbVars, streamVars, loopVars, sweepVars, callVars, histVars, boundVars
<1>1. CASE UNCHANGED <<owed, told, entry, deliveries, media, dlq>>
  BY <1>1, LedgerStutters DEF Buried, Ran, Spent, JobState
<1>2. ASSUME NEW m \in Photos, CheckActive(m) \/ RegisterMedia(m)
      PROVE  UNCHANGED Ledger!ledgerVars
  <2>1. Ran' = Ran
    BY <1>2 DEF TypeOK, CheckActive, RegisterMedia, Ran
  <2>2. QED
    BY <1>2, <2>1, LedgerStutters DEF CheckActive, RegisterMedia, Buried, Spent, JobState
<1>3. ASSUME NEW c \in Callers, Enqueue(c) PROVE Ledger!Next
  <2>1. PICK i \in Jobs : /\ entry[i] = "none"
                          /\ entry' = [entry EXCEPT ![i] = "new"]
                          /\ owed' = [owed EXCEPT ![i] = Registered(rEvent[c])]
    BY <1>3 DEF Enqueue
  <2>2. UNCHANGED <<media, deliveries, dlq, told>>
    BY <1>3 DEF Enqueue
  <2>3. [j \in Jobs |-> JobState(j)'] =
          [[j \in Jobs |-> JobState(j)] EXCEPT ![i] = "open"]
    BY <2>1 DEF TypeOK, JobState
  <2>4. Registered(rEvent[c]) \in SUBSET Photos
    BY DEF Registered
  <2>5. Ledger!Submit(i)
    BY <2>1, <2>2, <2>3, <2>4 DEF Ledger!Submit, JobState, Ran, Spent, Buried
  <2>6. QED
    BY <2>5 DEF Ledger!Next
<1>4. ASSUME NEW w \in Workers, RunPhoto(w) PROVE Ledger!Next
  <2>1. PICK m \in todo[w], result \in {"completed", "failed"} :
          media' = [media EXCEPT ![m] = result]
    BY <1>4 DEF RunPhoto
  <2>2. m \in Photos
    BY DEF TypeOK
  <2>3. Ran' = Ran \cup {m}
    BY <2>1, <2>2 DEF TypeOK, Ran
  <2>4. Ledger!Run(m)
    BY <1>4, <2>3 DEF RunPhoto, Ledger!Run, JobState, Spent, Buried
  <2>5. QED
    BY <2>2, <2>4 DEF Ledger!Next
<1>5. ASSUME NEW w \in Workers, Ack(w) PROVE [Ledger!Next]_(Ledger!ledgerVars)
  <2> DEFINE i == cur[w]
  <2>1. /\ entry' = [entry EXCEPT ![i] = IF Unacked(i) THEN "acked" ELSE entry[i]]
        /\ wpc[w] = "ack"
        /\ UNCHANGED <<media, deliveries, dlq, owed, told>>
    BY <1>5 DEF Ack
  <2>2. i \in Jobs
    BY <2>1 DEF AckInv, References, Handling
  <2>3. CASE ~Unacked(i)
    BY <2>1, <2>2, <2>3, LedgerStutters DEF TypeOK, Buried, Ran, Spent, JobState
  <2>4. CASE Unacked(i)
    <3>1. owed[i] \subseteq Ran
      <4>1. \A m \in owed[i] : m \in Photos /\ HasRow(m) /\ media[m] # "pending"
        BY <2>1, <2>2 DEF TypeOK, AckInv, RosterCoversOwed, OwedAreRegistered
      <4>2. QED
        BY <4>1 DEF TypeOK, PhotoStates, HasRow, Ran
    <3>2. JobState(i) = "open"
      BY <2>4 DEF Unacked, JobState
    <3>3. [j \in Jobs |-> JobState(j)'] =
            [[j \in Jobs |-> JobState(j)] EXCEPT ![i] = "done"]
      BY <2>1, <2>2, <2>4 DEF TypeOK, JobState
    <3>4. Ledger!Complete(i)
      BY <2>1, <2>2, <3>1, <3>2, <3>3 DEF Ledger!Complete, Ran, Spent, Buried
    <3>5. QED
      BY <2>2, <3>4 DEF Ledger!Next
  <2>5. QED
    BY <2>3, <2>4
<1>6. ASSUME NEW w \in Workers, DeadLetter(w) PROVE Ledger!Next
  <2> DEFINE i == Oldest(batch[w])
  <2>1. batch[w] # {} /\ deliveries[i] > MaxDeliveries
    BY <1>6 DEF DeadLetter, DeadInv, GivenUpWereExhausted
  <2>2. i \in Jobs
    BY <2>1, JobsOldest DEF TypeOK
  <2>3. PICK d \in NewCopies(i) : dlq' = dlq \cup {d}
    BY <1>6 DEF DeadLetter
  <2>4. d.job = i
    BY <2>3 DEF NewCopies
  <2>5. UNCHANGED <<entry, deliveries, media, owed, told>>
    BY <1>6 DEF DeadLetter
  <2> HIDE DEF i
  <2>6. Buried' = Buried \cup {i}
    BY <2>3, <2>4, <2>5 DEF Buried
  <2>7. i \in Spent
    BY <2>1, <2>2 DEF Spent
  <2>8. Ledger!Bury(i)
    BY <2>5, <2>6, <2>7 DEF Ledger!Bury, JobState, Ran, Spent
  <2>9. QED
    BY <2>2, <2>8 DEF Ledger!Next
<1>7. ASSUME NEW w \in Workers, Unlist(w) PROVE [Ledger!Next]_(Ledger!ledgerVars)
  <2> DEFINE i == Oldest(batch[w])
  <2>1. /\ wpc[w] = "unlist"
        /\ entry' = [entry EXCEPT ![i] = IF Unacked(i) THEN "dead" ELSE entry[i]]
        /\ UNCHANGED <<media, deliveries, dlq, owed, told>>
    BY <1>7 DEF Unlist
  <2>2. i \in Jobs /\ i \in Buried
    BY <2>1, JobsOldest DEF TypeOK, DeadInv, CopyBeforeUnlist, Buried
  <2> HIDE DEF i
  <2>3. CASE ~Unacked(i)
    BY <2>1, <2>2, <2>3, LedgerStutters DEF TypeOK, Buried, Ran, Spent, JobState
  <2>4. CASE Unacked(i)
    <3>1. JobState(i) = "open"
      BY <2>4 DEF Unacked, JobState
    <3>2. [j \in Jobs |-> JobState(j)'] =
            [[j \in Jobs |-> JobState(j)] EXCEPT ![i] = "dropped"]
      BY <2>1, <2>2, <2>4 DEF TypeOK, JobState
    <3>3. Ledger!Drop(i)
      BY <2>1, <2>2, <3>1, <3>2 DEF Ledger!Drop, Ran, Spent, Buried
    <3>4. QED
      BY <2>2, <3>3 DEF Ledger!Next
  <2>5. QED
    BY <2>3, <2>4
<1>8. ASSUME NEW w \in Workers, MarkFailed(w) PROVE Ledger!Next
  <2>1. PICK d \in drained[w] : told' = told \cup {d.job}
    BY <1>8 DEF MarkFailed
  <2>2. d.job \in Jobs /\ d.job \in Buried
    BY <2>1 DEF TypeOK, DeadLetters, DrainedAreBuried, Buried
  <2>3. UNCHANGED <<entry, deliveries, media, dlq, owed>>
    BY <1>8 DEF MarkFailed
  <2>4. Buried' = Buried
    BY <2>1, <2>2, <2>3 DEF Buried
  <2>5. Ledger!Tell(d.job)
    BY <2>1, <2>2, <2>3, <2>4 DEF Ledger!Tell, JobState, Ran, Spent
  <2>6. QED
    BY <2>2, <2>5 DEF Ledger!Next
<1>9. ASSUME NEW w \in Workers, RemoveDead(w) PROVE UNCHANGED Ledger!ledgerVars
  <2>1. /\ dlq' = dlq \ marked[w]
        /\ UNCHANGED <<entry, deliveries, media, owed, told>>
    BY <1>9 DEF RemoveDead
  <2>2. \A d \in marked[w] : d.job \in told
    BY DEF DeadInv, CopyBeforeUnlist
  <2>3. Buried' = Buried
    BY <2>1, <2>2 DEF Buried
  <2>4. QED
    BY <2>1, <2>3, LedgerStutters DEF Ran, Spent, JobState
<1>10. ASSUME NEW w \in Workers, Reclaim(w) PROVE [Ledger!Next]_(Ledger!ledgerVars)
  <2> DEFINE claimed == OldestN({i \in Jobs : entry[i] = "idle"}, ClaimBatch)
             S == {i \in claimed : deliveries[i] = MaxDeliveries}
  <2>1. claimed \subseteq {i \in Jobs : entry[i] = "idle"}
    BY DEF OldestN
  <2>2. /\ UNCHANGED <<media, dlq, owed, told>>
        /\ entry' = [i \in Jobs |-> IF i \in claimed THEN "pending" ELSE entry[i]]
        /\ deliveries' = [i \in Jobs |->
             IF i \in claimed /\ deliveries[i] <= MaxDeliveries
               THEN deliveries[i] + 1 ELSE deliveries[i]]
    BY <1>10 DEF Reclaim
  <2> HIDE DEF claimed
  <2>3. \A i \in Jobs : JobState(i)' = JobState(i)
    BY <2>1, <2>2 DEF JobState
  <2>4. S \in SUBSET Jobs /\ \A i \in S : JobState(i) = "open"
    BY <2>1 DEF JobState
  <2>5. Spent' = Spent \cup S
    <3>1. \A i \in Jobs : deliveries[i] \in Nat /\ MaxDeliveries \in Nat
      BY PipelineAssumption DEF TypeOK
    <3>2. \A i \in Jobs : deliveries'[i] > MaxDeliveries
                            <=> (deliveries[i] > MaxDeliveries \/ i \in S)
      BY <2>2, <3>1
    <3> QED
      BY <2>4, <3>2 DEF Spent
  <2> HIDE DEF S
  <2>6. Ledger!Spend(S)
    BY <2>2, <2>3, <2>4, <2>5 DEF Ledger!Spend, Ran, Buried
  <2> QED
    BY <2>4, <2>6 DEF Ledger!Next
<1>11. ASSUME NEW w \in Workers, Fetch(w) PROVE UNCHANGED Ledger!ledgerVars
  <2> DEFINE unseen == {i \in Jobs : entry[i] = "new"}
  <2>1. UNCHANGED <<media, dlq, owed, told>>
    BY <1>11 DEF Fetch
  <2>2. \A i \in Jobs : JobState(i)' = JobState(i)
    <3>1. CASE unseen = {}
      BY <1>11, <3>1 DEF Fetch, JobState
    <3>2. CASE unseen # {}
      <4>1. Oldest(unseen) \in unseen
        BY <3>2, JobsOldest
      <4>2. entry[Oldest(unseen)] = "new"
        BY <4>1
      <4> HIDE DEF unseen
      <4>3. entry' = [entry EXCEPT ![Oldest(unseen)] = "pending"]
        BY <1>11, <3>2 DEF Fetch, unseen
      <4>4. QED
        BY <4>2, <4>3 DEF TypeOK, JobState
    <3>3. QED
      BY <3>1, <3>2
  <2>4. Spent' = Spent
    <3>1. CASE unseen = {}
      BY <1>11, <3>1 DEF Fetch, Spent
    <3>2. CASE unseen # {}
      <4>1. Oldest(unseen) \in unseen
        BY <3>2, JobsOldest
      <4>2. deliveries[Oldest(unseen)] = 0
        BY <4>1 DEF DeadInv, GivenUpWereExhausted
      <4> HIDE DEF unseen
      <4>3. deliveries' = [deliveries EXCEPT ![Oldest(unseen)] = 1]
        BY <1>11, <3>2 DEF Fetch, unseen
      <4> QED
        BY <4>2, <4>3, PipelineAssumption DEF TypeOK, Spent
    <3>3. QED
      BY <3>1, <3>2
  <2>3. QED
    BY <2>1, <2>2, <2>4, LedgerStutters DEF Buried, Ran
<1>12. ASSUME NEW i \in Jobs, BecomeIdle(i) PROVE UNCHANGED Ledger!ledgerVars
  <2>1. \A j \in Jobs : JobState(j)' = JobState(j)
    BY <1>12 DEF TypeOK, BecomeIdle, JobState
  <2>2. QED
    BY <1>12, <2>1, LedgerStutters DEF BecomeIdle, Buried, Ran, Spent
<1>13. ASSUME NEW c \in Callers,
              \/ \E e \in Events : ReadEvent(c, e)
              \/ CountPhotos(c) \/ SetQueued(c) \/ RequestFails(c)
       PROVE  UNCHANGED <<owed, told, entry, deliveries, media, dlq>>
  BY <1>13 DEF ReadEvent, CountPhotos, SetQueued, RequestFails
<1>14. ASSUME NEW w \in Workers,
              \/ KeepLease(w) \/ GiveUp(w) \/ YieldReclaimed(w) \/ BeginEvent(w)
              \/ ReadRoster(w) \/ FinishEvent(w) \/ Nack(w) \/ Drain(w)
              \/ SweepFails(w) \/ Crash(w)
       PROVE  UNCHANGED <<owed, told, entry, deliveries, media, dlq>>
  BY <1>14 DEF KeepLease, GiveUp, YieldReclaimed, BeginEvent, ReadRoster, FinishEvent,
    Nack, Drain, SweepFails, Crash
<1>15. ASSUME (\E e \in Events : SetStatus(e) \/ GoStale(e)) \/ UNCHANGED vars
       PROVE  UNCHANGED <<owed, told, entry, deliveries, media, dlq>>
  BY <1>15 DEF SetStatus, GoStale, vars
<1>16. QED
  BY <1>1, <1>2, <1>3, <1>4, <1>5, <1>6, <1>7, <1>8, <1>9, <1>10, <1>11, <1>12,
     <1>13, <1>14, <1>15
  DEF Next, Consume, Sweep, Request

\* With any number of events, photos, workers, requests and faults, the
\* pipeline implements the ledger: jobs are only ever completed with their
\* photos run or dropped after they were buried, and only buried jobs are told.
THEOREM PipelineImplementsLedger == Spec => ImplementsLedger
<1> DEFINE Inv == TypeOK /\ AckInv /\ DeadInv /\ DrainedAreBuried
<1>1. Init => Inv
  <2>1. Init => DrainedAreBuried
    BY DEF Init, DrainedAreBuried
  <2>2. QED
    BY <2>1, InitType, InitAck, InitDead
<1>2. Inv /\ [Next]_vars => Inv'
  BY NextType, NextAck, NextDead, NextDrained
<1>3. Init => Ledger!Init
  BY InitLedger
<1>4. Inv /\ [Next]_vars => [Ledger!Next]_(Ledger!ledgerVars)
  BY NextLedger
<1>5. QED
  BY <1>1, <1>2, <1>3, <1>4, PTL DEF Spec, ImplementsLedger, Ledger!Spec

-----------------------------------------------------------------------------
(* What a failed event says.                                               *)

\* A message on the stream stays known, and is of the same event for ever.
LEMMA EntriesStay ==
  ASSUME TypeOK, [Next]_vars, NEW i \in Jobs, entry[i] # "none"
  PROVE  entry'[i] # "none" /\ jobEvent'[i] = jobEvent[i]
<1> USE DEF TypeOK, boundVars, dbVars, streamVars, loopVars, sweepVars, callVars, histVars
<1>1. ASSUME NEW c \in Callers, Enqueue(c)
      PROVE  entry'[i] # "none" /\ jobEvent'[i] = jobEvent[i]
  BY <1>1 DEF Enqueue
<1>2. ASSUME NEW w \in Workers, Reclaim(w)
      PROVE  entry'[i] # "none" /\ jobEvent'[i] = jobEvent[i]
  BY <1>2 DEF Reclaim
<1>3. ASSUME NEW w \in Workers, Unlist(w) \/ Fetch(w) \/ Ack(w)
      PROVE  entry'[i] # "none" /\ jobEvent'[i] = jobEvent[i]
  BY <1>3 DEF Unlist, Fetch, Ack
<1>4. ASSUME NEW j \in Jobs, BecomeIdle(j)
      PROVE  entry'[i] # "none" /\ jobEvent'[i] = jobEvent[i]
  BY <1>4 DEF BecomeIdle
<1>5. ASSUME NEW w \in Workers,
             \/ KeepLease(w) \/ GiveUp(w) \/ DeadLetter(w) \/ YieldReclaimed(w) \/ BeginEvent(w)
             \/ ReadRoster(w) \/ RunPhoto(w) \/ FinishEvent(w) \/ Nack(w) \/ Sweep(w)
             \/ SweepFails(w) \/ Crash(w)
      PROVE  entry'[i] # "none" /\ jobEvent'[i] = jobEvent[i]
  BY <1>5 DEF KeepLease, GiveUp, DeadLetter, YieldReclaimed, BeginEvent, ReadRoster, RunPhoto,
     FinishEvent, Nack, Sweep, Drain, MarkFailed, RemoveDead, SweepFails, Crash
<1>6. ASSUME NEW c \in Callers,
             \/ \E e \in Events : ReadEvent(c, e)
             \/ CountPhotos(c) \/ SetQueued(c) \/ RequestFails(c)
      PROVE  entry'[i] # "none" /\ jobEvent'[i] = jobEvent[i]
  BY <1>6 DEF ReadEvent, CountPhotos, SetQueued, RequestFails
<1>7. ASSUME NEW e \in Events, SetStatus(e) \/ GoStale(e)
      PROVE  entry'[i] # "none" /\ jobEvent'[i] = jobEvent[i]
  BY <1>7 DEF SetStatus, GoStale
<1>8. ASSUME NEW m \in Photos, CheckActive(m) \/ RegisterMedia(m)
      PROVE  entry'[i] # "none" /\ jobEvent'[i] = jobEvent[i]
  BY <1>8 DEF CheckActive, RegisterMedia
<1>9. CASE UNCHANGED vars
  BY <1>9 DEF vars
<1> QED
  BY <1>1, <1>2, <1>3, <1>4, <1>5, <1>6, <1>7, <1>8, <1>9 DEF Next, Consume, Request

\* Only a sweep shows an event as failed: one of its dead jobs is told, and the
\* event was in one of the states that may fail.
Fails(e) ==
  /\ evStatus[e] \in Failable
  /\ \E w \in Workers : \E d \in drained[w] :
       jobEvent[d.job] = e /\ told' = told \cup {d.job}

\* An event that comes to read failed has just been failed by a sweep, and what
\* was told stays told.
LEMMA OnlySweepsFail ==
  ASSUME TypeOK, [Next]_vars
  PROVE  /\ \A e \in Events : evStatus'[e] = "failed" => evStatus[e] = "failed" \/ Fails(e)
         /\ told' = told \/ \E w \in Workers : \E d \in drained[w] : told' = told \cup {d.job}
<1> DEFINE Goal ==
      /\ \A e \in Events : evStatus'[e] = "failed" => evStatus[e] = "failed" \/ Fails(e)
      /\ told' = told \/ \E w \in Workers : \E d \in drained[w] : told' = told \cup {d.job}
<1> USE DEF TypeOK, boundVars, dbVars, streamVars, loopVars, sweepVars, callVars, histVars
<1>1. ASSUME NEW c \in Callers, SetQueued(c)
      PROVE  Goal
  BY <1>1 DEF SetQueued
<1>2. ASSUME NEW w \in Workers, BeginEvent(w) \/ FinishEvent(w)
      PROVE  Goal
  BY <1>2 DEF BeginEvent, FinishEvent
<1>3. ASSUME NEW w \in Workers, MarkFailed(w)
      PROVE  Goal
  <2>1. PICK d \in drained[w] :
          /\ evStatus' = [evStatus EXCEPT ![jobEvent[d.job]] =
                IF evStatus[jobEvent[d.job]] \in Failable THEN "failed"
                ELSE evStatus[jobEvent[d.job]]]
          /\ told' = told \cup {d.job}
    BY <1>3 DEF MarkFailed
  <2>2. ASSUME NEW e \in Events, evStatus'[e] = "failed", evStatus[e] # "failed"
        PROVE  jobEvent[d.job] = e /\ evStatus[e] \in Failable
    BY <2>1, <2>2
  <2> QED
    BY <2>1, <2>2 DEF Fails
<1>4. ASSUME NEW w \in Workers,
             \/ Reclaim(w) \/ KeepLease(w) \/ GiveUp(w) \/ DeadLetter(w) \/ Unlist(w)
             \/ YieldReclaimed(w) \/ Fetch(w) \/ ReadRoster(w) \/ RunPhoto(w) \/ Ack(w)
             \/ Nack(w) \/ Drain(w) \/ RemoveDead(w) \/ SweepFails(w) \/ Crash(w)
      PROVE  Goal
  BY <1>4 DEF Reclaim, KeepLease, GiveUp, DeadLetter, Unlist, YieldReclaimed, Fetch, ReadRoster,
     RunPhoto, Ack, Nack, Drain, RemoveDead, SweepFails, Crash
<1>5. ASSUME NEW c \in Callers,
             \/ \E e \in Events : ReadEvent(c, e)
             \/ CountPhotos(c) \/ Enqueue(c) \/ RequestFails(c)
      PROVE  Goal
  BY <1>5 DEF ReadEvent, CountPhotos, Enqueue, RequestFails
<1>6. ASSUME NEW e \in Events, SetStatus(e) \/ GoStale(e)
      PROVE  Goal
  BY <1>6 DEF SetStatus, GoStale
<1>7. ASSUME NEW m \in Photos, CheckActive(m) \/ RegisterMedia(m)
      PROVE  Goal
  BY <1>7 DEF CheckActive, RegisterMedia
<1>8. ASSUME NEW i \in Jobs, BecomeIdle(i)
      PROVE  Goal
  BY <1>8 DEF BecomeIdle
<1>9. CASE UNCHANGED vars
  BY <1>9 DEF vars
<1> QED
  BY <1>1, <1>2, <1>3, <1>4, <1>5, <1>6, <1>7, <1>8, <1>9
  DEF Next, Consume, Request, Sweep

\* A job is told only when it has been on the stream.
ToldWereSent == \A i \in told : entry[i] # "none"

\* What a sweep tells is a job that was dead-lettered, so it was sent.
LEMMA NextTold ==
  ASSUME TypeOK, DeadInv, DrainedAreBuried, ToldWereSent, FailedEventsHadDeadLetters,
         [Next]_vars
  PROVE  ToldWereSent' /\ FailedEventsHadDeadLetters'
<1>1. ASSUME NEW w \in Workers, NEW d \in drained[w]
      PROVE  d.job \in Jobs /\ entry[d.job] # "none"
  <2>1. d \in DeadLetters
    BY DEF TypeOK
  <2>2. d.job \in Jobs
    BY <2>1 DEF DeadLetters
  <2>3. d \in dlq => entry[d.job] # "none"
    <3>1. d \in dlq => deliveries[d.job] > MaxDeliveries
      BY DEF DeadInv, GivenUpWereExhausted
    <3>2. entry[d.job] = "none" => deliveries[d.job] = 0
      BY <2>2 DEF DeadInv, GivenUpWereExhausted
    <3> QED
      BY <3>1, <3>2, PipelineAssumption
  <2> QED
    BY <2>2, <2>3 DEF DrainedAreBuried, ToldWereSent
<1>2. told \subseteq told' /\ \A i \in told' : i \in Jobs /\ entry[i] # "none"
  BY <1>1, OnlySweepsFail DEF ToldWereSent, TypeOK
<1>3. ToldWereSent'
  BY <1>2, EntriesStay DEF ToldWereSent
<1>4. FailedEventsHadDeadLetters'
  <2> SUFFICES ASSUME NEW e \in Events, evStatus'[e] = "failed"
               PROVE  \E i \in told' : jobEvent'[i] = e
    BY DEF FailedEventsHadDeadLetters
  <2>1. \E i \in told' : jobEvent[i] = e
    <3>1. CASE evStatus[e] = "failed"
      BY <1>2, <3>1 DEF FailedEventsHadDeadLetters
    <3>2. CASE Fails(e)
      BY <3>2 DEF Fails
    <3> QED
      BY <3>1, <3>2, OnlySweepsFail
  <2> QED
    BY <1>2, <2>1, EntriesStay
<1> QED
  BY <1>3, <1>4

\* An event that reads failed has a job that was delivered too often, was
\* dead-lettered and told: no nack, crash or redelivery shows a failure.
THEOREM FailuresAreTold == Spec => []FailedEventsHadDeadLetters
<1> DEFINE Inv == /\ TypeOK /\ DeadInv /\ DrainedAreBuried
                  /\ ToldWereSent /\ FailedEventsHadDeadLetters
<1>1. Init => Inv
  <2>1. Init => ToldWereSent /\ FailedEventsHadDeadLetters /\ DrainedAreBuried
    BY DEF Init, ToldWereSent, FailedEventsHadDeadLetters, DrainedAreBuried
  <2> QED
    BY <2>1, InitType, InitDead
<1>2. Inv /\ [Next]_vars => Inv'
  BY NextType, NextDead, NextDrained, NextTold
<1> QED
  BY <1>1, <1>2, PTL DEF Spec

\* No step turns a completed event into a failed one, in particular no sweep of
\* a dead letter that outlived the retry of its event.
THEOREM CompletedIsFinal == Spec => CompletedEventsStayUnfailed
<1>1. TypeOK /\ [Next]_vars
        => [\A e \in Events : evStatus[e] = "completed" => evStatus'[e] # "failed"]_vars
  BY OnlySweepsFail DEF Fails, Failable
<1>2. Spec => []TypeOK
  BY PipelineTypes
<1> QED
  BY <1>1, <1>2, PTL DEF Spec, CompletedEventsStayUnfailed

=============================================================================
