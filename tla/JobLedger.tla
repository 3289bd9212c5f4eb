------------------------------ MODULE JobLedger ------------------------------
(***************************************************************************)
(* What the event pipeline promises about the jobs handed to it, without   *)
(* streams, leases, workers or crashes: the JobQueue and BackendEventStore *)
(* ports as a caller of "Process" may rely on them.                        *)
(*                                                                         *)
(* A submitted job owes an outcome to each photo its event had at that     *)
(* moment. It is closed in one of two ways only: as done, when every photo *)
(* it owes has had an outcome; or as dropped, when it was buried (copied   *)
(* to the dead letters) first. Only a job that was spent (delivered too    *)
(* often) while it was open is buried; it may be done by the time it is.   *)
(* Only a buried job's event is told of it.                                *)
(***************************************************************************)
CONSTANTS Jobs, Photos

VARIABLES
  state,   \* "none", "open", "done" or "dropped", for each job
  owed,    \* the photos each submitted job owes an outcome to
  ran,     \* the photos that have had an outcome
  spent,   \* the jobs delivered more often than is allowed
  buried,  \* the jobs copied to the dead letters
  told     \* the jobs whose event was marked failed for them

ledgerVars == <<state, owed, ran, spent, buried, told>>

Init ==
  /\ state = [j \in Jobs |-> "none"]
  /\ owed = [j \in Jobs |-> {}]
  /\ ran = {} /\ spent = {} /\ buried = {} /\ told = {}

Submit(j) ==
  /\ state[j] = "none"
  /\ state' = [state EXCEPT ![j] = "open"]
  /\ \E S \in SUBSET Photos : owed' = [owed EXCEPT ![j] = S]
  /\ UNCHANGED <<ran, spent, buried, told>>

Run(m) ==
  /\ ran' = ran \cup {m}
  /\ UNCHANGED <<state, owed, spent, buried, told>>

Complete(j) ==
  /\ state[j] = "open" /\ owed[j] \subseteq ran
  /\ state' = [state EXCEPT ![j] = "done"]
  /\ UNCHANGED <<owed, ran, spent, buried, told>>

Spend(S) ==
  /\ \A j \in S : state[j] = "open"
  /\ spent' = spent \cup S
  /\ UNCHANGED <<state, owed, ran, buried, told>>

Bury(j) ==
  /\ j \in spent
  /\ buried' = buried \cup {j}
  /\ UNCHANGED <<state, owed, ran, spent, told>>

Drop(j) ==
  /\ state[j] = "open" /\ j \in buried
  /\ state' = [state EXCEPT ![j] = "dropped"]
  /\ UNCHANGED <<owed, ran, spent, buried, told>>

Tell(j) ==
  /\ j \in buried
  /\ told' = told \cup {j}
  /\ UNCHANGED <<state, owed, ran, spent, buried>>

Next ==
  \/ \E j \in Jobs : Submit(j) \/ Complete(j) \/ Bury(j) \/ Drop(j) \/ Tell(j)
  \/ \E m \in Photos : Run(m)
  \/ \E S \in SUBSET Jobs : Spend(S)

Spec == Init /\ [][Next]_ledgerVars

=============================================================================
