-------------------------- MODULE Services_proofs ---------------------------
(*************************************************************************)
(* The services around the engine and the gateway, for any number of jobs, *)
(* workers, documents, sessions, agents and connections.  Each part proves *)
(* one component.                                                          *)
(*************************************************************************)
EXTENDS ScanJobs, GraphBuilds, Champions, Librarian, EventIngest, Alerts, ToolAgents,
        McpTransport, FiniteSetTheorems, SequenceTheorems, TLAPS

---------------------------------------------------------------------------
(* The scanner.  The counter of a day counts the submissions admitted that *)
(* day, and a job ends after the last of its tools.                        *)

USE ScanJobsAssumption

Scan == [pc : {"none", "tools", "garak", "over"}, running : SUBSET Tools]
SubmitStages == {"idle", "allowed", "counted", "over", "accepted", "done", "refused"}
Submitter == [pc : SubmitStages, day : 0..MaxDay]
JobStates == {"absent", "queued", "cancelled", "completed", "partial", "failed"}
Queued == {pushed[i] : i \in 1..Len(pushed)}

\* A row exists once its submission was accepted, and is pushed once; a scan
\* starts with the push and garak starts with the last tool.
JobsInOrder ==
    /\ \A j \in Jobs : job[j] # "absent" => submitter[j].pc \in {"accepted", "done"}
    /\ \A j \in Jobs : submitter[j].pc = "accepted" => job[j] # "absent"
    /\ \A i, k \in 1..Len(pushed) : pushed[i] = pushed[k] => i = k
    /\ \A j \in Queued : /\ submitter[j].pc = "done" /\ scan[j].pc = "none"
                         /\ job[j] # "absent"
    /\ \A j \in Jobs :
         /\ scan[j].pc # "none" => submitter[j].pc = "done" /\ job[j] # "absent"
         /\ scan[j].pc \in {"none", "garak"} => scan[j].running = {}
         /\ job[j] = "completed" => scan[j].pc = "over" /\ scan[j].running = {}

\* The submissions that a day's counter must still hold, those that ever
\* counted themselves on it, and those that it admitted.
Holders(d) == {j \in Jobs : /\ submitter[j].day = d
                            /\ job[j] # "absent" \/ submitter[j].pc \in {"counted", "over"}}
Counted(d) == {j \in Jobs : /\ submitter[j].day = d
                            /\ submitter[j].pc \notin {"idle", "allowed", "refused"}}
Admitted(d) == {j \in Jobs : /\ submitter[j].day = d
                             /\ job[j] # "absent" \/ submitter[j].pc = "counted"}
CountersHold ==
    \A d \in 0..MaxDay : /\ Cardinality(Holders(d)) <= quota[d]
                         /\ quota[d] <= Cardinality(Counted(d))
                         /\ Cardinality(Admitted(d)) <= DailyLimit

ScanTyped ==
    /\ day \in 0..MaxDay
    /\ disabled \in BOOLEAN
    /\ target \in {"pending", "approved", "revoked"}
    /\ quota \in [0..MaxDay -> Nat]
    /\ submitter \in [Jobs -> Submitter]
    /\ job \in [Jobs -> JobStates]
    /\ pushed \in Seq(Jobs)
    /\ scan \in [Jobs -> Scan]
    /\ crashes \in 0..MaxCrashes

ScanInv == ScanTyped /\ JobsInOrder /\ CountersHold

\* The submissions of a day can be counted ...
LEMMA CountsAreFinite ==
  ASSUME NEW d
  PROVE  /\ IsFiniteSet(Holders(d)) /\ Cardinality(Holders(d)) \in Nat
         /\ IsFiniteSet(Counted(d)) /\ Cardinality(Counted(d)) \in Nat
         /\ IsFiniteSet(Admitted(d)) /\ Cardinality(Admitted(d)) \in Nat
<1>1. Holders(d) \in SUBSET Jobs /\ Counted(d) \in SUBSET Jobs /\ Admitted(d) \in SUBSET Jobs
  BY DEF Holders, Counted, Admitted
<1> QED BY <1>1, FS_Subset, FS_CardinalityType

\* ... and after a step, too.
LEMMA NextCountsAreFinite ==
  ASSUME NEW d
  PROVE  /\ IsFiniteSet(Holders(d)') /\ Cardinality(Holders(d)') \in Nat
         /\ IsFiniteSet(Counted(d)') /\ Cardinality(Counted(d)') \in Nat
         /\ IsFiniteSet(Admitted(d)') /\ Cardinality(Admitted(d)') \in Nat
<1>1. Holders(d)' \in SUBSET Jobs /\ Counted(d)' \in SUBSET Jobs /\ Admitted(d)' \in SUBSET Jobs
  BY DEF Holders, Counted, Admitted
<1> QED BY <1>1, FS_Subset, FS_CardinalityType

\* What the invariant says of the type and of the two properties.
LEMMA ScanInvImplies ==
  ASSUME ScanInv
  PROVE  ScanTypeOK /\ ScansSound
<1> USE DEF ScanInv
<1>1. Cardinality(Jobs) \in Nat
  BY FS_CardinalityType
<1>2. quota \in [0..MaxDay -> 0..Cardinality(Jobs)]
  <2> SUFFICES ASSUME NEW d \in 0..MaxDay PROVE quota[d] \in 0..Cardinality(Jobs)
    BY DEF ScanTyped
  <2>1. Counted(d) \in SUBSET Jobs
    BY DEF Counted
  <2>2. Cardinality(Counted(d)) <= Cardinality(Jobs)
    BY <2>1, FS_Subset
  <2>3. quota[d] \in Nat /\ quota[d] <= Cardinality(Counted(d))
    BY DEF ScanTyped, CountersHold
  <2> QED BY <1>1, <2>2, <2>3, CountsAreFinite
<1>3. Len(pushed) <= Cardinality(Jobs)
  <2>1. pushed \in [1..Len(pushed) -> Jobs]
    BY DEF ScanTyped
  <2>2. pushed \in Injection(1..Len(pushed), Jobs)
    BY <2>1 DEF Injection, IsInjective, JobsInOrder
  <2>3. Cardinality(1..Len(pushed)) <= Cardinality(Jobs)
    BY <2>2, FS_Injection
  <2>4. Len(pushed) \in Nat
    BY DEF ScanTyped
  <2>5. Cardinality(1..Len(pushed)) = Len(pushed)
    BY <2>4, FS_Interval, SMTT(30)
  <2> QED BY <2>3, <2>5
<1>4. ScanTypeOK
  BY <1>2, <1>3 DEF ScanTypeOK, ScanTyped, Submitter, SubmitStages, JobStates, Scan
<1>5. QuotaHolds
  <2> SUFFICES ASSUME NEW d \in 0..MaxDay
      PROVE  Cardinality({j \in Jobs : job[j] # "absent" /\ submitter[j].day = d}) <= DailyLimit
    BY DEF QuotaHolds
  <2> DEFINE S == {j \in Jobs : job[j] # "absent" /\ submitter[j].day = d}
  <2>1. S \in SUBSET Admitted(d)
    BY DEF Admitted
  <2>3. Cardinality(Admitted(d)) <= DailyLimit
    BY DEF CountersHold
  <2>2. Cardinality(S) <= Cardinality(Admitted(d)) /\ Cardinality(S) \in Nat
    <3>1. IsFiniteSet(Admitted(d))
      BY CountsAreFinite
    <3>2. IsFiniteSet(S) /\ Cardinality(S) <= Cardinality(Admitted(d))
      <4> HIDE DEF S
      <4> QED BY <2>1, <3>1, FS_Subset
    <3> HIDE DEF S
    <3> QED BY <3>2, FS_CardinalityType
  <2>4. Cardinality(S) <= DailyLimit
    <3> HIDE DEF S
    <3> QED BY <2>2, <2>3, CountsAreFinite
  <2> QED BY <2>4
<1>6. CompletedWaitsForTools
  BY DEF CompletedWaitsForTools, JobsInOrder
<1> QED BY <1>4, <1>5, <1>6 DEF ScansSound

\* At first nothing is submitted.
LEMMA ScansStart == ScanInit => ScanInv
<1> SUFFICES ASSUME ScanInit PROVE ScanInv
  OBVIOUS
<1>1. ScanTyped
  <2>1. 0 \in 0..MaxDay /\ 0 \in 0..MaxCrashes /\ 0 \in Nat
    OBVIOUS
  <2>2. NoScan \in Scan /\ [pc |-> "idle", day |-> 0] \in Submitter
    BY <2>1 DEF NoScan, Scan, Submitter, SubmitStages
  <2>3. quota \in [0..MaxDay -> Nat] /\ submitter \in [Jobs -> Submitter]
        /\ job \in [Jobs -> JobStates] /\ scan \in [Jobs -> Scan]
    BY <2>1, <2>2 DEF ScanInit, JobStates
  <2>4. pushed \in Seq(Jobs)
    BY DEF ScanInit
  <2> QED BY <2>1, <2>3, <2>4 DEF ScanInit, ScanTyped
<1>2. JobsInOrder
  BY DEF ScanInit, JobsInOrder, Queued, NoScan
<1>3. ASSUME NEW d \in 0..MaxDay
      PROVE  /\ Cardinality(Holders(d)) <= quota[d]
             /\ quota[d] <= Cardinality(Counted(d))
             /\ Cardinality(Admitted(d)) <= DailyLimit
  <2>1. Holders(d) = {} /\ Counted(d) = {} /\ Admitted(d) = {}
    BY DEF ScanInit, Holders, Counted, Admitted
  <2>2. quota[d] = 0
    BY DEF ScanInit
  <2> QED BY <2>1, <2>2, FS_EmptySet
<1>4. CountersHold
  BY <1>3 DEF CountersHold
<1> QED BY <1>1, <1>2, <1>4 DEF ScanInv

\* A step that leaves the counters and admits nobody keeps them true.
LEMMA CountersStay ==
  ASSUME CountersHold, UNCHANGED quota,
         \A d \in 0..MaxDay : /\ Holders(d)' \subseteq Holders(d)
                              /\ Counted(d) \subseteq Counted(d)'
                              /\ Admitted(d)' \subseteq Admitted(d),
         quota \in [0..MaxDay -> Nat]
  PROVE  CountersHold'
<1> SUFFICES ASSUME NEW d \in 0..MaxDay
             PROVE  /\ Cardinality(Holders(d)') <= quota[d]
                    /\ quota[d] <= Cardinality(Counted(d)')
                    /\ Cardinality(Admitted(d)') <= DailyLimit
  BY DEF CountersHold
<1>1. /\ Cardinality(Holders(d)') <= Cardinality(Holders(d))
      /\ Cardinality(Counted(d)) <= Cardinality(Counted(d)')
      /\ Cardinality(Admitted(d)') <= Cardinality(Admitted(d))
  BY CountsAreFinite, NextCountsAreFinite, FS_Subset
<1>2. /\ Cardinality(Holders(d)) <= quota[d] /\ quota[d] <= Cardinality(Counted(d))
      /\ Cardinality(Admitted(d)) <= DailyLimit /\ quota[d] \in Nat
  BY DEF CountersHold
<1> QED BY <1>1, <1>2, CountsAreFinite, NextCountsAreFinite

\* Steps that touch neither a submission nor a row.
LEMMA SwitchStep ==
  ASSUME ScanInv, SetTarget \/ KillSwitch \/ Midnight \/ UNCHANGED scanVars
  PROVE  ScanInv'
<1> USE DEF ScanInv
<1>1. UNCHANGED <<quota, submitter, job, pushed, scan, crashes>>
  BY DEF SetTarget, KillSwitch, Midnight, scanVars
<1>2. ScanTyped'
  <2>1. CASE Midnight
    BY <2>1, <1>1 DEF Midnight, ScanTyped
  <2>2. CASE SetTarget \/ KillSwitch \/ UNCHANGED scanVars
    BY <2>2, <1>1 DEF SetTarget, KillSwitch, scanVars, ScanTyped
  <2> QED BY <2>1, <2>2
<1>3. JobsInOrder'
  BY <1>1 DEF JobsInOrder, Queued
<1>4. \A d \in 0..MaxDay : Holders(d)' = Holders(d) /\ Counted(d)' = Counted(d)
                             /\ Admitted(d)' = Admitted(d)
  BY <1>1 DEF Holders, Counted, Admitted
<1>5. CountersHold'
  BY <1>1, <1>4, CountersStay DEF ScanTyped
<1> QED BY <1>2, <1>3, <1>5

\* A submission is counted, and admitted when its place is within the limit.
LEMMA CountStep ==
  ASSUME ScanInv, NEW j \in Jobs, CountQuota(j)
  PROVE  ScanInv'
<1> USE DEF ScanInv
<1> DEFINE n == [pc |-> IF quota[day] + 1 > DailyLimit THEN "over" ELSE "counted",
                 day |-> day]
<1>1. /\ submitter[j].pc = "allowed" /\ submitter' = [submitter EXCEPT ![j] = n]
      /\ quota' = [quota EXCEPT ![day] = @ + 1]
      /\ UNCHANGED <<day, disabled, target, job, pushed, scan, crashes>>
  BY DEF CountQuota
<1>2. n \in Submitter /\ n.day = day /\ n.pc \in {"counted", "over"}
      /\ (n.pc = "counted" => quota[day] + 1 <= DailyLimit)
  BY DEF ScanTyped, Submitter, SubmitStages
<1> HIDE DEF n
<1>3. ScanTyped'
  <2>1. submitter' \in [Jobs -> Submitter]
    BY <1>1, <1>2 DEF ScanTyped
  <2>2. quota' \in [0..MaxDay -> Nat]
    BY <1>1 DEF ScanTyped
  <2> QED BY <1>1, <2>1, <2>2 DEF ScanTyped
<1>4. job[j] = "absent" /\ scan[j].pc = "none" /\ j \notin Queued
  BY <1>1 DEF JobsInOrder
<1>5. /\ \A k \in Jobs \ {j} : submitter'[k] = submitter[k]
      /\ submitter'[j] = n
  BY <1>1 DEF ScanTyped
<1>6. JobsInOrder'
  <2>1. Queued' = Queued /\ Queued \subseteq Jobs
    BY <1>1 DEF Queued, ScanTyped
  <2> QED BY <1>1, <1>2, <1>4, <1>5, <2>1 DEF JobsInOrder
<1>7. ASSUME NEW d \in 0..MaxDay
      PROVE  /\ Cardinality(Holders(d)') <= quota'[d]
             /\ quota'[d] <= Cardinality(Counted(d)')
             /\ Cardinality(Admitted(d)') <= DailyLimit
  <2>1. j \notin Holders(d) /\ j \notin Counted(d) /\ j \notin Admitted(d)
    BY <1>1, <1>4 DEF Holders, Counted, Admitted
  <2>2. /\ Cardinality(Holders(d)) <= quota[d] /\ quota[d] <= Cardinality(Counted(d))
        /\ Cardinality(Admitted(d)) <= DailyLimit /\ quota[d] \in Nat
    BY DEF CountersHold, ScanTyped
  <2>3. CASE d # day
    <3>1. Holders(d)' = Holders(d) /\ Counted(d)' = Counted(d) /\ Admitted(d)' = Admitted(d)
      BY <1>1, <1>2, <1>5, <2>1, <2>3 DEF Holders, Counted, Admitted
    <3>2. quota'[d] = quota[d]
      BY <1>1, <2>3 DEF ScanTyped
    <3> QED BY <2>2, <3>1, <3>2
  <2>4. CASE d = day
    <3>1. /\ Holders(d)' = Holders(d) \cup {j}
          /\ Counted(d)' = Counted(d) \cup {j}
          /\ Admitted(d)' = IF n.pc = "counted" THEN Admitted(d) \cup {j} ELSE Admitted(d)
      BY <1>1, <1>2, <1>4, <1>5, <2>4 DEF Holders, Counted, Admitted
    <3>2. quota'[d] = quota[d] + 1
      BY <1>1, <2>4 DEF ScanTyped
    <3>3. /\ Cardinality(Holders(d)') = Cardinality(Holders(d)) + 1
          /\ Cardinality(Counted(d)') = Cardinality(Counted(d)) + 1
          /\ Cardinality(Admitted(d) \cup {j}) = Cardinality(Admitted(d)) + 1
      BY <2>1, <3>1, CountsAreFinite, FS_AddElement
    <3>4. Cardinality(Admitted(d)) <= quota[d]
      <4>1. Admitted(d) \in SUBSET Holders(d)
        BY DEF Admitted, Holders
      <4>2. Cardinality(Admitted(d)) <= Cardinality(Holders(d))
        BY <4>1, CountsAreFinite, FS_Subset
      <4> QED BY <2>2, <4>2, CountsAreFinite
    <3>5. Cardinality(Admitted(d)') <= DailyLimit
      <4>1. CASE n.pc = "counted"
        BY <1>2, <2>2, <2>4, <3>1, <3>3, <3>4, <4>1, CountsAreFinite
      <4>2. CASE n.pc # "counted"
        BY <2>2, <3>1, <4>2
      <4> QED BY <4>1, <4>2
    <3> QED BY <2>2, <3>2, <3>3, <3>5, CountsAreFinite
  <2> QED BY <2>3, <2>4
<1>8. CountersHold'
  BY <1>7 DEF CountersHold
<1> QED BY <1>3, <1>6, <1>8

\* A submission over the limit gives its place back.
LEMMA GiveBackStep ==
  ASSUME ScanInv, NEW j \in Jobs, GiveBack(j)
  PROVE  ScanInv'
<1> USE DEF ScanInv
<1> DEFINE n == [submitter[j] EXCEPT !.pc = "refused"]
           back == submitter[j].day
<1>1. /\ submitter[j].pc = "over" /\ submitter' = [submitter EXCEPT ![j] = n]
      /\ quota' = [quota EXCEPT ![back] = @ - 1]
      /\ UNCHANGED <<day, disabled, target, job, pushed, scan, crashes>>
  BY DEF GiveBack, Submit
<1>2. n \in Submitter /\ n.day = back /\ n.pc = "refused" /\ back \in 0..MaxDay
  BY DEF ScanTyped, Submitter, SubmitStages
<1> HIDE DEF n, back
<1>3. job[j] = "absent" /\ scan[j].pc = "none" /\ j \notin Queued
  BY <1>1 DEF JobsInOrder
<1>4. /\ \A k \in Jobs \ {j} : submitter'[k] = submitter[k]
      /\ submitter'[j] = n
  BY <1>1 DEF ScanTyped
<1>5. ASSUME NEW d \in 0..MaxDay
      PROVE  /\ Cardinality(Holders(d)') <= quota'[d]
             /\ quota'[d] <= Cardinality(Counted(d)')
             /\ Cardinality(Admitted(d)') <= DailyLimit
             /\ quota'[d] \in Nat
  <2>1. /\ Cardinality(Holders(d)) <= quota[d] /\ quota[d] <= Cardinality(Counted(d))
        /\ Cardinality(Admitted(d)) <= DailyLimit /\ quota[d] \in Nat
    BY DEF CountersHold, ScanTyped
  <2>2. Admitted(d)' = Admitted(d)
    BY <1>1, <1>2, <1>3, <1>4 DEF Admitted
  <2>3. CASE d # back
    <3>1. Holders(d)' = Holders(d) /\ Counted(d)' = Counted(d)
      BY <1>1, <1>2, <1>3, <1>4, <2>3 DEF Holders, Counted, back
    <3>2. quota'[d] = quota[d]
      BY <1>1, <2>3 DEF ScanTyped
    <3> QED BY <2>1, <2>2, <3>1, <3>2
  <2>4. CASE d = back
    <3>1. j \in Holders(d) /\ j \in Counted(d)
      BY <1>1, <2>4 DEF Holders, Counted, back
    <3>2. Holders(d)' = Holders(d) \ {j} /\ Counted(d)' = Counted(d) \ {j}
      BY <1>1, <1>2, <1>3, <1>4, <2>4 DEF Holders, Counted
    <3>3. quota'[d] = quota[d] - 1
      BY <1>1, <1>2, <2>4 DEF ScanTyped
    <3>4. /\ Cardinality(Holders(d)') = Cardinality(Holders(d)) - 1
          /\ Cardinality(Counted(d)') = Cardinality(Counted(d)) - 1
      <4>1. IsFiniteSet(Holders(d)) /\ IsFiniteSet(Counted(d))
        BY CountsAreFinite
      <4>2. /\ Cardinality(Holders(d) \ {j}) = Cardinality(Holders(d)) - 1
            /\ Cardinality(Counted(d) \ {j}) = Cardinality(Counted(d)) - 1
        BY <3>1, <4>1, FS_RemoveElement
      <4> QED BY <3>2, <4>2
    <3> QED BY <2>1, <2>2, <3>3, <3>4, CountsAreFinite, NextCountsAreFinite
  <2> QED BY <2>3, <2>4
<1>6. CountersHold'
  BY <1>5 DEF CountersHold
<1>7. ScanTyped'
  <2>1. submitter' \in [Jobs -> Submitter]
    BY <1>1, <1>2 DEF ScanTyped
  <2>2. quota' \in [0..MaxDay -> Nat]
    BY <1>1, <1>5 DEF ScanTyped
  <2> QED BY <1>1, <2>1, <2>2 DEF ScanTyped
<1>8. JobsInOrder'
  <2>1. Queued' = Queued /\ Queued \subseteq Jobs
    BY <1>1 DEF Queued, ScanTyped
  <2> QED BY <1>1, <1>2, <1>3, <1>4, <2>1 DEF JobsInOrder
<1> QED BY <1>6, <1>7, <1>8

\* A step that changes no submission, and gives no row to a job without one.
LEMMA JobRowsStay ==
  ASSUME ScanInv, UNCHANGED <<quota, submitter>>,
         \A k \in Jobs : job'[k] = "absent" <=> job[k] = "absent"
  PROVE  CountersHold'
<1>1. \A d \in 0..MaxDay : Holders(d)' = Holders(d) /\ Counted(d)' = Counted(d)
                             /\ Admitted(d)' = Admitted(d)
  BY DEF Holders, Counted, Admitted
<1> QED BY <1>1, CountersStay DEF ScanInv, ScanTyped

\* The other steps of a submission: the checks, the INSERT and the LPUSH.
LEMMA SubmissionStep ==
  ASSUME ScanInv, NEW j \in Jobs, Allow(j) \/ InsertJob(j) \/ PushJob(j)
  PROVE  ScanInv'
<1> USE DEF ScanInv
<1>1. PICK to \in SubmitStages :
        /\ submitter' = [submitter EXCEPT ![j].pc = to]
        /\ UNCHANGED <<day, disabled, target, quota, scan, crashes>>
        /\ \/ submitter[j].pc = "idle" /\ to \in {"allowed", "refused"}
                /\ UNCHANGED <<job, pushed>>
           \/ submitter[j].pc = "counted" /\ to = "accepted"
                /\ job' = [job EXCEPT ![j] = "queued"] /\ UNCHANGED pushed
           \/ submitter[j].pc = "accepted" /\ to = "done"
                /\ pushed' = Append(pushed, j) /\ UNCHANGED job
  <2>1. CASE Allow(j)
    BY <2>1 DEF Allow, Submit, SubmitStages
  <2>2. CASE InsertJob(j)
    BY <2>2 DEF InsertJob, Submit, SubmitStages
  <2>3. CASE PushJob(j)
    BY <2>3 DEF PushJob, Submit, SubmitStages
  <2> QED BY <2>1, <2>2, <2>3
<1> DEFINE n == [submitter[j] EXCEPT !.pc = to]
<1>2. /\ submitter' = [submitter EXCEPT ![j] = n]
      /\ n \in Submitter /\ n.pc = to /\ n.day = submitter[j].day
  BY <1>1 DEF ScanTyped, Submitter
<1> HIDE DEF n
<1>3. /\ \A k \in Jobs \ {j} : submitter'[k] = submitter[k]
      /\ submitter'[j] = n
  BY <1>2 DEF ScanTyped
<1>4. submitter' \in [Jobs -> Submitter] /\ job' \in [Jobs -> JobStates]
  BY <1>1, <1>2 DEF ScanTyped, JobStates
<1>5. pushed' \in Seq(Jobs)
  <2>1. pushed \in Seq(Jobs) /\ (pushed' = pushed \/ pushed' = Append(pushed, j))
    BY <1>1 DEF ScanTyped
  <2> QED BY <2>1
<1>6. ScanTyped'
  BY <1>1, <1>4, <1>5 DEF ScanTyped
<1>7. \A d \in 0..MaxDay : /\ Holders(d)' = Holders(d)
                           /\ Counted(d)' = Counted(d)
                           /\ Admitted(d)' = Admitted(d)
  <2> SUFFICES ASSUME NEW d \in 0..MaxDay, NEW k \in Jobs
               PROVE  /\ k \in Holders(d)' <=> k \in Holders(d)
                      /\ k \in Counted(d)' <=> k \in Counted(d)
                      /\ k \in Admitted(d)' <=> k \in Admitted(d)
    BY DEF Holders, Counted, Admitted
  <2>1. CASE k = j
    <3>1. submitter[j].pc = "accepted" => job[j] # "absent"
      BY DEF JobsInOrder
    <3>2. submitter[j].pc \in {"idle", "counted"} => job[j] = "absent"
      BY DEF JobsInOrder
    <3>3. job'[j] = IF submitter[j].pc = "counted" THEN "queued" ELSE job[j]
      BY <1>1 DEF ScanTyped
    <3> QED BY <1>1, <1>2, <1>3, <2>1, <3>1, <3>2, <3>3 DEF Holders, Counted, Admitted
  <2>2. CASE k # j
    <3>1. submitter'[k] = submitter[k] /\ job'[k] = job[k]
      BY <1>1, <1>3, <2>2 DEF ScanTyped
    <3> QED BY <3>1 DEF Holders, Counted, Admitted
  <2> QED BY <2>1, <2>2
<1>8. CountersHold'
  BY <1>1, <1>7, CountersStay DEF ScanTyped
<1>9. JobsInOrder'
  <2>1. scan[j].pc = "none" /\ j \notin Queued /\ Queued \subseteq Jobs
        /\ job[j] # "completed"
    BY <1>1 DEF JobsInOrder, Queued, ScanTyped
  <2>2. CASE UNCHANGED pushed
    <3>1. Queued' = Queued
      BY <2>2 DEF Queued
    <3>2. \A k \in Jobs \ {j} : job'[k] = job[k]
      BY <1>1 DEF ScanTyped
    <3>3. \/ job'[j] = job[j] /\ submitter[j].pc \in {"idle", "accepted"}
          \/ job'[j] = "queued" /\ to = "accepted"
      BY <1>1 DEF ScanTyped
    <3>4. job'[j] # "absent" => to \in {"accepted", "done"}
      BY <1>1, <3>3 DEF JobsInOrder
    <3>5. to = "accepted" => job'[j] # "absent"
      BY <1>1, <3>3
    <3>6. job'[j] # "completed"
      BY <2>1, <3>3
    <3> QED BY <1>1, <1>2, <1>3, <2>1, <2>2, <3>1, <3>2, <3>4, <3>5, <3>6
            DEF JobsInOrder
  <2>3. CASE pushed' = Append(pushed, j) /\ submitter[j].pc = "accepted" /\ to = "done"
               /\ UNCHANGED job
    <3>1. Queued' = Queued \cup {j}
      BY <2>3 DEF Queued, ScanTyped
    <3>2. \A i, k \in 1..Len(pushed') : pushed'[i] = pushed'[k] => i = k
      <4> SUFFICES ASSUME NEW i \in 1..Len(pushed'), NEW k \in 1..Len(pushed'),
                          pushed'[i] = pushed'[k]
                   PROVE  i = k
        OBVIOUS
      <4>1. /\ Len(pushed') = Len(pushed) + 1
            /\ pushed'[Len(pushed) + 1] = j
            /\ \A x \in 1..Len(pushed) : pushed'[x] = pushed[x]
        BY <2>3 DEF ScanTyped
      <4>2. \A x \in 1..Len(pushed) : pushed[x] # j
        BY <2>1 DEF Queued
      <4>3. Len(pushed) \in Nat
        BY DEF ScanTyped
      <4> QED BY <4>1, <4>2, <4>3 DEF JobsInOrder
    <3>3. job[j] # "absent"
      BY <2>3 DEF JobsInOrder
    <3> QED BY <1>1, <1>2, <1>3, <2>1, <2>3, <3>1, <3>2, <3>3 DEF JobsInOrder
  <2> QED BY <1>1, <2>2, <2>3
<1> QED BY <1>6, <1>8, <1>9

\* A cancelled job may still have tools at work; it is not completed.
LEMMA CancelStep ==
  ASSUME ScanInv, NEW j \in Jobs, CancelJob(j)
  PROVE  ScanInv'
<1> USE DEF ScanInv
<1>1. /\ job[j] = "queued" /\ job' = [job EXCEPT ![j] = "cancelled"]
      /\ UNCHANGED <<day, disabled, target, quota, submitter, pushed, scan, crashes>>
  BY DEF CancelJob
<1>2. ScanTyped'
  BY <1>1 DEF ScanTyped, JobStates
<1>3. \A k \in Jobs : /\ job'[k] = "absent" <=> job[k] = "absent"
                      /\ job'[k] = "completed" <=> job[k] = "completed"
  BY <1>1 DEF ScanTyped
<1>4. CountersHold'
  BY <1>1, <1>3, JobRowsStay
<1>5. JobsInOrder'
  <2>1. Queued' = Queued /\ Queued \subseteq Jobs
    BY <1>1 DEF Queued, ScanTyped
  <2> QED BY <1>1, <1>3, <2>1 DEF JobsInOrder
<1> QED BY <1>2, <1>4, <1>5

\* The worker takes a job that no task has had before.
LEMMA PopStep ==
  ASSUME ScanInv, PopJob
  PROVE  ScanInv'
<1> USE DEF ScanInv
<1> DEFINE j == Head(pushed)
           n == [NoScan EXCEPT !.pc = "tools", !.running = Tools]
<1>1. /\ pushed # <<>> /\ pushed' = Tail(pushed)
      /\ scan' = [scan EXCEPT ![j] = n]
      /\ UNCHANGED <<day, disabled, target, quota, submitter, job, crashes>>
  BY DEF PopJob
<1>2. n \in Scan /\ n.pc = "tools"
  BY DEF NoScan, Scan
<1> HIDE DEF n
<1>3. j \in Jobs /\ j = pushed[1] /\ 1 \in 1..Len(pushed)
  BY <1>1 DEF ScanTyped
<1> HIDE DEF j
<1>4. ScanTyped'
  <2>1. scan' \in [Jobs -> Scan]
    BY <1>1, <1>2, <1>3 DEF ScanTyped
  <2>2. pushed' \in Seq(Jobs)
    BY <1>1 DEF ScanTyped
  <2> QED BY <1>1, <2>1, <2>2 DEF ScanTyped
<1>5. /\ \A i \in 1..Len(pushed') : i + 1 \in 1..Len(pushed) /\ pushed'[i] = pushed[i + 1]
      /\ Len(pushed') \in Nat
  <2>1. ASSUME NEW s \in Seq(Jobs), s # <<>>, NEW i \in 1..Len(Tail(s))
        PROVE  i + 1 \in 1..Len(s) /\ Tail(s)[i] = s[i + 1]
    BY <2>1
  <2>2. pushed \in Seq(Jobs) /\ pushed' \in Seq(Jobs)
    BY <1>4 DEF ScanTyped
  <2> QED BY <1>1, <2>1, <2>2
<1>6. \A i, k \in 1..Len(pushed') : pushed'[i] = pushed'[k] => i = k
  <2> SUFFICES ASSUME NEW i \in 1..Len(pushed'), NEW k \in 1..Len(pushed'),
                      pushed'[i] = pushed'[k]
               PROVE  i = k
    OBVIOUS
  <2>1. i + 1 = k + 1
    BY <1>5 DEF JobsInOrder
  <2> QED BY <2>1, <1>5
<1>7. Queued' \subseteq Queued \ {j} /\ Queued \subseteq Jobs /\ j \in Queued
  <2>1. j \in Queued /\ Queued \subseteq Jobs
    BY <1>3 DEF Queued, ScanTyped
  <2>2. ASSUME NEW i \in 1..Len(pushed') PROVE pushed'[i] \in Queued \ {j}
    <3>1. pushed[i + 1] # pushed[1]
      <4>1. i + 1 # 1
        BY <1>5
      <4> QED BY <4>1, <1>3, <1>5 DEF JobsInOrder
    <3> QED BY <1>3, <1>5, <3>1 DEF Queued
  <2> QED BY <2>1, <2>2 DEF Queued
<1>8. scan'[j] = n /\ \A k \in Jobs \ {j} : scan'[k] = scan[k]
  BY <1>1, <1>3 DEF ScanTyped
<1>9. JobsInOrder'
  BY <1>1, <1>2, <1>3, <1>6, <1>7, <1>8 DEF JobsInOrder
<1>10. CountersHold'
  BY <1>1, JobRowsStay
<1> QED BY <1>4, <1>9, <1>10

\* A task of the worker moves on.
LEMMA TaskStep ==
  ASSUME ScanInv, NEW j \in Jobs,
         \/ Gather(j) \/ GarakEnds(j)
         \/ \E t \in Tools : ToolEnds(j, t) \/ ToolFails(j, t) \/ ToolTimesOut(j, t)
  PROVE  ScanInv'
<1> USE DEF ScanInv
<1>1. scan[j] \in Scan
  BY DEF ScanTyped
<1> DEFINE Moves(n) ==
             /\ scan' = [scan EXCEPT ![j] = n]
             /\ scan[j].pc # "none" /\ n.pc # "none"
             /\ n.running \subseteq scan[j].running
             /\ n.pc = "garak" => n.running = {}
             /\ \/ job' = job /\ (scan[j].pc = "over" => n.pc = "over")
                \/ \E s \in {"failed", "partial"} : job' = [job EXCEPT ![j] = s]
                \/ /\ job' = [job EXCEPT ![j] = "completed"]
                   /\ n.pc = "over" /\ n.running = {}
<1>2. PICK n \in Scan : Moves(n)
  <2>1. CASE Gather(j)
    <3>1. [scan[j] EXCEPT !.pc = "garak"] \in Scan
          /\ [scan[j] EXCEPT !.pc = "garak"].pc = "garak"
          /\ [scan[j] EXCEPT !.pc = "garak"].running = scan[j].running
      BY <1>1 DEF Scan
    <3> QED BY <2>1, <3>1 DEF Gather
  <2>2. CASE GarakEnds(j)
    <3>1. [scan[j] EXCEPT !.pc = "over"] \in Scan
          /\ [scan[j] EXCEPT !.pc = "over"].pc = "over"
          /\ [scan[j] EXCEPT !.pc = "over"].running = scan[j].running
      BY <1>1 DEF Scan
    <3>2. scan[j].pc = "garak" /\ scan[j].running = {}
      BY <2>2 DEF GarakEnds, JobsInOrder
    <3> QED BY <2>2, <3>1, <3>2 DEF GarakEnds, Report
  <2>3. ASSUME NEW t \in Tools, ToolEnds(j, t)
        PROVE  \E n \in Scan : Moves(n)
    <3> DEFINE m == [scan[j] EXCEPT !.running = @ \ {t}]
    <3>1. m \in Scan /\ m.pc = scan[j].pc /\ m.running = scan[j].running \ {t}
      BY <1>1 DEF Scan
    <3>2. scan' = [scan EXCEPT ![j] = m] /\ job' = job /\ t \in scan[j].running
      BY <2>3 DEF ToolEnds
    <3> HIDE DEF m
    <3>3. scan[j].pc \notin {"none", "garak"}
      BY <3>2 DEF JobsInOrder
    <3> QED BY <3>1, <3>2, <3>3
  <2>4. ASSUME NEW t \in Tools, ToolFails(j, t) \/ ToolTimesOut(j, t)
        PROVE  \E n \in Scan : Moves(n)
    <3> DEFINE m == [scan[j] EXCEPT !.running = @ \ {t}, !.pc = "over"]
    <3>1. m \in Scan /\ m.pc = "over" /\ m.running = scan[j].running \ {t}
      BY <1>1 DEF Scan
    <3>2. scan' = [scan EXCEPT ![j] = m] /\ t \in scan[j].running
          /\ \/ job' = job
             \/ \E s \in {"failed", "partial"} : job' = [job EXCEPT ![j] = s]
      BY <2>4 DEF ToolFails, ToolTimesOut, ToolRaises, Report
    <3> HIDE DEF m
    <3>3. scan[j].pc # "none"
      BY <3>2 DEF JobsInOrder
    <3> QED BY <3>1, <3>2, <3>3
  <2> QED BY <2>1, <2>2, <2>3, <2>4
<1>3. UNCHANGED <<day, disabled, target, quota, submitter, pushed, crashes>>
  BY DEF Gather, GarakEnds, ToolEnds, ToolFails, ToolTimesOut, ToolRaises
<1>4. ScanTyped'
  BY <1>2, <1>3 DEF ScanTyped, JobStates
<1>5. job[j] # "absent" /\ submitter[j].pc = "done" /\ j \notin Queued
  BY <1>2 DEF JobsInOrder
<1>6. /\ scan'[j] = n /\ \A k \in Jobs \ {j} : scan'[k] = scan[k] /\ job'[k] = job[k]
      /\ job'[j] # "absent"
  BY <1>2, <1>5 DEF ScanTyped
<1>7. CountersHold'
  BY <1>3, <1>5, <1>6, JobRowsStay
<1>8. job'[j] = "completed" => n.pc = "over" /\ n.running = {}
  BY <1>2 DEF ScanTyped, JobsInOrder
<1>9. JobsInOrder'
  <2>1. Queued' = Queued /\ Queued \subseteq Jobs
    BY <1>3 DEF Queued, ScanTyped
  <2> QED BY <1>2, <1>3, <1>5, <1>6, <1>8, <2>1 DEF JobsInOrder
<1> QED BY <1>4, <1>7, <1>9

\* A restart ends tasks and requests, and no job's counting.
LEMMA RestartStep ==
  ASSUME ScanInv, Restart
  PROVE  ScanInv'
<1> USE DEF ScanInv
<1>1. /\ crashes' \in 0..MaxCrashes
      /\ UNCHANGED <<day, disabled, target, quota, job, pushed>>
  BY DEF Restart, ScanTyped
<1>2. /\ scan' \in [Jobs -> Scan]
      /\ \A k \in Jobs : /\ scan'[k].running = {}
                         /\ scan[k].pc = "none" <=> scan'[k].pc = "none"
                         /\ scan'[k].pc \in {"none", "over"}
  BY DEF Restart, ScanTyped, Scan, NoScan
<1>3. /\ submitter' \in [Jobs -> Submitter]
      /\ \A k \in Jobs :
           /\ submitter'[k].day = submitter[k].day
           /\ submitter'[k].pc = IF submitter[k].pc = "idle" THEN "idle" ELSE "done"
  BY DEF Restart, ScanTyped, Submitter, SubmitStages
<1>4. ScanTyped'
  BY <1>1, <1>2, <1>3 DEF ScanTyped
<1>5. \A d \in 0..MaxDay : /\ Holders(d)' \subseteq Holders(d)
                           /\ Counted(d) \subseteq Counted(d)'
                           /\ Admitted(d)' \subseteq Admitted(d)
  BY <1>1, <1>3 DEF Holders, Counted, Admitted
<1>6. CountersHold'
  BY <1>1, <1>5, CountersStay DEF ScanTyped
<1>7. JobsInOrder'
  <2>1. Queued' = Queued /\ Queued \subseteq Jobs
    BY <1>1 DEF Queued, ScanTyped
  <2>2. \A k \in Jobs : job[k] = "completed" => scan'[k].pc = "over"
    BY <1>2 DEF JobsInOrder
  <2> QED BY <1>1, <1>2, <1>3, <2>1, <2>2 DEF JobsInOrder
<1> QED BY <1>4, <1>6, <1>7

\* However submissions overlap, with each other, with midnight and with
\* restarts, a day admits no more jobs than the node's quota (_check_quota), and
\* a job is reported completed, without partial_results, after the last of
\* its tools (process_job).
THEOREM ScansAreSound == ScanSpec => [](ScanTypeOK /\ ScansSound)
<1>1. ScanInv /\ [ScanNext]_scanVars => ScanInv'
  BY SwitchStep, CountStep, GiveBackStep, SubmissionStep, CancelStep, PopStep, TaskStep,
     RestartStep DEF ScanNext
<1> QED BY ScansStart, <1>1, ScanInvImplies, PTL DEF ScanSpec

HIDE ScanJobsAssumption

---------------------------------------------------------------------------
(* Graph builds.  A claimed build belongs to one live worker, and a        *)
(* repository is marked ready by the worker whose build succeeded.         *)

USE GraphBuildsAssumption

RepoRow == [alive : BOOLEAN, id : 0..MaxRows, url : Urls \cup {None},
            status : {"registered", "building", "ready", "failed"}]
BuildRow == [id : 0..MaxRows,
             status : {"absent", "queued", "running", "succeeded", "failed", "gone"}]
BuilderState == [pc : {"idle", "clone", "extract", "good", "bad"},
                 build : Builds, id : 0..MaxRows, url : Urls \cup {None}]

\* A build belongs to a row that was registered, and is gone only with its row.
BuildsHaveRows ==
    \A b \in Builds :
        /\ build[b].id <= repo.id
        /\ build[b].status = "gone" => ~(repo.alive /\ build[b].id = repo.id)

\* A worker at work has claimed its build, and nobody else has.
WorkersHaveBuilds ==
    \A w \in Builders : ~At(w, "idle") =>
        /\ build[builder[w].build].status \in {"running", "gone"}
        /\ build[builder[w].build].id = builder[w].id

GraphInv ==
    /\ GraphTypeOK
    /\ BuildsHaveRows
    /\ WorkersHaveBuilds
    /\ ReadyWasBuilt

\* At first there is no repository.
LEMMA GraphStart == GraphInit => GraphInv
<1> SUFFICES ASSUME GraphInit PROVE GraphInv
  OBVIOUS
<1>1. PICK b \in Builds : builder = [w \in Builders |-> IdleBuilder(b)]
  BY DEF GraphInit
<1>2. \A w \in Builders : builder[w] \in BuilderState /\ At(w, "idle")
  BY <1>1 DEF IdleBuilder, BuilderState, At
<1>3. builder \in [Builders -> BuilderState]
  BY <1>1, <1>2
<1>4. repo \in RepoRow /\ build \in [Builds -> BuildRow]
  BY DEF GraphInit, RepoRow, BuildRow, NoBuild
<1>5. volume \in [src : Urls \cup {None}, graph : Urls \cup {None}]
  BY DEF GraphInit
<1>7. queueing \in 0..MaxRows /\ removing \in BOOLEAN /\ deaths \in 0..MaxDeaths
  <2>1. 0 \in 0..MaxRows /\ 0 \in 0..MaxDeaths
    OBVIOUS
  <2> QED BY <2>1 DEF GraphInit
<1>8. GraphTypeOK
  BY <1>3, <1>4, <1>5, <1>7 DEF GraphTypeOK, BuilderState, RepoRow, BuildRow
<1>6. BuildsHaveRows /\ WorkersHaveBuilds /\ ReadyWasBuilt
  BY <1>2 DEF GraphInit, BuildsHaveRows, WorkersHaveBuilds, ReadyWasBuilt, NoBuild
<1> QED BY <1>6, <1>8 DEF GraphInv

\* Queueing a build uses one that never was.
LEMMA GraphQueue ==
  ASSUME GraphInv, NEW n \in 0..MaxRows, Queue(n), repo' \in RepoRow,
         queueing' \in 0..MaxRows, UNCHANGED <<removing, volume, builder, deaths>>,
         \/ repo' = repo /\ repo.alive /\ n = repo.id
         \/ ~repo.alive /\ repo'.id = repo.id + 1 /\ n = repo'.id
            /\ repo'.status = "registered"
  PROVE  GraphInv'
<1>1. PICK b \in Builds : /\ build[b] = NoBuild
                          /\ build' = [build EXCEPT ![b] = [id |-> n, status |-> "queued"]]
  BY DEF Queue
<1>2. build \in [Builds -> BuildRow] /\ builder \in [Builders -> BuilderState]
      /\ repo.id \in Nat
  BY DEF GraphInv, GraphTypeOK, BuildRow, BuilderState
<1>3. [id |-> n, status |-> "queued"] \in BuildRow
  BY DEF BuildRow
<1>4. GraphTypeOK'
  BY <1>1, <1>2, <1>3 DEF GraphInv, GraphTypeOK, BuildRow, RepoRow
<1>5. \A d \in Builds : build'[d] = IF d = b THEN [id |-> n, status |-> "queued"] ELSE build[d]
  BY <1>1, <1>2
<1>6. BuildsHaveRows'
  BY <1>2, <1>5 DEF GraphInv, BuildsHaveRows, BuildRow
<1>7. WorkersHaveBuilds'
  BY <1>1, <1>2, <1>5 DEF GraphInv, WorkersHaveBuilds, At, NoBuild, BuilderState
<1>8. ReadyWasBuilt'
  BY <1>1, <1>5 DEF GraphInv, ReadyWasBuilt, At, NoBuild
<1> QED BY <1>4, <1>6, <1>7, <1>8 DEF GraphInv

\* The API: a removed row takes its builds with it.
LEMMA GraphApi ==
  ASSUME GraphInv, CreateRepo \/ RebuildRepo \/ MarkBuilding \/ DeleteRepo \/ RemoveTree
  PROVE  GraphInv'
<1>0. /\ build \in [Builds -> BuildRow] /\ builder \in [Builders -> BuilderState]
      /\ repo \in RepoRow /\ repo.id \in Nat
  BY DEF GraphInv, GraphTypeOK, BuildRow, BuilderState, RepoRow
<1>1. CASE CreateRepo
  <2>1. PICK u \in Urls : repo' = [alive |-> TRUE, id |-> repo.id + 1, url |-> u,
                                   status |-> "registered"]
    BY <1>1 DEF CreateRepo
  <2>2. repo.id + 1 \in 0..MaxRows
    BY <1>0, <1>1 DEF CreateRepo
  <2>3. repo' \in RepoRow
    BY <2>1, <2>2 DEF RepoRow
  <2> QED BY <1>1, <2>1, <2>2, <2>3, GraphQueue DEF CreateRepo
<1>2. CASE RebuildRepo
  BY <1>0, <1>2, GraphQueue DEF RebuildRepo, RepoRow
<1>3. CASE MarkBuilding
  <2>1. repo' \in RepoRow /\ repo'.id = repo.id /\ repo'.alive = repo.alive
        /\ (repo'.status = "ready" => repo.status = "ready")
    BY <1>0, <1>3 DEF MarkBuilding, RepoRow
  <2>2. queueing' = 0 /\ UNCHANGED <<build, removing, volume, builder, deaths>>
    BY <1>3 DEF MarkBuilding
  <2> QED BY <2>1, <2>2 DEF GraphInv, GraphTypeOK, BuildsHaveRows, WorkersHaveBuilds,
                            ReadyWasBuilt, RepoRow, At
<1>4. CASE DeleteRepo
  <2>1. repo' \in RepoRow /\ repo'.id = repo.id /\ ~repo'.alive
    BY <1>0, <1>4 DEF DeleteRepo, RepoRow
  <2>2. ASSUME NEW b \in Builds
        PROVE  /\ build'[b] \in BuildRow /\ build'[b].id = build[b].id
               /\ build'[b].status \in {build[b].status, "gone"}
    <3>1. [build[b] EXCEPT !.status = "gone"] \in BuildRow
      BY <1>0 DEF BuildRow
    <3> QED BY <1>0, <1>4, <3>1 DEF DeleteRepo, BuildRow
  <2>3. build' \in [Builds -> BuildRow]
    BY <1>4, <2>2 DEF DeleteRepo
  <2>4. UNCHANGED <<queueing, volume, builder, deaths>> /\ removing' = TRUE
    BY <1>4 DEF DeleteRepo
  <2>5. GraphTypeOK'
    BY <2>1, <2>3, <2>4 DEF GraphInv, GraphTypeOK, BuildRow, RepoRow
  <2>6. BuildsHaveRows' /\ WorkersHaveBuilds' /\ ReadyWasBuilt'
    BY <1>0, <2>1, <2>2, <2>4 DEF GraphInv, BuildsHaveRows, WorkersHaveBuilds,
                                  ReadyWasBuilt, At, BuilderState
  <2> QED BY <2>5, <2>6 DEF GraphInv
<1>5. CASE RemoveTree
  <2>1. volume' \in [src : Urls \cup {None}, graph : Urls \cup {None}]
    BY <1>5 DEF RemoveTree, GraphInv, GraphTypeOK
  <2>2. removing' = FALSE /\ UNCHANGED <<repo, build, queueing, builder, deaths>>
    BY <1>5 DEF RemoveTree
  <2> QED BY <2>1, <2>2 DEF GraphInv, GraphTypeOK, BuildsHaveRows, WorkersHaveBuilds,
                            ReadyWasBuilt, At
<1> QED BY <1>1, <1>2, <1>3, <1>4, <1>5

\* A worker that goes on, or stops, with its build.
LEMMA GraphWorker ==
  ASSUME GraphInv, NEW w \in Builders, Clone(w) \/ Extract(w) \/ Die(w)
  PROVE  GraphInv'
<1>0. builder \in [Builders -> BuilderState]
  BY DEF GraphInv, GraphTypeOK, BuilderState
<1>1. UNCHANGED <<repo, build, queueing, removing>> /\ ~At(w, "idle")
  BY DEF Clone, Extract, Die, At
<1>2. volume' \in [src : Urls \cup {None}, graph : Urls \cup {None}] /\ deaths' \in 0..MaxDeaths
  <2>1. CASE Clone(w)
    BY <1>0, <2>1 DEF Clone, GraphInv, GraphTypeOK, BuilderState
  <2>2. CASE Extract(w)
    BY <2>2 DEF Extract, GraphInv, GraphTypeOK
  <2>3. CASE Die(w)
    <3>1. deaths \in 0..MaxDeaths /\ deaths < MaxDeaths /\ deaths' = deaths + 1
      BY <2>3 DEF Die, GraphInv, GraphTypeOK
    <3>2. deaths' \in 0..MaxDeaths
      BY <3>1
    <3> QED BY <2>3, <3>2 DEF Die, GraphInv, GraphTypeOK
  <2> QED BY <2>1, <2>2, <2>3
<1>3. \E r \in BuilderState :
         /\ builder' = [builder EXCEPT ![w] = r]
         /\ r.pc # "idle" => r.build = builder[w].build /\ r.id = builder[w].id
  <2>1. ASSUME NEW pc \in {"extract", "good", "bad"}, Goes(w, pc)
        PROVE  \E r \in BuilderState :
                  /\ builder' = [builder EXCEPT ![w] = r]
                  /\ r.pc # "idle" => r.build = builder[w].build /\ r.id = builder[w].id
    <3>1. [builder[w] EXCEPT !.pc = pc] \in BuilderState
          /\ [builder[w] EXCEPT !.pc = pc].build = builder[w].build
          /\ [builder[w] EXCEPT !.pc = pc].id = builder[w].id
      BY <1>0 DEF BuilderState
    <3> QED BY <2>1, <3>1 DEF Goes
  <2>2. CASE Die(w)
    <3>1. IdleBuilder(builder[w].build) \in BuilderState
          /\ IdleBuilder(builder[w].build).pc = "idle"
      BY <1>0 DEF IdleBuilder, BuilderState
    <3> QED BY <2>2, <3>1 DEF Die
  <2> QED BY <2>1, <2>2 DEF Clone, Extract
<1>4. PICK r \in BuilderState :
         /\ builder' = [builder EXCEPT ![w] = r]
         /\ r.pc # "idle" => r.build = builder[w].build /\ r.id = builder[w].id
  BY <1>3
<1>5. builder' \in [Builders -> BuilderState]
      /\ \A v \in Builders : builder'[v] = IF v = w THEN r ELSE builder[v]
  BY <1>0, <1>4
<1>6. GraphTypeOK'
  BY <1>1, <1>2, <1>5 DEF GraphInv, GraphTypeOK, BuilderState
<1>7. BuildsHaveRows' /\ WorkersHaveBuilds'
  BY <1>1, <1>4, <1>5 DEF GraphInv, BuildsHaveRows, WorkersHaveBuilds, At
<1>8. ReadyWasBuilt'
  BY <1>1, <1>4, <1>5 DEF GraphInv, ReadyWasBuilt, At
<1> QED BY <1>6, <1>7, <1>8 DEF GraphInv

\* A claim takes a build nobody works on; a finished build stands for its row
\* only while that row is there.
LEMMA GraphClaim ==
  ASSUME GraphInv, NEW w \in Builders, ClaimBuild(w) \/ FinishBuild(w)
  PROVE  GraphInv'
<1>0. /\ build \in [Builds -> BuildRow] /\ builder \in [Builders -> BuilderState]
      /\ repo \in RepoRow
  BY DEF GraphInv, GraphTypeOK, BuildRow, BuilderState, RepoRow
<1>1. UNCHANGED <<queueing, removing, volume, deaths>>
  BY DEF ClaimBuild, FinishBuild
<1>2. CASE ClaimBuild(w)
  <2> DEFINE taken(b) == [pc |-> "clone", build |-> b, id |-> build[b].id, url |-> repo.url]
             running(b) == [build[b] EXCEPT !.status = "running"]
  <2>1. PICK b \in Builds : /\ build[b].status = "queued"
                            /\ build' = [build EXCEPT ![b] = running(b)]
                            /\ builder' = [builder EXCEPT ![w] = taken(b)]
    BY <1>2 DEF ClaimBuild
  <2>2. taken(b) \in BuilderState /\ running(b) \in BuildRow
        /\ running(b).status = "running" /\ running(b).id = build[b].id
    BY <1>0 DEF BuilderState, BuildRow, RepoRow
  <2>3. /\ build' \in [Builds -> BuildRow] /\ builder' \in [Builders -> BuilderState]
        /\ \A d \in Builds : build'[d] = IF d = b THEN running(b) ELSE build[d]
        /\ \A v \in Builders : builder'[v] = IF v = w THEN taken(b) ELSE builder[v]
    BY <1>0, <2>1, <2>2
  <2>4. taken(b).build = b /\ taken(b).id = build[b].id /\ taken(b).pc = "clone"
    OBVIOUS
  <2> HIDE DEF taken, running
  <2>5. repo' = repo
    BY <1>2 DEF ClaimBuild
  <2>6. GraphTypeOK'
    BY <1>0, <1>1, <2>3, <2>5 DEF GraphInv, GraphTypeOK, BuilderState, BuildRow
  <2>7. BuildsHaveRows'
    BY <2>2, <2>3, <2>5 DEF GraphInv, BuildsHaveRows
  <2>8. WorkersHaveBuilds'
    BY <1>0, <2>1, <2>2, <2>3, <2>4 DEF GraphInv, WorkersHaveBuilds, At, BuilderState
  <2>9. ReadyWasBuilt'
    BY <2>1, <2>2, <2>3, <2>4, <2>5
       DEF GraphInv, ReadyWasBuilt, WorkersHaveBuilds, At
  <2> QED BY <2>6, <2>7, <2>8, <2>9 DEF GraphInv
<1>3. CASE FinishBuild(w)
  <2> DEFINE b == builder[w].build
             outcome == IF At(w, "good") THEN "succeeded" ELSE "failed"
             ended == [build[b] EXCEPT !.status = IF @ = "gone" THEN @ ELSE outcome]
  <2>1. /\ b \in Builds /\ ~At(w, "idle")
        /\ build[b].status \in {"running", "gone"} /\ build[b].id = builder[w].id
    BY <1>0, <1>3 DEF FinishBuild, At, BuilderState, GraphInv, WorkersHaveBuilds
  <2>2. ended \in BuildRow /\ ended.id = build[b].id
        /\ ended.status = IF build[b].status = "gone" THEN "gone" ELSE outcome
    BY <1>0, <2>1 DEF BuildRow
  <2>3. build' = [build EXCEPT ![b] = ended]
        /\ builder' = [builder EXCEPT ![w] = IdleBuilder(b)]
    BY <1>3 DEF FinishBuild
  <2>4. IdleBuilder(b) \in BuilderState /\ IdleBuilder(b).pc = "idle"
    BY <2>1 DEF IdleBuilder, BuilderState
  <2>5. /\ build' \in [Builds -> BuildRow] /\ builder' \in [Builders -> BuilderState]
        /\ \A d \in Builds : build'[d] = IF d = b THEN ended ELSE build[d]
        /\ \A v \in Builders : builder'[v] = IF v = w THEN IdleBuilder(b) ELSE builder[v]
    BY <1>0, <2>1, <2>2, <2>3, <2>4
  <2>6. /\ repo' \in RepoRow /\ repo'.id = repo.id /\ repo'.alive = repo.alive
        /\ repo'.status = "ready" =>
              \/ repo.status = "ready"
              \/ repo.alive /\ repo.id = builder[w].id /\ At(w, "good")
    BY <1>0, <1>3 DEF FinishBuild, RepoRow
  <2> HIDE DEF ended, b
  <2>7. GraphTypeOK'
    BY <1>1, <2>5, <2>6 DEF GraphInv, GraphTypeOK, BuilderState, BuildRow, RepoRow
  <2>8. BuildsHaveRows'
    BY <2>1, <2>2, <2>5, <2>6 DEF GraphInv, BuildsHaveRows
  <2>9. \A v \in Builders : v # w /\ ~At(v, "idle") => builder[v].build # b
    BY <2>1 DEF GraphInv, ReadyWasBuilt, b
  <2>10. WorkersHaveBuilds'
    BY <1>0, <2>4, <2>5, <2>9 DEF GraphInv, WorkersHaveBuilds, At, BuilderState
  <2>11. \A v, u \in Builders : v # u /\ ~At(v, "idle")' /\ ~At(u, "idle")'
                                  => builder'[v].build # builder'[u].build
    BY <2>4, <2>5 DEF GraphInv, ReadyWasBuilt, At
  <2>12. ASSUME repo'.alive, repo'.status = "ready"
         PROVE  \E d \in Builds : build'[d] = [id |-> repo'.id, status |-> "succeeded"]
    <3>1. CASE repo.status = "ready"
      <4>1. PICK d \in Builds : build[d] = [id |-> repo.id, status |-> "succeeded"]
        BY <2>6, <2>12, <3>1 DEF GraphInv, ReadyWasBuilt
      <4>2. d # b
        BY <2>1, <4>1
      <4> QED BY <2>5, <2>6, <4>1, <4>2
    <3>2. CASE repo.alive /\ repo.id = builder[w].id /\ At(w, "good")
      <4>1. build[b].status # "gone"
        BY <2>1, <3>2 DEF GraphInv, BuildsHaveRows
      <4>2. ended.id = repo.id /\ ended.status = "succeeded"
        BY <2>1, <2>2, <3>2, <4>1
      <4>3. ended = [id |-> repo.id, status |-> "succeeded"]
        BY <2>2, <4>2 DEF BuildRow
      <4> QED BY <2>1, <2>5, <2>6, <4>3
    <3> QED BY <2>6, <2>12, <3>1, <3>2
  <2>13. ReadyWasBuilt'
    BY <2>11, <2>12 DEF ReadyWasBuilt
  <2> QED BY <2>7, <2>8, <2>10, <2>13 DEF GraphInv
<1> QED BY <1>2, <1>3

\* The rows, the volume and the workers hold only what the code puts there; for
\* any number of registrations, builds, workers and deaths a repository shown
\* ready has a succeeded build of its own row, and no two workers run one build
\* (claim_next_build, finish_build).
THEOREM ReadyRepositoriesWereBuilt == GraphSpec => [](GraphTypeOK /\ ReadyWasBuilt)
<1>1. GraphInv /\ [GraphNext]_graphVars => GraphInv'
  <2> SUFFICES ASSUME GraphInv, [GraphNext]_graphVars PROVE GraphInv'
    OBVIOUS
  <2>1. CASE UNCHANGED graphVars
    BY <2>1 DEF graphVars, GraphInv, GraphTypeOK, BuildsHaveRows, WorkersHaveBuilds,
                ReadyWasBuilt, At
  <2>2. CASE GraphNext
    BY <2>2, GraphApi, GraphWorker, GraphClaim DEF GraphNext
  <2> QED BY <2>1, <2>2
<1>2. GraphInv => GraphTypeOK /\ ReadyWasBuilt
  BY DEF GraphInv
<1> QED BY GraphStart, <1>1, <1>2, PTL DEF GraphSpec

HIDE GraphBuildsAssumption

---------------------------------------------------------------------------
(* AI champions.  Every payment has its claim or booking, and every        *)
(* counted upvote its developer.                                           *)

USE ChampionsAssumption

AskRow == [status : AskStatus, by : Champs \cup {Nobody}, due : BOOLEAN]
ConfirmCall == [pc : {"idle", "read", "owed", "done"}, to : Champs \cup {Nobody}]
UpvoteCall == [pc : {"idle", "on", "off", "done"}, by : Developers]
Ledger == [{"ask", "auto", "office"} -> [Champs -> Nat]]

\* Once claimed an ask keeps its champion, and whoever still grants points for
\* it grants them to him, after it was resolved.
AskBelongs ==
    /\ ask.status \in {"claimed", "resolved_pending", "resolved"} => ask.by \in Champs
    /\ \A a \in Askers :
          /\ confirmer[a].pc = "read" =>
                ask.status \in {"resolved_pending", "resolved"} /\ ask.by = confirmer[a].to
          /\ confirmer[a].pc = "owed" =>
                ask.status = "resolved" /\ ask.by = confirmer[a].to
    /\ nightly # Nobody => ask.status = "resolved" /\ ask.by = nightly

AsksArePaid ==
    \A c \in Champs : ledger["ask"][c] + ledger["auto"][c] > 0 =>
                         ask.status = "resolved" /\ ask.by = c

\* A booking owes its grant only once, and nothing before it is done.
OfficeOwes ==
    \A c \in Champs :
        /\ booking[c] # "done" => office[c] = 0 /\ ledger["office"][c] = 0
        /\ office[c] = 1 => ledger["office"][c] = 0
        /\ ledger["office"][c] <= OfficePoints

ChampionsInv ==
    /\ ChampionsTypeOK
    /\ AskBelongs
    /\ AsksArePaid
    /\ OfficeOwes
    /\ UpvotesBacked

\* At first nothing is claimed, booked or paid.
LEMMA ChampionsStart == ChampionsInit => ChampionsInv
<1> SUFFICES ASSUME ChampionsInit PROVE ChampionsInv
  OBVIOUS
<1>1. PICK by \in [Toggles -> Developers] :
         toggle = [t \in Toggles |-> [pc |-> "idle", by |-> by[t]]]
  BY DEF ChampionsInit
<1>2. toggle \in [Toggles -> UpvoteCall]
  BY <1>1 DEF UpvoteCall
<1>3. ask \in AskRow /\ confirmer \in [Askers -> ConfirmCall] /\ ledger \in Ledger
  BY DEF ChampionsInit, AskRow, AskStatus, ConfirmCall, Ledger
<1>4. ChampionsTypeOK
  BY <1>2, <1>3 DEF ChampionsInit, ChampionsTypeOK, AskRow, ConfirmCall, UpvoteCall, Ledger
<1>5. UpvotesBacked
  BY FS_EmptySet DEF ChampionsInit, UpvotesBacked
<1>6. AskBelongs /\ AsksArePaid /\ OfficeOwes
  BY DEF ChampionsInit, AskBelongs, AsksArePaid, OfficeOwes, OfficePoints
<1> QED BY <1>4, <1>5, <1>6 DEF ChampionsInv

\* A grant adds to one entry of the ledger or to none.
LEMMA GrantAdds ==
  ASSUME ledger \in Ledger, NEW reason \in {"ask", "auto", "office"}, NEW c \in Champs,
         NEW points \in Nat, Grant(reason, c, points)
  PROVE  /\ ledger' \in Ledger
         /\ \A s \in {"ask", "auto", "office"}, d \in Champs :
               ledger'[s][d] = ledger[s][d]
                  \/ (s = reason /\ d = c /\ ledger'[s][d] = ledger[s][d] + points)
<1>1. CASE UNCHANGED ledger
  BY <1>1
<1>2. CASE ledger' = [ledger EXCEPT ![reason] = [ledger[reason] EXCEPT ![c] =
                                                     ledger[reason][c] + points]]
  <2> DEFINE row == [ledger[reason] EXCEPT ![c] = ledger[reason][c] + points]
  <2>1. /\ ledger[reason] \in [Champs -> Nat]
        /\ row \in [Champs -> Nat]
        /\ \A d \in Champs : row[d] = IF d = c THEN ledger[reason][c] + points
                                       ELSE ledger[reason][d]
    BY DEF Ledger
  <2> HIDE DEF row
  <2>2. ledger' = [ledger EXCEPT ![reason] = row]
    BY <1>2 DEF row
  <2> QED BY <2>1, <2>2 DEF Ledger
<1> QED BY <1>1, <1>2 DEF Grant

\* Asks: nothing but the ask, its calls and the ledger's ask points change.
LEMMA ChampionsAsk == ASSUME ChampionsInv, AskNext PROVE ChampionsInv'
<1>0. /\ ask \in AskRow /\ confirmer \in [Askers -> ConfirmCall]
      /\ nightly \in Champs \cup {Nobody} /\ ledger \in Ledger
  BY DEF ChampionsInv, ChampionsTypeOK, AskRow, ConfirmCall, Ledger
<1>1. UNCHANGED <<bookVars, postVars>>
  BY DEF AskNext, CreateAsk, ClockRunsOut, AutoConfirm, GrantAuto, ReadAsk, ConfirmAsk,
         GrantAsk, ClaimAsk, ResolveAsk
<1>2. /\ ask' \in AskRow /\ confirmer' \in [Askers -> ConfirmCall]
      /\ nightly' \in Champs \cup {Nobody} /\ ledger' \in Ledger
      /\ AskBelongs' /\ AsksArePaid' /\ ledger'["office"] = ledger["office"]
  <2>1. CASE \/ CreateAsk \/ ClockRunsOut
             \/ \E c \in Champs : ClaimAsk(c) \/ ResolveAsk(c)
    <3>1. ask' \in AskRow
      BY <1>0, <2>1 DEF CreateAsk, ClockRunsOut, ClaimAsk, ResolveAsk, AskRow, AskStatus
    <3>2. UNCHANGED <<confirmer, nightly, ledger>>
      BY <2>1 DEF CreateAsk, ClockRunsOut, ClaimAsk, ResolveAsk
    <3>3. /\ ask.status \in {"resolved_pending", "resolved"} =>
                ask'.status = ask.status /\ ask'.by = ask.by
          /\ ask'.status \in {"claimed", "resolved_pending", "resolved"} => ask'.by \in Champs
      BY <1>0, <2>1 DEF CreateAsk, ClockRunsOut, ClaimAsk, ResolveAsk, AskRow,
                        ChampionsInv, AskBelongs
    <3> QED BY <1>0, <3>1, <3>2, <3>3 DEF ChampionsInv, AskBelongs, AsksArePaid
  <2>2. ASSUME NEW a \in Askers, ReadAsk(a)
        PROVE  /\ ask' \in AskRow /\ confirmer' \in [Askers -> ConfirmCall]
               /\ nightly' \in Champs \cup {Nobody} /\ ledger' \in Ledger
               /\ AskBelongs' /\ AsksArePaid' /\ ledger'["office"] = ledger["office"]
    BY <1>0, <2>2 DEF ReadAsk, AskRow, ConfirmCall, ChampionsInv, AskBelongs, AsksArePaid
  <2>3. ASSUME NEW a \in Askers, ConfirmAsk(a)
        PROVE  /\ ask' \in AskRow /\ confirmer' \in [Askers -> ConfirmCall]
               /\ nightly' \in Champs \cup {Nobody} /\ ledger' \in Ledger
               /\ AskBelongs' /\ AsksArePaid' /\ ledger'["office"] = ledger["office"]
    <3>1. [ask EXCEPT !.status = "resolved"] \in AskRow
          /\ [confirmer[a] EXCEPT !.pc = "owed"] \in ConfirmCall
      BY <1>0 DEF AskRow, AskStatus, ConfirmCall
    <3>2. /\ ask' \in AskRow /\ ask'.by = ask.by /\ ask'.status = "resolved"
          /\ confirmer' \in [Askers -> ConfirmCall]
          /\ \A b \in Askers : /\ confirmer'[b].to = confirmer[b].to
                               /\ confirmer'[b].pc = IF b = a THEN "owed" ELSE confirmer[b].pc
          /\ confirmer[a].pc = "read" /\ UNCHANGED <<nightly, ledger>>
      BY <1>0, <2>3, <3>1 DEF ConfirmAsk, AskRow, ConfirmCall
    <3> QED BY <1>0, <3>2 DEF ChampionsInv, AskBelongs, AsksArePaid
  <2>4. ASSUME NEW a \in Askers, GrantAsk(a)
        PROVE  /\ ask' \in AskRow /\ confirmer' \in [Askers -> ConfirmCall]
               /\ nightly' \in Champs \cup {Nobody} /\ ledger' \in Ledger
               /\ AskBelongs' /\ AsksArePaid' /\ ledger'["office"] = ledger["office"]
    <3>1. /\ ask.status = "resolved" /\ ask.by = confirmer[a].to
          /\ confirmer[a].to \in Champs
      BY <1>0, <2>4 DEF GrantAsk, ChampionsInv, AskBelongs
    <3>2. [confirmer[a] EXCEPT !.pc = "done"] \in ConfirmCall
      BY <1>0 DEF ConfirmCall
    <3>3. /\ confirmer' \in [Askers -> ConfirmCall]
          /\ \A b \in Askers : /\ confirmer'[b].to = confirmer[b].to
                               /\ confirmer'[b].pc = IF b = a THEN "done" ELSE confirmer[b].pc
          /\ UNCHANGED <<ask, nightly>>
      BY <1>0, <2>4, <3>2 DEF GrantAsk, ConfirmCall
    <3>4. /\ ledger' \in Ledger
          /\ \A s \in {"ask", "auto", "office"}, d \in Champs :
               ledger'[s][d] = ledger[s][d]
                  \/ (s = "ask" /\ d = confirmer[a].to /\ ledger'[s][d] = ledger[s][d] + AskPoints)
      BY <1>0, <2>4, <3>1, GrantAdds DEF GrantAsk, AskPoints
    <3>5. ledger'["office"] = ledger["office"]
      BY <1>0, <3>4 DEF Ledger
    <3> QED BY <1>0, <3>1, <3>3, <3>4, <3>5
            DEF ChampionsInv, AskBelongs, AsksArePaid, Ledger
  <2>5. CASE AutoConfirm
    BY <1>0, <2>5 DEF AutoConfirm, AskRow, AskStatus, ChampionsInv, AskBelongs, AsksArePaid
  <2>6. CASE GrantAuto
    <3>1. ask.status = "resolved" /\ ask.by = nightly /\ nightly \in Champs
      BY <1>0, <2>6 DEF GrantAuto, ChampionsInv, AskBelongs
    <3>2. /\ ledger' \in Ledger
          /\ \A s \in {"ask", "auto", "office"}, d \in Champs :
               ledger'[s][d] = ledger[s][d]
                  \/ (s = "auto" /\ d = nightly /\ ledger'[s][d] = ledger[s][d] + AskPoints)
      BY <1>0, <2>6, <3>1, GrantAdds DEF GrantAuto, AskPoints
    <3>3. ledger'["office"] = ledger["office"]
      BY <1>0, <3>2 DEF Ledger
    <3>4. UNCHANGED <<ask, confirmer>> /\ nightly' = Nobody
      BY <2>6 DEF GrantAuto
    <3> QED BY <1>0, <3>1, <3>2, <3>3, <3>4 DEF ChampionsInv, AskBelongs, AsksArePaid, Ledger
  <2> QED BY <2>1, <2>2, <2>3, <2>4, <2>5, <2>6 DEF AskNext
<1>3. OfficeOwes' /\ UpvotesBacked'
  BY <1>1, <1>2 DEF bookVars, postVars, ChampionsInv, OfficeOwes, UpvotesBacked
<1>4. ChampionsTypeOK'
  BY <1>1, <1>2 DEF bookVars, postVars, ChampionsInv, ChampionsTypeOK, AskRow, ConfirmCall, Ledger
<1> QED BY <1>2, <1>3, <1>4 DEF ChampionsInv

\* Office hours: a booking is done once, and its one grant uses up what it owes.
LEMMA ChampionsBook ==
  ASSUME ChampionsInv, NEW c \in Champs,
         \/ CreateBooking(c) \/ ConfirmBooking(c) \/ CancelBooking(c)
         \/ DoneBooking(c) \/ GrantOffice(c)
  PROVE  ChampionsInv'
<1>0. /\ booking \in [Champs -> {"absent", "requested", "confirmed", "done", "cancelled"}]
      /\ office \in [Champs -> 0..1] /\ ledger \in Ledger
  BY DEF ChampionsInv, ChampionsTypeOK, Ledger
<1>1. UNCHANGED <<askVars, postVars>>
  BY DEF CreateBooking, ConfirmBooking, CancelBooking, Book, DoneBooking, GrantOffice
<1>2. /\ booking' \in [Champs -> {"absent", "requested", "confirmed", "done", "cancelled"}]
      /\ office' \in [Champs -> 0..1] /\ ledger' \in Ledger
      /\ OfficeOwes'
      /\ ledger'["ask"] = ledger["ask"] /\ ledger'["auto"] = ledger["auto"]
  <2>1. CASE CreateBooking(c) \/ ConfirmBooking(c) \/ CancelBooking(c)
    BY <1>0, <2>1 DEF CreateBooking, ConfirmBooking, CancelBooking, Book, ChampionsInv, OfficeOwes
  <2>2. CASE DoneBooking(c)
    <3>1. booking[c] = "confirmed" /\ office[c] = 0 /\ ledger["office"][c] = 0
      BY <2>2 DEF DoneBooking, ChampionsInv, OfficeOwes
    <3>2. office' = [office EXCEPT ![c] = 1] /\ ledger' = ledger
          /\ booking' = [booking EXCEPT ![c] = "done"]
      BY <2>2, <3>1 DEF DoneBooking
    <3> QED BY <1>0, <3>1, <3>2 DEF ChampionsInv, OfficeOwes, OfficePoints
  <2>3. CASE GrantOffice(c)
    <3>1. office[c] = 1 /\ ledger["office"][c] = 0 /\ booking[c] = "done"
      BY <1>0, <2>3 DEF GrantOffice, ChampionsInv, OfficeOwes
    <3>2. office' = [office EXCEPT ![c] = 0] /\ booking' = booking
      BY <2>3, <3>1 DEF GrantOffice
    <3>3. /\ ledger' \in Ledger
          /\ \A s \in {"ask", "auto", "office"}, d \in Champs :
               ledger'[s][d] = ledger[s][d]
                  \/ (s = "office" /\ d = c /\ ledger'[s][d] = ledger[s][d] + OfficePoints)
      BY <1>0, <2>3, GrantAdds DEF GrantOffice, OfficePoints
    <3>4. ledger'["ask"] = ledger["ask"] /\ ledger'["auto"] = ledger["auto"]
      BY <1>0, <3>3 DEF Ledger
    <3> QED BY <1>0, <3>1, <3>2, <3>3, <3>4 DEF ChampionsInv, OfficeOwes, OfficePoints, Ledger
  <2> QED BY <2>1, <2>2, <2>3
<1>3. AskBelongs' /\ AsksArePaid' /\ UpvotesBacked'
  BY <1>1, <1>2 DEF askVars, postVars, ChampionsInv, AskBelongs, AsksArePaid, UpvotesBacked
<1>4. ChampionsTypeOK'
  BY <1>1, <1>2 DEF askVars, postVars, ChampionsInv, ChampionsTypeOK, Ledger
<1> QED BY <1>2, <1>3, <1>4 DEF ChampionsInv

\* Contributions: the counter grows only with the set of upvoters, and shrinks
\* whenever the set does.
LEMMA ChampionsPost == ASSUME ChampionsInv, PostNext PROVE ChampionsInv'
<1>0. /\ upvoters \in SUBSET Developers /\ toggle \in [Toggles -> UpvoteCall]
      /\ post \in [upvotes : Nat, flags : {"none", "some", "removed"}]
      /\ IsFiniteSet(upvoters) /\ Cardinality(upvoters) \in Nat
  <2>1. upvoters \in SUBSET Developers
    BY DEF ChampionsInv, ChampionsTypeOK
  <2> QED BY <2>1, FS_Subset, FS_CardinalityType DEF ChampionsInv, ChampionsTypeOK, UpvoteCall
<1>1. UNCHANGED <<askVars, bookVars, ledger>>
  BY DEF PostNext, FlagContent, ReadUpvote, UpvoteOn, UpvoteOff
<1>2. /\ upvoters' \in SUBSET Developers /\ toggle' \in [Toggles -> UpvoteCall]
      /\ post' \in [upvotes : Nat, flags : {"none", "some", "removed"}]
      /\ UpvotesBacked'
  <2>1. CASE FlagContent
    BY <1>0, <2>1 DEF FlagContent, ChampionsInv, UpvotesBacked
  <2>2. ASSUME NEW t \in Toggles, NEW pc \in {"on", "off", "done"},
               toggle' = [toggle EXCEPT ![t].pc = pc]
        PROVE  toggle' \in [Toggles -> UpvoteCall]
    <3>1. [toggle[t] EXCEPT !.pc = pc] \in UpvoteCall
      BY <1>0 DEF UpvoteCall
    <3> QED BY <1>0, <2>2, <3>1
  <2>3. ASSUME NEW t \in Toggles, ReadUpvote(t)
        PROVE  /\ upvoters' \in SUBSET Developers /\ toggle' \in [Toggles -> UpvoteCall]
               /\ post' \in [upvotes : Nat, flags : {"none", "some", "removed"}]
               /\ UpvotesBacked'
    BY <1>0, <2>2, <2>3 DEF ReadUpvote, ChampionsInv, UpvotesBacked
  <2>4. ASSUME NEW t \in Toggles, UpvoteOn(t)
        PROVE  /\ upvoters' \in SUBSET Developers /\ toggle' \in [Toggles -> UpvoteCall]
               /\ post' \in [upvotes : Nat, flags : {"none", "some", "removed"}]
               /\ UpvotesBacked'
    <3>1. toggle[t].by \in Developers /\ upvoters' = upvoters \cup {toggle[t].by}
      BY <1>0, <2>4 DEF UpvoteOn, UpvoteCall
    <3>2. Cardinality(upvoters') = IF toggle[t].by \in upvoters
                                   THEN Cardinality(upvoters) ELSE Cardinality(upvoters) + 1
      BY <1>0, <3>1, FS_AddElement
    <3>3. /\ post' \in [upvotes : Nat, flags : {"none", "some", "removed"}]
          /\ post'.upvotes = IF toggle[t].by \in upvoters THEN post.upvotes
                             ELSE post.upvotes + 1
      BY <1>0, <2>4 DEF UpvoteOn
    <3>4. toggle' \in [Toggles -> UpvoteCall]
      BY <2>2, <2>4 DEF UpvoteOn
    <3> QED BY <1>0, <3>1, <3>2, <3>3, <3>4 DEF ChampionsInv, UpvotesBacked
  <2>5. ASSUME NEW t \in Toggles, UpvoteOff(t)
        PROVE  /\ upvoters' \in SUBSET Developers /\ toggle' \in [Toggles -> UpvoteCall]
               /\ post' \in [upvotes : Nat, flags : {"none", "some", "removed"}]
               /\ UpvotesBacked'
    <3>1. upvoters' = upvoters \ {toggle[t].by}
      BY <2>5 DEF UpvoteOff
    <3>2. /\ Cardinality(upvoters') = IF toggle[t].by \in upvoters
                                   THEN Cardinality(upvoters) - 1 ELSE Cardinality(upvoters)
          /\ Cardinality(upvoters') \in Nat
      BY <1>0, <3>1, FS_RemoveElement, FS_CardinalityType
    <3>3. /\ post' \in [upvotes : Nat, flags : {"none", "some", "removed"}]
          /\ post'.upvotes = IF post.upvotes > 0 THEN post.upvotes - 1 ELSE 0
      BY <1>0, <2>5 DEF UpvoteOff
    <3>4. toggle' \in [Toggles -> UpvoteCall]
      BY <2>2, <2>5 DEF UpvoteOff
    <3> QED BY <1>0, <3>1, <3>2, <3>3, <3>4 DEF ChampionsInv, UpvotesBacked
  <2> QED BY <2>1, <2>3, <2>4, <2>5 DEF PostNext
<1>3. AskBelongs' /\ AsksArePaid' /\ OfficeOwes'
  BY <1>1 DEF askVars, bookVars, ChampionsInv, AskBelongs, AsksArePaid, OfficeOwes
<1>4. ChampionsTypeOK'
  BY <1>1, <1>2 DEF askVars, bookVars, ChampionsInv, ChampionsTypeOK, UpvoteCall
<1> QED BY <1>2, <1>3, <1>4 DEF ChampionsInv

\* The asks, bookings, posts and the ledger hold only what the code puts there;
\* for any number of champions, calls and developers, points go to the champion
\* whose claim stands, a booking is paid once, and a post counts no upvote that
\* no developer gave (claim_ask, confirm_ask, run_auto_confirm, done_booking,
\* upvote_content).
THEOREM ChampionsAreSound == ChampionsSpec => [](ChampionsTypeOK /\ ChampionsSound)
<1>1. ChampionsInv /\ [ChampionsNext]_championVars => ChampionsInv'
  <2> SUFFICES ASSUME ChampionsInv, [ChampionsNext]_championVars PROVE ChampionsInv'
    OBVIOUS
  <2>1. CASE UNCHANGED championVars
    BY <2>1 DEF championVars, ChampionsInv, ChampionsTypeOK, AskBelongs, AsksArePaid,
                OfficeOwes, UpvotesBacked
  <2>2. CASE ChampionsNext
    BY <2>2, ChampionsAsk, ChampionsBook, ChampionsPost DEF ChampionsNext, BookingNext
  <2> QED BY <2>1, <2>2
<1>2. ChampionsInv => ChampionsTypeOK /\ ChampionsSound
  BY DEF ChampionsInv, ChampionsSound, PaidForOwnWork, AsksArePaid, OfficeOwes
<1> QED BY ChampionsStart, <1>1, <1>2, PTL DEF ChampionsSpec

HIDE ChampionsAssumption

---------------------------------------------------------------------------
(* The librarian.  An insert under way owns a document nobody else writes, *)
(* and its vector is stored first; a delete under way owns a document      *)
(* whose row is already gone.                                              *)

USE LibrarianAssumption

Inserting(w) == writer[w].pc \in {"keyed", "bare"}

WriterStates ==
    [pc : {"idle", "ask", "embed", "keyed", "bare", "mark", "done"},
     topic : Topics \cup {NoTopic}, doc : Docs \cup {NoDoc}]

\* An insert under way has a document of its own, with its vector if keyed.
InsertsOwn ==
    \A w \in Writers : Inserting(w) =>
        /\ writer[w].doc \in Docs
        /\ items[writer[w].doc].state = "taken"
        /\ writer[w].pc = "keyed" => vectors[writer[w].doc] \in {"stored", "lost"}
        /\ \A v \in Writers \ {w} : Inserting(v) => writer[v].doc # writer[w].doc

\* A delete under way removes the vector of a row that is gone.
ErasesDeleted ==
    \A x \in Erasers : eraser[x] # NoDoc => items[eraser[x]].state = "deleted"

LibraryInv ==
    /\ LibrarianTypeOK
    /\ InsertsOwn
    /\ ErasesDeleted
    /\ KeyedItemHasVector

---------------------------------------------------------------------------
\* The librarian starts without documents and writers.
LEMMA LibraryInit == LibrarianInit => LibraryInv
BY DEF LibrarianInit, LibraryInv, LibrarianTypeOK, InsertsOwn, ErasesDeleted,
       KeyedItemHasVector, Inserting, NoItem, IdleWriter

\* A writer that gives up or is done inserts nothing, and is well typed.
LEMMA EndedTyped ==
  ASSUME LibrarianTypeOK, NEW w \in Writers
  PROVE  /\ Ended(w) \in WriterStates
         /\ Ended(w).pc \in {"idle", "done"}
BY DEF LibrarianTypeOK, WriterStates, Ended, IdleWriter

(***************************************************************************)
(* Steps that leave documents, vectors and deletions alone, and in which   *)
(* whoever inserts did so before.                                          *)
(***************************************************************************)
LEMMA LibraryAside ==
  ASSUME LibraryInv, LibrarianTypeOK', UNCHANGED <<items, vectors, eraser>>,
         \A w \in Writers : writer'[w].pc \in {"keyed", "bare"} => writer'[w] = writer[w]
  PROVE  LibraryInv'
BY DEF LibraryInv, InsertsOwn, ErasesDeleted, KeyedItemHasVector, Inserting

\* One writer moves on and is not inserting now; topics may change with it.
LEMMA WriterMoves ==
  ASSUME LibraryInv, NEW w \in Writers, NEW s \in WriterStates,
         s.pc \notin {"keyed", "bare"}, writer' = [writer EXCEPT ![w] = s],
         topics' \in [Topics -> {"absent", "stale", "fresh"}],
         pending' \in SUBSET Topics, UNCHANGED <<items, vectors, eraser, reader>>
  PROVE  LibraryInv'
<1>1. LibrarianTypeOK'
  BY DEF LibraryInv, LibrarianTypeOK, WriterStates
<1>2. \A v \in Writers : writer'[v] = IF v = w THEN s ELSE writer[v]
  BY DEF LibraryInv, LibrarianTypeOK
<1> QED BY <1>1, <1>2, LibraryAside

\* Topics, the loop, the model's answers, searches: none touches a document.
LEMMA LibraryResearch ==
  ASSUME LibraryInv,
         \/ Poll \/ NextTopic
         \/ \E t \in Topics : GoStale(t) \/ CreateTopic(t) \/ DeleteTopic(t)
         \/ \E w \in Writers : Ingest(w) \/ Trigger(w) \/ AskModel(w)
                                 \/ StoreFails(w) \/ MarkResearched(w)
         \/ \E r \in Readers : FetchRows(r) \/ ScoreRows(r)
  PROVE  LibraryInv'
<1>0. /\ LibrarianTypeOK
      /\ writer \in [Writers -> WriterStates]
      /\ Loop \in Writers
  BY DEF LibraryInv, LibrarianTypeOK, WriterStates, Writers
<1>1. ASSUME Poll \/ \E t \in Topics : GoStale(t) \/ CreateTopic(t) \/ DeleteTopic(t)
      PROVE  LibraryInv'
  <2>1. UNCHANGED <<items, vectors, writer, eraser, reader>>
    BY <1>1 DEF Poll, GoStale, CreateTopic, DeleteTopic
  <2>2. pending' \in SUBSET Topics
    BY <1>0, <1>1 DEF Poll, GoStale, CreateTopic, DeleteTopic, LibrarianTypeOK
  <2>3. topics' \in [Topics -> {"absent", "stale", "fresh"}]
    BY <1>0, <1>1, SMTT(30) DEF Poll, GoStale, CreateTopic, DeleteTopic, LibrarianTypeOK
  <2>4. LibrarianTypeOK'
    BY <1>0, <2>1, <2>2, <2>3 DEF LibrarianTypeOK
  <2> QED BY <2>1, <2>4, LibraryAside
<1>2. CASE NextTopic
  <2>1. PICK t \in pending :
          /\ pending' = pending \ {t}
          /\ writer' = [writer EXCEPT ![Loop] = [IdleWriter EXCEPT !.pc = "ask",
                                                                  !.topic = t]]
    BY <1>2 DEF NextTopic
  <2>2. /\ [IdleWriter EXCEPT !.pc = "ask", !.topic = t] \in WriterStates
        /\ [IdleWriter EXCEPT !.pc = "ask", !.topic = t].pc = "ask"
    BY <1>0 DEF IdleWriter, WriterStates, LibrarianTypeOK
  <2> QED BY <1>0, <1>2, <2>1, <2>2, WriterMoves DEF NextTopic, LibrarianTypeOK
<1>3. ASSUME NEW w \in Writers, Ingest(w) \/ Trigger(w) PROVE LibraryInv'
  <2>1. PICK p \in {"embed", "ask"}, t \in Topics \cup {NoTopic} :
          writer' = [writer EXCEPT ![w] = [writer[w] EXCEPT !.pc = p, !.topic = t]]
    BY <1>0, <1>3 DEF Ingest, Trigger
  <2>2. /\ [writer[w] EXCEPT !.pc = p, !.topic = t] \in WriterStates
        /\ [writer[w] EXCEPT !.pc = p, !.topic = t].pc = p
    BY <1>0 DEF WriterStates
  <2> QED BY <1>0, <1>3, <2>1, <2>2, WriterMoves DEF Ingest, Trigger, LibrarianTypeOK
<1>4. ASSUME NEW w \in Writers, AskModel(w) PROVE LibraryInv'
  <2>1. /\ [writer[w] EXCEPT !.pc = "embed"] \in WriterStates
        /\ [writer[w] EXCEPT !.pc = "embed"].pc = "embed"
    BY <1>0 DEF WriterStates
  <2>2. \/ writer' = [writer EXCEPT ![w] = [writer[w] EXCEPT !.pc = "embed"]]
        \/ writer' = [writer EXCEPT ![w] = Ended(w)]
    BY <1>0, <1>4 DEF AskModel
  <2> QED BY <1>0, <1>4, <2>1, <2>2, EndedTyped, WriterMoves
          DEF AskModel, LibrarianTypeOK
<1>5. ASSUME NEW w \in Writers, StoreFails(w) PROVE LibraryInv'
  BY <1>0, <1>5, EndedTyped, WriterMoves DEF StoreFails, LibrarianTypeOK
<1>6. ASSUME NEW w \in Writers, MarkResearched(w) PROVE LibraryInv'
  <2>1. topics' \in [Topics -> {"absent", "stale", "fresh"}]
    BY <1>0, <1>6 DEF MarkResearched, LibrarianTypeOK
  <2> QED BY <1>0, <1>6, <2>1, EndedTyped, WriterMoves
          DEF MarkResearched, LibrarianTypeOK
<1>7. ASSUME NEW r \in Readers, FetchRows(r) \/ ScoreRows(r) PROVE LibraryInv'
  <2>1. UNCHANGED <<items, vectors, topics, pending, writer, eraser>>
    BY <1>7 DEF FetchRows, ScoreRows
  <2>2. CASE FetchRows(r)
    <3>1. PICK found \in SUBSET Docs :
            reader' = [reader EXCEPT ![r] =
                          [pc |-> IF found = {} THEN "done" ELSE "rows",
                           rows |-> found, hits |-> {}]]
      BY <2>2 DEF FetchRows, Rows
    <3>2. LibrarianTypeOK'
      BY <1>0, <2>1, <3>1 DEF LibrarianTypeOK
    <3> QED BY <2>1, <3>2, LibraryAside
  <2>3. CASE ScoreRows(r)
    <3>1. {d \in reader[r].rows : vectors[d] = "stored"} \in SUBSET Docs
      BY <1>0 DEF LibrarianTypeOK
    <3>2. LibrarianTypeOK'
      BY <1>0, <2>1, <2>3, <3>1 DEF ScoreRows, LibrarianTypeOK
    <3> QED BY <2>1, <3>2, LibraryAside
  <2> QED BY <1>7, <2>2, <2>3
<1> QED BY <1>1, <1>2, <1>3, <1>4, <1>5, <1>6, <1>7

\* A restart: whoever was inserting has given up, and no deletion goes on.
LEMMA LibraryRestart == LibraryInv /\ LibrarianRestarts => LibraryInv'
<1> SUFFICES ASSUME LibraryInv, LibrarianRestarts PROVE LibraryInv'
  OBVIOUS
<1>1. \A w \in Writers : writer'[w].pc \in {"idle", "done"}
  BY EndedTyped DEF LibrarianRestarts, LibraryInv
<1>2. writer' \in [Writers -> WriterStates]
  BY EndedTyped DEF LibrarianRestarts, LibraryInv, LibrarianTypeOK, WriterStates
<1>3. LibrarianTypeOK'
  BY <1>2 DEF LibrarianRestarts, LibraryInv, LibrarianTypeOK, WriterStates
<1> QED BY <1>1, <1>3
        DEF LibrarianRestarts, LibraryInv, InsertsOwn, ErasesDeleted,
            KeyedItemHasVector, Inserting

\* The two writes of an ingest: the id is fresh, so nobody else's; the row
\* names the vector only if it was stored.
LEMMA LibraryIngest ==
  ASSUME LibraryInv, NEW w \in Writers, StoreVector(w) \/ InsertRow(w)
  PROVE  LibraryInv'
<1>1. CASE StoreVector(w)
  <2>1. PICK d \in Docs :
          /\ items[d].state = "none"
          /\ items' = [items EXCEPT ![d].state = "taken"]
          /\ \/ /\ vectors' = [vectors EXCEPT ![d] = "stored"]
                /\ writer' = [writer EXCEPT ![w].pc = "keyed", ![w].doc = d]
             \/ /\ UNCHANGED vectors
                /\ writer' = [writer EXCEPT ![w].pc = "bare", ![w].doc = d]
    BY <1>1 DEF StoreVector
  <2>2. UNCHANGED <<topics, pending, eraser, reader>>
    BY <1>1 DEF StoreVector
  <2>3. LibrarianTypeOK'
    <3>1. items' \in [Docs -> [state : {"none", "taken", "keyed", "bare", "deleted"},
                               topic : Topics \cup {NoTopic}]]
      <4>1. items' = [items EXCEPT ![d].state = "taken"]
        BY <2>1
      <4> QED BY <4>1 DEF LibraryInv, LibrarianTypeOK
    <3>2. writer' \in [Writers -> WriterStates]
      <4>1. writer \in [Writers -> WriterStates]
        BY DEF LibraryInv, LibrarianTypeOK, WriterStates
      <4>2. \A p \in {"keyed", "bare"} :
              [writer[w] EXCEPT !.pc = p, !.doc = d] \in WriterStates
        BY <4>1 DEF WriterStates
      <4>3. \E p \in {"keyed", "bare"} :
              writer' = [writer EXCEPT ![w] = [writer[w] EXCEPT !.pc = p, !.doc = d]]
        BY <2>1, <4>1
      <4> QED BY <4>1, <4>2, <4>3
    <3>3. vectors' \in [Docs -> {"none", "stored", "lost"}]
      BY <2>1 DEF LibraryInv, LibrarianTypeOK
    <3> QED BY <2>2, <3>1, <3>2, <3>3 DEF LibraryInv, LibrarianTypeOK, WriterStates
  <2>4. \A v \in Writers : Inserting(v) => writer[v].doc # d
    BY <2>1 DEF LibraryInv, InsertsOwn
  <2>5. /\ \A v \in Writers \ {w} : writer'[v] = writer[v]
        /\ writer'[w].doc = d /\ writer'[w].pc \in {"keyed", "bare"}
        /\ writer'[w].pc = "keyed" => vectors'[d] = "stored"
        /\ \A e \in Docs \ {d} : vectors'[e] = vectors[e]
        /\ items'[d].state = "taken"
        /\ \A e \in Docs \ {d} : items'[e] = items[e]
    BY <2>1 DEF LibraryInv, LibrarianTypeOK
  <2>6. InsertsOwn'
    BY <2>4, <2>5 DEF LibraryInv, InsertsOwn, Inserting
  <2>7. ErasesDeleted'
    BY <2>1, <2>2, <2>5 DEF LibraryInv, LibrarianTypeOK, ErasesDeleted
  <2>8. KeyedItemHasVector'
    BY <2>5 DEF LibraryInv, KeyedItemHasVector
  <2> QED BY <2>3, <2>6, <2>7, <2>8 DEF LibraryInv
<1>2. CASE InsertRow(w)
  <2> DEFINE d == writer[w].doc
  <2>1. /\ Inserting(w) /\ d \in Docs /\ items[d].state = "taken"
        /\ writer[w].pc = "keyed" => vectors[d] \in {"stored", "lost"}
        /\ \A v \in Writers \ {w} : Inserting(v) => writer[v].doc # d
    BY <1>2 DEF InsertRow, LibraryInv, InsertsOwn, Inserting
  <2>2. UNCHANGED <<vectors, topics, pending, eraser, reader>>
    BY <1>2 DEF InsertRow
  <2>3. /\ \A v \in Writers \ {w} : writer'[v] = writer[v]
        /\ writer'[w].pc \in {"idle", "done", "mark"}
        /\ items'[d].state = writer[w].pc
        /\ \A e \in Docs \ {d} : items'[e] = items[e]
    BY <1>2, <2>1, EndedTyped DEF InsertRow, LibraryInv, LibrarianTypeOK
  <2>4. LibrarianTypeOK'
    <3>1. items' \in [Docs -> [state : {"none", "taken", "keyed", "bare", "deleted"},
                               topic : Topics \cup {NoTopic}]]
      BY <1>2, <2>1 DEF InsertRow, Inserting, LibraryInv, LibrarianTypeOK
    <3>2. writer' \in [Writers -> WriterStates]
      <4>1. writer \in [Writers -> WriterStates]
        BY DEF LibraryInv, LibrarianTypeOK, WriterStates
      <4>2. [writer[w] EXCEPT !.pc = "mark"] \in WriterStates
        BY <4>1 DEF WriterStates
      <4> QED BY <1>2, <4>1, <4>2, EndedTyped DEF InsertRow, LibraryInv
    <3> QED BY <2>2, <3>1, <3>2 DEF LibraryInv, LibrarianTypeOK, WriterStates
  <2>5. InsertsOwn'
    BY <2>1, <2>2, <2>3 DEF LibraryInv, InsertsOwn, Inserting
  <2>6. ErasesDeleted'
    BY <2>1, <2>2, <2>3 DEF LibraryInv, LibrarianTypeOK, ErasesDeleted
  <2>7. KeyedItemHasVector'
    BY <2>1, <2>2, <2>3 DEF LibraryInv, KeyedItemHasVector
  <2> QED BY <2>4, <2>5, <2>6, <2>7 DEF LibraryInv
<1> QED BY <1>1, <1>2

\* The two deletes: the row goes first, so its vector is nobody's when it goes.
LEMMA LibraryErase ==
  ASSUME LibraryInv, NEW x \in Erasers, DeleteRow(x) \/ DeleteVector(x)
  PROVE  LibraryInv'
<1>1. CASE DeleteRow(x)
  <2>1. PICK d \in Rows :
          /\ items' = [items EXCEPT ![d].state = "deleted"]
          /\ eraser' = [eraser EXCEPT ![x] =
                            IF items[d].state = "keyed" THEN d ELSE NoDoc]
    BY <1>1 DEF DeleteRow
  <2>2. /\ d \in Docs /\ items[d].state # "taken"
        /\ UNCHANGED <<vectors, topics, pending, writer, reader>>
    BY <1>1 DEF DeleteRow, Rows
  <2>3. LibrarianTypeOK'
    BY <2>1, <2>2 DEF LibraryInv, LibrarianTypeOK
  <2>4. /\ items'[d].state = "deleted"
        /\ \A e \in Docs \ {d} : items'[e] = items[e]
        /\ \A y \in Erasers : eraser'[y] \in {eraser[y], d, NoDoc}
    BY <2>1, <2>2 DEF LibraryInv, LibrarianTypeOK
  <2>5. InsertsOwn'
    BY <2>2, <2>4 DEF LibraryInv, InsertsOwn, Inserting
  <2>6. ErasesDeleted'
    BY <2>2, <2>4 DEF LibraryInv, LibrarianTypeOK, ErasesDeleted
  <2>7. KeyedItemHasVector'
    BY <2>2, <2>4 DEF LibraryInv, KeyedItemHasVector
  <2> QED BY <2>3, <2>5, <2>6, <2>7 DEF LibraryInv
<1>2. CASE DeleteVector(x)
  <2>1. /\ items[eraser[x]].state = "deleted"
        /\ vectors' = [vectors EXCEPT ![eraser[x]] = "none"]
        /\ UNCHANGED <<items, topics, pending, writer, reader>>
    BY <1>2 DEF DeleteVector, LibraryInv, ErasesDeleted
  <2>2. LibrarianTypeOK'
    BY <1>2 DEF DeleteVector, LibraryInv, LibrarianTypeOK
  <2>3. InsertsOwn'
    BY <2>1 DEF LibraryInv, InsertsOwn, Inserting
  <2>4. ErasesDeleted'
    BY <1>2 DEF DeleteVector, LibraryInv, LibrarianTypeOK, ErasesDeleted
  <2>5. KeyedItemHasVector'
    BY <2>1 DEF LibraryInv, KeyedItemHasVector
  <2> QED BY <2>2, <2>3, <2>4, <2>5 DEF LibraryInv
<1> QED BY <1>1, <1>2

\* Redis loses a vector that was stored: the rows that name it named a stored one.
LEMMA LibraryLoss ==
  ASSUME LibraryInv, NEW d \in Docs, LoseVector(d)
  PROVE  LibraryInv'
<1>1. /\ vectors' = [vectors EXCEPT ![d] = "lost"] /\ vectors[d] = "stored"
      /\ UNCHANGED <<items, topics, pending, writer, eraser, reader>>
  BY DEF LoseVector
<1>2. LibrarianTypeOK'
  BY <1>1 DEF LibraryInv, LibrarianTypeOK
<1>3. \A e \in Docs : vectors[e] \in {"stored", "lost"} => vectors'[e] \in {"stored", "lost"}
  BY <1>1 DEF LibraryInv, LibrarianTypeOK
<1> QED BY <1>1, <1>2, <1>3
        DEF LibraryInv, InsertsOwn, ErasesDeleted, KeyedItemHasVector, Inserting

---------------------------------------------------------------------------
\* The tables, Redis and the calls hold only what the code puts there, and
\* a row names an embedding that was stored and that no call has deleted,
\* whatever fails or restarts between the two writes and the two deletes; it
\* is missing only if Redis lost it.
THEOREM NamedVectorsExist == LibrarianSpec => [](LibrarianTypeOK /\ KeyedItemHasVector)
<1>1. LibraryInv /\ [LibrarianNext]_libraryVars => LibraryInv'
  <2> SUFFICES ASSUME LibraryInv, [LibrarianNext]_libraryVars PROVE LibraryInv'
    OBVIOUS
  <2>1. CASE UNCHANGED libraryVars
    BY <2>1 DEF libraryVars, LibraryInv, LibrarianTypeOK, InsertsOwn, ErasesDeleted,
                KeyedItemHasVector, Inserting
  <2>2. CASE LibrarianNext
    BY <2>2, LibraryResearch, LibraryRestart, LibraryIngest, LibraryErase, LibraryLoss
       DEF LibrarianNext
  <2> QED BY <2>1, <2>2
<1>2. LibraryInv => LibrarianTypeOK /\ KeyedItemHasVector
  BY DEF LibraryInv
<1> QED BY LibraryInit, <1>1, <1>2, PTL DEF LibrarianSpec

HIDE LibrarianAssumption

---------------------------------------------------------------------------
(* Session events.  A session and its quality row are written in one       *)
(* transaction, so a row has the score of the counters beside it.          *)

USE EventIngestAssumption

Published == [trace : Traces, outcome : Outcomes, at : 0..MaxTicks]
HandlingStages == {"idle", "taken", "recorded", "counted", "read", "aggregated"}
Handling == [pc : HandlingStages, event : Events, row : SessionRow \cup {NoTrace}]

\* The two formulas part only for a row with no timing and several turns.
Scored(s) == /\ s.timing = NoTiming => s.turns = 1
             /\ s.quality = CleanupScore(s)
RowsAreScored == \A t \in Traces : sessions[t] # NoTrace => Scored(sessions[t])
\* What is queued or handled was published, and a row read is still there.
HandledWerePublished ==
    /\ \A q \in Consumers \cup {Broker} :
          \A i \in 1..Len(queue[q]) : event[queue[q][i]] \in Published
    /\ \A r \in Consumers : handling[r].pc # "idle" =>
          /\ event[handling[r].event] \in Published
          /\ handling[r].row # NoTrace =>
                sessions[event[handling[r].event].trace] # NoTrace

EventInv == EventIngestTypeOK /\ RowsAreScored /\ HandledWerePublished

\* The row that is not there is none of the rows.
LEMMA NoTraceIsNoRow == NoTrace \notin SessionRow
BY DEF NoTrace, SessionRow

\* The event that is not there was not published.
LEMMA NoEventIsUnpublished == NoEvent \notin Published
<1> SUFFICES ASSUME NoEvent \in Published PROVE FALSE
  OBVIOUS
<1>1. DOMAIN NoEvent = {"trace", "outcome", "at"}
  BY DEF Published
<1>2. DOMAIN NoEvent = {"trace"}
  BY DEF NoEvent
<1> QED BY <1>1, <1>2

\* A rate counts -1, 0 or 1, and a score lies between 1 and 5.
LEMMA ScoresAreBounded ==
  ASSUME NEW x \in Int
  PROVE  Bounded(x) \in 1..5
BY DEF Bounded

\* A rate contributes a whole number to the score.
LEMMA RatesAreInt ==
  ASSUME NEW c \in Nat, NEW n \in Nat
  PROVE  RateScore(c, n) \in Int
BY DEF RateScore

\* The handler and the cleanup statement give a row the same score.
LEMMA FormulasAgree ==
  ASSUME NEW s, s.turns \in Nat \ {0}, s.retries \in Nat, s.errors \in Nat,
         s.timing \in Nat \cup {NoTiming}, s.timing = NoTiming => s.turns = 1
  PROVE  /\ HandlerScore(s.turns, s.retries, s.errors, s.timing) = CleanupScore(s)
         /\ CleanupScore(s) \in 1..5
<1> DEFINE total == AtLeastOne(s.turns)
           gap == IF s.timing = NoTiming THEN 0 ELSE s.timing
           short == IF s.turns > 20 \/ s.turns = 1 THEN -1 ELSE 0
           pace == IF gap > 120 THEN 1 ELSE IF gap < 10 /\ s.turns > 3 THEN -1 ELSE 0
           rates == RateScore(s.retries, total) + RateScore(s.errors, total)
<1>1. total \in Nat
  BY DEF AtLeastOne
<1>2. RateScore(s.retries, total) \in Int /\ RateScore(s.errors, total) \in Int
  BY <1>1, RatesAreInt
<1>3. short \in Int /\ pace \in Int
  OBVIOUS
<1>4. short = (IF s.turns \in 3..10 THEN 0
               ELSE IF s.turns > 20 \/ s.turns = 1 THEN -1 ELSE 0)
  OBVIOUS
<1>5. pace = (IF s.timing = NoTiming THEN 0
              ELSE IF s.timing > 120 THEN 1
              ELSE IF s.timing < 10 /\ s.turns > 3 THEN -1 ELSE 0)
  BY DEF NoTiming
<1>6. CleanupScore(s) = Bounded(3 + RateScore(s.retries, total)
                                  + RateScore(s.errors, total) + short + pace)
  BY DEF CleanupScore
<1>7. HandlerScore(s.turns, s.retries, s.errors, s.timing)
        = Bounded(3 + RateScore(s.retries, total)
                    + RateScore(s.errors, total) + short + pace)
  BY <1>4, <1>5 DEF HandlerScore
<1>8. 3 + RateScore(s.retries, total) + RateScore(s.errors, total) + short + pace \in Int
  <2> HIDE DEF short, pace, total
  <2> QED BY <1>2, <1>3
<1>9. CleanupScore(s) \in 1..5
  <2> HIDE DEF short, pace, total
  <2> QED BY <1>6, <1>8, ScoresAreBounded
<1> QED BY <1>6, <1>7, <1>9

\* The row of a session's first event.
LEMMA OpenedIsScored ==
  ASSUME NEW m \in Published
  PROVE  Opened(m) \in SessionRow /\ Scored(Opened(m))
<1> DEFINE s == Opened(m)
<1>1. m.outcome.retries \in Nat /\ m.outcome.failed \in BOOLEAN /\ m.at \in 0..MaxTicks
  BY DEF Published
<1>2. /\ s.turns = 1 /\ s.retries = m.outcome.retries /\ s.timing = NoTiming
      /\ s.errors = (IF m.outcome.failed THEN 1 ELSE 0)
      /\ s.quality = HandlerScore(s.turns, s.retries, s.errors, s.timing)
  BY DEF Opened
<1>3. s.quality = CleanupScore(s) /\ s.quality \in 1..5
  <2> HIDE DEF s
  <2> QED BY <1>1, <1>2, FormulasAgree
<1>4. s \in SessionRow
  <2>1. s = [turns |-> s.turns, retries |-> s.retries, errors |-> s.errors, tokens |-> 1,
             first |-> m.at, last |-> m.at, timing |-> NoTiming, quality |-> s.quality,
             commit |-> "null"]
    BY DEF Opened
  <2> HIDE DEF s
  <2> QED BY <1>1, <1>2, <1>3, <2>1 DEF SessionRow
<1> QED BY <1>2, <1>3, <1>4 DEF Scored

\* A row that a later event extends.
LEMMA ExtendedIsScored ==
  ASSUME NEW m \in Published, NEW read \in SessionRow, NEW now \in SessionRow
  PROVE  Extended(m, read, now) \in SessionRow /\ Scored(Extended(m, read, now))
<1> DEFINE s == Extended(m, read, now)
           turns == read.turns + 1
           retries == read.retries + m.outcome.retries
           errors == read.errors + (IF m.outcome.failed THEN 1 ELSE 0)
           elapsed == (m.at - read.first) * TickSeconds
           timing == IF elapsed < 0 THEN 0 ELSE elapsed \div AtLeastOne(turns - 1)
           quality == HandlerScore(turns, retries, errors, timing)
           tokens == now.tokens + 1
<1>1. m.outcome.retries \in Nat /\ m.outcome.failed \in BOOLEAN /\ m.at \in 0..MaxTicks
  BY DEF Published
<1>2. read.turns \in Nat \ {0} /\ read.retries \in Nat /\ read.errors \in Nat
      /\ read.first \in 0..MaxTicks /\ now.tokens \in Nat
  BY DEF SessionRow
<1>3. turns \in Nat \ {0} /\ retries \in Nat /\ errors \in Nat /\ tokens \in Nat
  BY <1>1, <1>2
<1>4. timing \in Nat
  <2>1. elapsed \in Int
    BY <1>1, <1>2
  <2>2. AtLeastOne(turns - 1) \in Nat \ {0}
    BY <1>2 DEF AtLeastOne
  <2>3. \A x \in Int, y \in Nat \ {0} : (IF x < 0 THEN 0 ELSE x \div y) \in Nat
    OBVIOUS
  <2> HIDE DEF elapsed, turns
  <2> QED BY <2>1, <2>2, <2>3
<1>5. s = [now EXCEPT !.turns = turns, !.retries = retries, !.errors = errors,
             !.tokens = tokens, !.last = m.at, !.timing = timing, !.quality = quality]
  BY DEF Extended
<1> HIDE DEF s, turns, retries, errors, elapsed, timing, tokens
<1>6. /\ quality \in 1..5
      /\ \A r \in SessionRow :
            r.turns = turns /\ r.retries = retries /\ r.errors = errors
              /\ r.timing = timing => CleanupScore(r) = quality
  <2>1. timing # NoTiming
    BY <1>4 DEF NoTiming
  <2>2. ASSUME NEW r, r.turns = turns, r.retries = retries, r.errors = errors,
               r.timing = timing
        PROVE  quality \in 1..5 /\ CleanupScore(r) = quality
    BY <1>3, <1>4, <2>1, <2>2, FormulasAgree
  <2>3. quality \in 1..5
    <3> DEFINE r == [turns |-> turns, retries |-> retries, errors |-> errors,
                     timing |-> timing]
    <3>1. r.turns = turns /\ r.retries = retries /\ r.errors = errors /\ r.timing = timing
      OBVIOUS
    <3> HIDE DEF r
    <3> QED BY <2>2, <3>1
  <2> QED BY <2>2, <2>3
<1> HIDE DEF quality
<1>7. /\ s \in SessionRow
      /\ s.turns = turns /\ s.retries = retries /\ s.errors = errors
      /\ s.timing = timing /\ s.quality = quality
  <2> DEFINE n1 == [now EXCEPT !.turns = turns]
             n2 == [n1 EXCEPT !.retries = retries]
             n3 == [n2 EXCEPT !.errors = errors]
             n4 == [n3 EXCEPT !.tokens = tokens]
             n5 == [n4 EXCEPT !.last = m.at]
             n6 == [n5 EXCEPT !.timing = timing]
             n7 == [n6 EXCEPT !.quality = quality]
  <2> USE <1>1, <1>3, <1>4, <1>6 DEF SessionRow
  <2>8. s = n7
    BY <1>5
  <2>1. n1 \in SessionRow /\ n1.turns = turns
    OBVIOUS
  <2> HIDE DEF n1
  <2>2. n2 \in SessionRow /\ n2.turns = turns /\ n2.retries = retries
    BY <2>1
  <2> HIDE DEF n2
  <2>3. n3 \in SessionRow /\ n3.turns = turns /\ n3.retries = retries /\ n3.errors = errors
    BY <2>2
  <2> HIDE DEF n3
  <2>4. n4 \in SessionRow /\ n4.turns = turns /\ n4.retries = retries /\ n4.errors = errors
    BY <2>3
  <2> HIDE DEF n4
  <2>5. n5 \in SessionRow /\ n5.turns = turns /\ n5.retries = retries /\ n5.errors = errors
    BY <2>4
  <2> HIDE DEF n5
  <2>6. n6 \in SessionRow /\ n6.turns = turns /\ n6.retries = retries /\ n6.errors = errors
        /\ n6.timing = timing
    BY <2>5
  <2> HIDE DEF n6
  <2>7. n7 \in SessionRow /\ n7.turns = turns /\ n7.retries = retries /\ n7.errors = errors
        /\ n7.timing = timing /\ n7.quality = quality
    BY <2>6
  <2> QED BY <2>7, <2>8
<1>8. s.timing # NoTiming
  BY <1>4, <1>7 DEF NoTiming
<1> QED BY <1>6, <1>7, <1>8 DEF Scored, s

\* What the webhook and the cleanup loop do to a row.
LEMMA SettledIsScored ==
  ASSUME NEW s \in SessionRow, Scored(s)
  PROVE  /\ Settled(s) \in SessionRow /\ Scored(Settled(s))
         /\ [s EXCEPT !.commit = "yes"] \in SessionRow
         /\ Scored([s EXCEPT !.commit = "yes"])
<1>1. ASSUME NEW c \in {"null", "yes", "no"}
      PROVE  LET a == [s EXCEPT !.commit = c]
             IN a \in SessionRow /\ Scored(a) /\ CleanupScore(a) = CleanupScore(s)
  BY DEF SessionRow, Scored, CleanupScore
<1>2. ASSUME NEW a \in SessionRow, Scored(a)
      PROVE  /\ [a EXCEPT !.quality = CleanupScore(a)] \in SessionRow
             /\ Scored([a EXCEPT !.quality = CleanupScore(a)])
  <2> DEFINE b == [a EXCEPT !.quality = CleanupScore(a)]
  <2>1. CleanupScore(a) \in 1..5
    BY <1>2, FormulasAgree DEF SessionRow, Scored
  <2>2. b \in SessionRow
    BY <2>1 DEF SessionRow
  <2>3. b.timing = a.timing /\ b.turns = a.turns /\ b.retries = a.retries
        /\ b.errors = a.errors /\ b.quality = CleanupScore(a)
    BY DEF SessionRow
  <2>4. CleanupScore(b) = CleanupScore(a)
    <3> HIDE DEF b
    <3> QED BY <2>3 DEF CleanupScore
  <2>5. Scored(b)
    <3> HIDE DEF b
    <3> QED BY <1>2, <2>3, <2>4 DEF Scored
  <2> QED BY <2>2, <2>5
<1>3. (IF Abandoned(s) THEN [s EXCEPT !.commit = "no"] ELSE s) \in SessionRow
      /\ Scored(IF Abandoned(s) THEN [s EXCEPT !.commit = "no"] ELSE s)
  BY <1>1
<1>4. Settled(s) \in SessionRow /\ Scored(Settled(s))
  <2> DEFINE a == IF Abandoned(s) THEN [s EXCEPT !.commit = "no"] ELSE s
  <2>1. Settled(s) = IF Ago(a.last) > 1800 /\ Ago(a.last) < 7 * Day
                     THEN [a EXCEPT !.quality = CleanupScore(a)] ELSE a
    BY DEF Settled
  <2>2. a \in SessionRow /\ Scored(a)
    BY <1>3
  <2> HIDE DEF a
  <2> QED BY <1>2, <2>1, <2>2
<1> QED BY <1>1, <1>4

\* An idle consumer handles nothing.
LEMMA IdlingIsTyped == Idling \in Handling /\ Idling.pc = "idle" /\ Idling.row = NoTrace
BY DEF Idling, Handling, HandlingStages

\* At first nothing is published and no session stored.
LEMMA EventsStart == EventIngestInit => EventInv
<1> SUFFICES ASSUME EventIngestInit PROVE EventInv
  OBVIOUS
<1>1. EventIngestTypeOK
  BY IdlingIsTyped DEF EventIngestInit, EventIngestTypeOK, Handling, HandlingStages
<1>2. HandledWerePublished
  BY IdlingIsTyped DEF EventIngestInit, HandledWerePublished
<1> QED BY <1>1, <1>2 DEF EventInv, EventIngestInit, RowsAreScored

\* POST /events puts a message behind the others.
LEMMA PublishStep ==
  ASSUME EventInv, NEW e \in Events, NEW r \in Consumers, NEW t \in Traces,
         NEW o \in Outcomes, Publish(e, r, t, o)
  PROVE  EventInv'
<1> USE DEF EventInv
<1> DEFINE q == IF onBroker THEN Broker ELSE r
           m == [trace |-> t, outcome |-> o, at |-> ticks]
<1>1. /\ event[e] = NoEvent /\ event' = [event EXCEPT ![e] = m]
      /\ queue' = [queue EXCEPT ![q] = Append(@, e)]
      /\ UNCHANGED <<onBroker, handling, records, turnsCounted, sessions, delivery,
                     ticks, consumerCrashes>>
  BY DEF Publish
<1>2. m \in Published /\ q \in Consumers \cup {Broker}
  BY DEF Published, EventIngestTypeOK
<1>3. \A d \in Events : event[d] \in Published => event'[d] = event[d]
  BY <1>1, NoEventIsUnpublished DEF EventIngestTypeOK
<1>4. event'[e] \in Published
  BY <1>1, <1>2 DEF EventIngestTypeOK
<1> HIDE DEF m, q
<1>5. event' \in [Events -> {NoEvent} \cup Published]
  BY <1>1, <1>2 DEF EventIngestTypeOK, Published
<1>6. queue' \in [Consumers \cup {Broker} -> Seq(Events)]
  BY <1>1, <1>2 DEF EventIngestTypeOK
<1>7. EventIngestTypeOK'
  BY <1>1, <1>5, <1>6 DEF EventIngestTypeOK, Published
<1>8. \A p \in Consumers \cup {Broker} :
        \A i \in 1..Len(queue'[p]) : event'[queue'[p][i]] \in Published
  <2> SUFFICES ASSUME NEW p \in Consumers \cup {Broker}, NEW i \in 1..Len(queue'[p])
               PROVE  event'[queue'[p][i]] \in Published
    OBVIOUS
  <2>1. queue[p] \in Seq(Events)
    BY DEF EventIngestTypeOK
  <2>2. CASE i \in 1..Len(queue[p])
    <3>1. queue'[p][i] = queue[p][i]
      BY <1>1, <2>1, <2>2 DEF EventIngestTypeOK
    <3> QED BY <1>3, <2>1, <2>2, <3>1 DEF HandledWerePublished
  <2>3. CASE i \notin 1..Len(queue[p])
    <3>1. p = q /\ queue'[p] = Append(queue[p], e)
      BY <1>1, <1>2, <2>3 DEF EventIngestTypeOK
    <3>2. queue'[p][i] = e
      BY <2>1, <2>3, <3>1
    <3> QED BY <1>4, <3>2
  <2> QED BY <2>2, <2>3
<1>9. \A c \in Consumers : handling[c].pc # "idle" =>
        event'[handling[c].event] = event[handling[c].event]
          /\ event'[handling[c].event] \in Published
  BY <1>3 DEF HandledWerePublished, EventIngestTypeOK
<1>10. HandledWerePublished'
  BY <1>1, <1>8, <1>9 DEF HandledWerePublished
<1>11. RowsAreScored'
  BY <1>1 DEF RowsAreScored
<1> QED BY <1>7, <1>10, <1>11

\* A replica takes the message at the head.
LEMMA TakeStep ==
  ASSUME EventInv, NEW r \in Consumers, Take(r)
  PROVE  EventInv'
<1> USE DEF EventInv
<1> DEFINE q == IF onBroker THEN Broker ELSE r
           h == [Idling EXCEPT !.pc = "taken", !.event = Head(queue[q])]
<1>1. /\ queue[q] # <<>> /\ handling' = [handling EXCEPT ![r] = h]
      /\ queue' = [queue EXCEPT ![q] = Tail(@)]
      /\ UNCHANGED <<onBroker, event, records, turnsCounted, sessions, delivery,
                     ticks, consumerCrashes>>
  BY DEF Take
<1>2. q \in Consumers \cup {Broker} /\ queue[q] \in Seq(Events)
  BY DEF EventIngestTypeOK
<1> HIDE DEF q
<1>3. Head(queue[q]) = queue[q][1] /\ 1 \in 1..Len(queue[q]) /\ Head(queue[q]) \in Events
  BY <1>1, <1>2
<1>4. h \in Handling /\ h.event = queue[q][1] /\ h.row = NoTrace
  BY <1>3, IdlingIsTyped DEF Handling, HandlingStages
<1> HIDE DEF h
<1>5. handling' \in [Consumers -> Handling]
  BY <1>1, <1>4 DEF EventIngestTypeOK, Handling, HandlingStages
<1>6. queue' \in [Consumers \cup {Broker} -> Seq(Events)]
  BY <1>1, <1>2 DEF EventIngestTypeOK
<1>7. EventIngestTypeOK'
  BY <1>1, <1>5, <1>6 DEF EventIngestTypeOK, Handling, HandlingStages
<1>8. \A p \in Consumers \cup {Broker} :
        \A i \in 1..Len(queue'[p]) : event'[queue'[p][i]] \in Published
  <2> SUFFICES ASSUME NEW p \in Consumers \cup {Broker}, NEW i \in 1..Len(queue'[p])
               PROVE  event'[queue'[p][i]] \in Published
    OBVIOUS
  <2>1. queue[p] \in Seq(Events)
    BY DEF EventIngestTypeOK
  <2>2. CASE p = q
    <3>1. queue'[p] = Tail(queue[p])
      BY <1>1, <1>2, <2>2 DEF EventIngestTypeOK
    <3>2. i + 1 \in 1..Len(queue[p]) /\ queue'[p][i] = queue[p][i + 1]
      <4>1. ASSUME NEW s \in Seq(Events), s # <<>>, NEW j \in 1..Len(Tail(s))
            PROVE  j + 1 \in 1..Len(s) /\ Tail(s)[j] = s[j + 1]
        BY <4>1
      <4> QED BY <1>1, <2>1, <2>2, <3>1, <4>1
    <3> QED BY <1>1, <3>2 DEF HandledWerePublished
  <2>3. CASE p # q
    BY <1>1, <2>1, <2>3 DEF HandledWerePublished, EventIngestTypeOK
  <2> QED BY <2>2, <2>3
<1>9. HandledWerePublished'
  BY <1>1, <1>2, <1>3, <1>4, <1>8 DEF HandledWerePublished, EventIngestTypeOK
<1>10. RowsAreScored'
  BY <1>1 DEF RowsAreScored
<1> QED BY <1>7, <1>9, <1>10

\* A replica dies: its message goes to the end of the broker's queue.
LEMMA CrashStep ==
  ASSUME EventInv, NEW r \in Consumers, Crash(r)
  PROVE  EventInv'
<1> USE DEF EventInv
<1>1. /\ handling' = [handling EXCEPT ![r] = Idling]
      /\ consumerCrashes' \in 0..MaxConsumerCrashes
      /\ UNCHANGED <<onBroker, event, records, turnsCounted, sessions, delivery, ticks>>
  BY DEF Crash, EventIngestTypeOK
<1>2. queue' \in [Consumers \cup {Broker} -> Seq(Events)]
  BY DEF Crash, EventIngestTypeOK
<1>3. handling' \in [Consumers -> Handling]
  BY <1>1, IdlingIsTyped DEF EventIngestTypeOK, Handling, HandlingStages
<1>4. EventIngestTypeOK'
  BY <1>1, <1>2, <1>3 DEF EventIngestTypeOK, Handling, HandlingStages
<1>5. \A p \in Consumers \cup {Broker} :
        \A i \in 1..Len(queue'[p]) : event'[queue'[p][i]] \in Published
  <2> SUFFICES ASSUME NEW p \in Consumers \cup {Broker}, NEW i \in 1..Len(queue'[p])
               PROVE  event[queue'[p][i]] \in Published
    BY <1>1
  <2>1. queue[p] \in Seq(Events)
    BY DEF EventIngestTypeOK
  <2>2. \/ queue'[p] = queue[p]
        \/ queue'[p] = <<>>
        \/ queue'[p] = Append(queue[p], handling[r].event) /\ handling[r].pc # "idle"
    BY DEF Crash, EventIngestTypeOK
  <2>3. handling[r].event \in Events
    BY DEF EventIngestTypeOK
  <2>4. CASE queue'[p] = Append(queue[p], handling[r].event) /\ handling[r].pc # "idle"
    <3>1. i \in 1..Len(queue[p]) \/ queue'[p][i] = handling[r].event
      BY <2>1, <2>3, <2>4
    <3>2. i \in 1..Len(queue[p]) => queue'[p][i] = queue[p][i]
      BY <2>1, <2>3, <2>4
    <3> QED BY <2>4, <3>1, <3>2 DEF HandledWerePublished
  <2> QED BY <2>1, <2>2, <2>4 DEF HandledWerePublished
<1>6. HandledWerePublished'
  BY <1>1, <1>5, IdlingIsTyped DEF HandledWerePublished, EventIngestTypeOK
<1>7. RowsAreScored'
  BY <1>1 DEF RowsAreScored
<1> QED BY <1>4, <1>6, <1>7

\* The places of the handler that touch no session.
LEMMA HandlerStep ==
  ASSUME EventInv, NEW r \in Consumers,
         Record(r) \/ AddToCounters(r) \/ ReadTrace(r) \/ Finish(r)
  PROVE  EventInv'
<1> USE DEF EventInv
<1> DEFINE h == handling[r]
           row == sessions[event[h.event].trace]
<1>1. /\ h.pc # "idle"
      /\ UNCHANGED <<onBroker, event, queue, sessions, delivery, ticks,
                     consumerCrashes>>
  BY DEF Record, AddToCounters, ReadTrace, Finish
<1>2. event[h.event] \in Published
  BY <1>1 DEF HandledWerePublished
<1>3. row \in SessionRow \cup {NoTrace}
  BY <1>2 DEF Published, EventIngestTypeOK
<1>4. h \in Handling
  BY DEF EventIngestTypeOK, Handling, HandlingStages
<1> HIDE DEF row
<1>5. PICK n \in Handling :
        /\ handling' = [handling EXCEPT ![r] = n]
        /\ \/ n = Idling
           \/ n.event = h.event /\ n.row \in {h.row, row}
  <2>1. CASE handling' = [handling EXCEPT ![r] = Idling]
    BY <2>1, IdlingIsTyped
  <2>2. CASE \E c \in HandlingStages : handling' = [handling EXCEPT ![r].pc = c]
    <3>1. PICK c \in HandlingStages : handling' = [handling EXCEPT ![r].pc = c]
      BY <2>2
    <3>2. [h EXCEPT !.pc = c] \in Handling /\ [h EXCEPT !.pc = c].event = h.event
          /\ [h EXCEPT !.pc = c].row = h.row
      BY <1>4 DEF Handling
    <3>3. handling' = [handling EXCEPT ![r] = [h EXCEPT !.pc = c]]
      BY <3>1
    <3> QED BY <3>2, <3>3
  <2>3. CASE ReadTrace(r)
    <3>1. handling' = [handling EXCEPT ![r] = [h EXCEPT !.pc = "read", !.row = row]]
      BY <2>3 DEF ReadTrace, row
    <3>2. [h EXCEPT !.pc = "read", !.row = row] \in Handling
          /\ [h EXCEPT !.pc = "read", !.row = row].event = h.event
          /\ [h EXCEPT !.pc = "read", !.row = row].row = row
      BY <1>3, <1>4 DEF Handling, HandlingStages
    <3> QED BY <3>1, <3>2
  <2>4. \/ handling' = [handling EXCEPT ![r] = Idling]
        \/ \E c \in HandlingStages : handling' = [handling EXCEPT ![r].pc = c]
        \/ ReadTrace(r)
    BY DEF Record, AddToCounters, Finish, HandlingStages
  <2> QED BY <2>1, <2>2, <2>3, <2>4
<1>6. handling' \in [Consumers -> Handling]
  BY <1>5 DEF EventIngestTypeOK, Handling, HandlingStages
<1>7. records' \in [Events -> Nat] /\ turnsCounted' \in Nat
  <2>1. h.event \in Events
    BY <1>4 DEF Handling
  <2>2. records' = records \/ records' = [records EXCEPT ![h.event] = @ + 1]
    BY DEF Record, AddToCounters, ReadTrace, Finish
  <2>3. records' \in [Events -> Nat]
    BY <2>1, <2>2 DEF EventIngestTypeOK
  <2>4. turnsCounted' \in {turnsCounted, turnsCounted + 1}
    BY DEF Record, AddToCounters, ReadTrace, Finish
  <2> QED BY <2>3, <2>4 DEF EventIngestTypeOK
<1>8. EventIngestTypeOK'
  BY <1>1, <1>6, <1>7 DEF EventIngestTypeOK, Handling, HandlingStages
<1>9. \A c \in Consumers : handling'[c].pc # "idle" =>
        /\ event[handling'[c].event] \in Published
        /\ handling'[c].row # NoTrace =>
              sessions[event[handling'[c].event].trace] # NoTrace
  <2> SUFFICES ASSUME NEW c \in Consumers, handling'[c].pc # "idle"
               PROVE  /\ event[handling'[c].event] \in Published
                      /\ handling'[c].row # NoTrace =>
                            sessions[event[handling'[c].event].trace] # NoTrace
    OBVIOUS
  <2>1. CASE c # r
    BY <1>5, <2>1 DEF HandledWerePublished, EventIngestTypeOK
  <2>2. CASE c = r
    <3>1. handling'[c] = n
      BY <1>5, <2>2 DEF EventIngestTypeOK
    <3>2. n.event = h.event /\ n.row \in {h.row, row}
      BY <1>5, <3>1, IdlingIsTyped
    <3> QED BY <1>1, <3>1, <3>2 DEF HandledWerePublished, row
  <2> QED BY <2>1, <2>2
<1>10. HandledWerePublished'
  BY <1>1, <1>9 DEF HandledWerePublished
<1>11. RowsAreScored'
  BY <1>1 DEF RowsAreScored
<1> QED BY <1>8, <1>10, <1>11

\* The UPDATE or the INSERT of a session.
LEMMA WriteStep ==
  ASSUME EventInv, NEW r \in Consumers, WriteSession(r)
  PROVE  EventInv'
<1> USE DEF EventInv
<1> DEFINE h == handling[r]
           m == event[h.event]
           n == [h EXCEPT !.pc = "aggregated", !.row = NoTrace]
<1>1. /\ h.pc = "read"
      /\ handling' = [handling EXCEPT ![r] = n]
      /\ UNCHANGED <<onBroker, event, queue, records, turnsCounted, delivery,
                     ticks, consumerCrashes>>
      /\ \/ sessions' = sessions
         \/ h.row # NoTrace
              /\ sessions' = [sessions EXCEPT ![m.trace] = Extended(m, h.row, @)]
         \/ sessions[m.trace] = NoTrace
              /\ sessions' = [sessions EXCEPT ![m.trace] = Opened(m)]
  BY DEF WriteSession
<1>2. h \in Handling
  BY DEF EventIngestTypeOK, Handling, HandlingStages
<1>3. n \in Handling /\ n.event = h.event /\ n.row = NoTrace
  BY <1>2 DEF Handling, HandlingStages
<1> HIDE DEF n
<1>4. m \in Published /\ (h.row # NoTrace => sessions[m.trace] # NoTrace)
  BY <1>1 DEF HandledWerePublished
<1>5. handling' \in [Consumers -> Handling]
  BY <1>1, <1>3 DEF EventIngestTypeOK, Handling, HandlingStages
<1> DEFINE Kept == /\ sessions' \in [Traces -> SessionRow \cup {NoTrace}]
                   /\ \A t \in Traces :
                        /\ sessions[t] # NoTrace => sessions'[t] # NoTrace
                        /\ sessions'[t] # NoTrace => Scored(sessions'[t])
<1>6. Kept
  <2>1. m.trace \in Traces
    BY <1>4 DEF Published
  <2>2. CASE sessions' = sessions
    BY <2>2 DEF EventIngestTypeOK, RowsAreScored
  <2>3. ASSUME NEW s \in SessionRow, Scored(s),
               sessions' = [sessions EXCEPT ![m.trace] = s]
        PROVE  Kept
    BY <2>1, <2>3, NoTraceIsNoRow DEF EventIngestTypeOK, RowsAreScored
  <2>4. CASE h.row # NoTrace
               /\ sessions' = [sessions EXCEPT ![m.trace] = Extended(m, h.row, @)]
    <3>1. h.row \in SessionRow /\ sessions[m.trace] \in SessionRow
      BY <1>2, <1>4, <2>1, <2>4 DEF Handling, EventIngestTypeOK
    <3>2. Extended(m, h.row, sessions[m.trace]) \in SessionRow
          /\ Scored(Extended(m, h.row, sessions[m.trace]))
      BY <1>4, <3>1, ExtendedIsScored
    <3> QED BY <2>3, <2>4, <3>2
  <2>5. CASE sessions' = [sessions EXCEPT ![m.trace] = Opened(m)]
    BY <1>4, <2>3, <2>5, OpenedIsScored
  <2> QED BY <1>1, <2>2, <2>4, <2>5
<1>7. EventIngestTypeOK'
  BY <1>1, <1>5, <1>6 DEF EventIngestTypeOK, Handling, HandlingStages
<1>8. HandledWerePublished'
  <2>1. \A c \in Consumers : handling'[c].pc # "idle" =>
          /\ event[handling'[c].event] \in Published
          /\ handling'[c].row # NoTrace =>
                sessions'[event[handling'[c].event].trace] # NoTrace
    <3> SUFFICES ASSUME NEW c \in Consumers, handling'[c].pc # "idle"
                 PROVE  /\ event[handling'[c].event] \in Published
                        /\ handling'[c].row # NoTrace =>
                              sessions'[event[handling'[c].event].trace] # NoTrace
      OBVIOUS
    <3>1. CASE c = r
      BY <1>1, <1>3, <1>4, <3>1 DEF EventIngestTypeOK
    <3>2. CASE c # r
      <4>1. handling'[c] = handling[c]
        BY <1>1, <3>2 DEF EventIngestTypeOK
      <4>2. event[handling[c].event] \in Published
        BY <4>1 DEF HandledWerePublished
      <4> QED BY <1>6, <4>1, <4>2 DEF HandledWerePublished, Published
    <3> QED BY <3>1, <3>2
  <2> QED BY <1>1, <2>1 DEF HandledWerePublished
<1>9. RowsAreScored'
  BY <1>6 DEF RowsAreScored
<1> QED BY <1>7, <1>8, <1>9

\* The webhook and the cleanup loop, which rewrite rows in place.
LEMMA OutcomeStep ==
  ASSUME EventInv,
         FinalizeStale \/ \E d \in Deliveries : MarkSessions(d)
  PROVE  EventInv'
<1> USE DEF EventInv
<1>1. /\ UNCHANGED <<onBroker, event, queue, handling, records, turnsCounted, ticks,
                     consumerCrashes>>
      /\ delivery' \in [Deliveries -> {"none", "inserted", "done"}]
  BY DEF FinalizeStale, MarkSessions, EventIngestTypeOK
<1>2. /\ DOMAIN sessions' = Traces /\ sessions' = [t \in Traces |-> sessions'[t]]
      /\ \A t \in Traces :
           \/ sessions'[t] = sessions[t]
           \/ sessions[t] # NoTrace
                /\ sessions'[t] \in {[sessions[t] EXCEPT !.commit = "yes"],
                                     Settled(sessions[t])}
  BY DEF FinalizeStale, MarkSessions
<1>3. \A t \in Traces :
        /\ sessions'[t] \in SessionRow \cup {NoTrace}
        /\ sessions[t] # NoTrace => sessions'[t] # NoTrace
        /\ sessions'[t] # NoTrace => Scored(sessions'[t])
  <2> SUFFICES ASSUME NEW t \in Traces
               PROVE  /\ sessions'[t] \in SessionRow \cup {NoTrace}
                      /\ sessions[t] # NoTrace => sessions'[t] # NoTrace
                      /\ sessions'[t] # NoTrace => Scored(sessions'[t])
    OBVIOUS
  <2>1. sessions[t] \in SessionRow \cup {NoTrace}
    BY DEF EventIngestTypeOK
  <2>2. sessions[t] # NoTrace => Scored(sessions[t])
    BY DEF RowsAreScored
  <2> QED BY <1>2, <2>1, <2>2, SettledIsScored, NoTraceIsNoRow
<1>4. sessions' \in [Traces -> SessionRow \cup {NoTrace}]
  BY <1>2, <1>3
<1>5. EventIngestTypeOK'
  BY <1>1, <1>4 DEF EventIngestTypeOK
<1>6. HandledWerePublished'
  BY <1>1, <1>3 DEF HandledWerePublished, Published
<1>7. RowsAreScored'
  BY <1>3 DEF RowsAreScored
<1> QED BY <1>5, <1>6, <1>7

\* The score a handler stores is the score the cleanup loop would compute from
\* the row, however replicas overwrite each other's counts and messages are
\* delivered again (_upsert_session and _finalize_stale_sessions).
THEOREM ScoresStayCurrent == EventIngestSpec => [](EventIngestTypeOK /\ QualityIsCurrent)
<1>1. EventInv /\ [EventIngestNext]_eventVars => EventInv'
  <2> SUFFICES ASSUME EventInv, [EventIngestNext]_eventVars PROVE EventInv'
    OBVIOUS
  <2>1. CASE UNCHANGED eventVars
    BY <2>1 DEF eventVars, EventInv, EventIngestTypeOK, RowsAreScored,
                HandledWerePublished
  <2>2. ASSUME NEW d \in Deliveries, Receive(d) PROVE EventInv'
    BY <2>2 DEF Receive, EventInv, EventIngestTypeOK, RowsAreScored,
                HandledWerePublished
  <2>3. ASSUME Elapse PROVE EventInv'
    BY <2>3 DEF Elapse, EventInv, EventIngestTypeOK, RowsAreScored,
                HandledWerePublished
  <2>4. CASE EventIngestNext
    BY <2>2, <2>3, <2>4, PublishStep, TakeStep, CrashStep, HandlerStep, WriteStep,
       OutcomeStep DEF EventIngestNext
  <2> QED BY <2>1, <2>4
<1>2. EventInv => EventIngestTypeOK /\ QualityIsCurrent
  BY DEF EventInv, RowsAreScored, Scored, QualityIsCurrent
<1> QED BY EventsStart, <1>1, <1>2, PTL DEF EventIngestSpec

HIDE EventIngestAssumption

---------------------------------------------------------------------------
(* Alerts.  A spike is flagged after its row is committed.                 *)

\* The node of a check between its statements, and its row once it is written.
PostedIsWritten ==
    \A c \in Checkers :
        /\ spikeJob[c].pc \in {"read", "post"} => spikeJob[c].at \in Units
        /\ spikeJob[c].pc = "post" => spikeRows[<<spikeJob[c].at, spikeJob[c].day>>] > 0

\* A check on its way has a node for the webhook.
BudgetAtUnit ==
    \A c \in Checkers :
        budgetJob[c].pc \in {"post", "posted"} => budgetJob[c].at \in Units

AlertsInv == AlertsTypeOK /\ PostedIsWritten /\ BudgetAtUnit /\ FlaggedIsReported

\* At first nothing is reported or flagged.
LEMMA AlertsStart == AlertsInit => AlertsInv
<1> SUFFICES ASSUME AlertsInit PROVE AlertsInv
  OBVIOUS
<1>0. 0 \in 0..MaxDays /\ 0 \in 0..MaxAlerts
  BY AlertsAssumption
<1>1. NoJob \in JobType /\ NoJob.pc = "idle"
  BY <1>0 DEF NoJob, JobType, Days
<1>2. spikeRows \in [Units \X Days -> 0..MaxAlerts] /\ posts \in [Units -> 0..MaxAlerts]
  BY <1>0 DEF AlertsInit
<1>3. AlertsTypeOK
  <2>1. spikeJob \in [Checkers -> JobType] /\ budgetJob \in [Checkers -> JobType]
    BY <1>1 DEF AlertsInit
  <2> QED BY <2>1, <1>0, <1>2 DEF AlertsInit, AlertsTypeOK, Days
<1>4. PostedIsWritten /\ BudgetAtUnit /\ FlaggedIsReported
  BY <1>1 DEF AlertsInit, PostedIsWritten, BudgetAtUnit, FlaggedIsReported
<1> QED BY <1>3, <1>4 DEF AlertsInv

\* A step of the check for spikes.
LEMMA AlertsSpikeStep ==
  ASSUME AlertsInv, NEW c \in Checkers,
         \/ Detect(c) \/ TakeDay(c) \/ CheckFlag(c) \/ ReportAlert(c) \/ FlagReported(c)
         \/ EndSpikeCheck(c)
  PROVE  AlertsInv'
<1> USE DEF AlertsInv
<1>1. UNCHANGED <<budgetVars, worldVars>>
  BY DEF Detect, TakeDay, CheckFlag, ReportAlert, FlagReported, EndSpikeCheck
<1>2. spikeJob \in [Checkers -> JobType] /\ spikeRows \in [Units \X Days -> 0..MaxAlerts]
  BY DEF AlertsTypeOK
<1>3. \E n \in JobType :
         /\ spikeJob' = [spikeJob EXCEPT ![c] = n]
         /\ n.pc = "read" => n.at \in Units
         /\ n.pc = "post" => /\ spikeJob[c].pc = "read" /\ ReportAlert(c)
                             /\ n.at = spikeJob[c].at /\ n.day = spikeJob[c].day
  <2>1. CASE Detect(c)
    <3> DEFINE n == [NoJob EXCEPT !.todo = spiking, !.pc = "found"]
    <3>0. NoJob \in JobType
      BY AlertsAssumption DEF NoJob, JobType, Days
    <3>1. n \in JobType /\ n.pc = "found"
      BY <3>0 DEF JobType, AlertsTypeOK
    <3>2. spikeJob' = [spikeJob EXCEPT ![c] = n]
      BY <2>1 DEF Detect
    <3> HIDE DEF n
    <3> QED BY <3>1, <3>2
  <2>6. CASE TakeDay(c)
    <3> DEFINE n == [spikeJob[c] EXCEPT !.pc = "next", !.day = today]
    <3>1. n \in JobType /\ n.pc = "next"
      BY <1>2 DEF JobType, AlertsTypeOK
    <3>2. spikeJob' = [spikeJob EXCEPT ![c] = n]
      BY <2>6 DEF TakeDay
    <3> HIDE DEF n
    <3> QED BY <3>1, <3>2
  <2>2. CASE CheckFlag(c)
    <3>1. PICK u \in spikeJob[c].todo :
         spikeJob' = [spikeJob EXCEPT
            ![c].todo = @ \ {u},
            ![c].at = IF <<u, spikeJob[c].day>> \in spikeFlag THEN NoUnit ELSE u,
            ![c].pc = IF <<u, spikeJob[c].day>> \in spikeFlag THEN "next" ELSE "read"]
      BY <2>2 DEF CheckFlag
    <3>2. u \in Units
      BY <1>2 DEF JobType
    <3> DEFINE n == [spikeJob[c] EXCEPT
            !.todo = @ \ {u},
            !.at = IF <<u, spikeJob[c].day>> \in spikeFlag THEN NoUnit ELSE u,
            !.pc = IF <<u, spikeJob[c].day>> \in spikeFlag THEN "next" ELSE "read"]
    <3>3. n \in JobType /\ n.pc \in {"next", "read"} /\ (n.pc = "read" => n.at \in Units)
      BY <1>2, <3>2 DEF JobType
    <3>4. spikeJob' = [spikeJob EXCEPT ![c] = n]
      BY <3>1
    <3> QED BY <3>3, <3>4
  <2>3. CASE ReportAlert(c)
    <3> DEFINE n == [spikeJob[c] EXCEPT !.pc = "post"]
    <3>1. n \in JobType /\ n.pc = "post" /\ n.at = spikeJob[c].at /\ n.day = spikeJob[c].day
      BY <1>2 DEF JobType
    <3> QED BY <2>3, <3>1 DEF ReportAlert
  <2>4. CASE FlagReported(c)
    <3> DEFINE n == [spikeJob[c] EXCEPT !.pc = "next", !.at = NoUnit]
    <3>1. n \in JobType /\ n.pc = "next"
      BY <1>2 DEF JobType
    <3> QED BY <2>4, <3>1 DEF FlagReported
  <2>5. CASE EndSpikeCheck(c)
    <3>1. NoJob \in JobType /\ NoJob.pc = "idle"
      BY AlertsAssumption DEF NoJob, JobType, Days
    <3> QED BY <2>5, <3>1 DEF EndSpikeCheck
  <2> QED BY <2>1, <2>2, <2>3, <2>4, <2>5, <2>6
<1>4. PICK n \in JobType :
         /\ spikeJob' = [spikeJob EXCEPT ![c] = n]
         /\ n.pc = "read" => n.at \in Units
         /\ n.pc = "post" => /\ spikeJob[c].pc = "read" /\ ReportAlert(c)
                             /\ n.at = spikeJob[c].at /\ n.day = spikeJob[c].day
  BY <1>3
<1>5. /\ spikeJob' \in [Checkers -> JobType]
      /\ spikeJob'[c] = n
      /\ \A d \in Checkers \ {c} : spikeJob'[d] = spikeJob[d]
  BY <1>2, <1>4
<1>6. spikeJob[c].day \in Days
  BY <1>2 DEF JobType
<1>7. /\ spikeRows' \in [Units \X Days -> 0..MaxAlerts]
      /\ \A p \in Units \X Days : spikeRows[p] > 0 => spikeRows'[p] > 0
      /\ ReportAlert(c) => spikeRows'[<<spikeJob[c].at, spikeJob[c].day>>] > 0
  <2>1. CASE ReportAlert(c)
    <3> DEFINE p == <<spikeJob[c].at, spikeJob[c].day>>
    <3>1. p \in Units \X Days
      BY <1>6, <2>1 DEF ReportAlert, PostedIsWritten
    <3>2. spikeRows[p] + 1 \in 0..MaxAlerts /\ spikeRows[p] + 1 > 0
      BY <1>2, <2>1, <3>1, AlertsAssumption DEF ReportAlert
    <3>3. spikeRows' = [spikeRows EXCEPT ![p] = spikeRows[p] + 1]
      BY <2>1 DEF ReportAlert
    <3> HIDE DEF p
    <3>4. spikeRows'[p] > 0 /\ \A q \in Units \X Days : q # p => spikeRows'[q] = spikeRows[q]
      BY <1>2, <3>1, <3>2, <3>3
    <3>5. spikeRows' \in [Units \X Days -> 0..MaxAlerts]
      BY <1>2, <3>2, <3>3
    <3> QED BY <3>4, <3>5 DEF p
  <2>2. CASE ~ReportAlert(c)
    <3>1. UNCHANGED spikeRows
      BY <2>2 DEF Detect, TakeDay, CheckFlag, FlagReported, EndSpikeCheck
    <3> QED BY <2>2, <3>1, <1>2
  <2> QED BY <2>1, <2>2
<1>8. \/ UNCHANGED spikeFlag
      \/ /\ spikeJob[c].pc = "post"
         /\ spikeFlag' = spikeFlag \cup {<<spikeJob[c].at, spikeJob[c].day>>}
  BY DEF Detect, TakeDay, CheckFlag, ReportAlert, FlagReported, EndSpikeCheck
<1>9. (spikeFlag \subseteq Units \X Days)'
  BY <1>6, <1>8 DEF AlertsTypeOK, PostedIsWritten
<1>10. AlertsTypeOK'
  BY <1>1, <1>5, <1>7, <1>9 DEF AlertsTypeOK, budgetVars, worldVars
<1>11. PostedIsWritten'
  <2> SUFFICES ASSUME NEW d \in Checkers
        PROVE  /\ spikeJob'[d].pc \in {"read", "post"} => spikeJob'[d].at \in Units
               /\ spikeJob'[d].pc = "post" =>
                    spikeRows'[<<spikeJob'[d].at, spikeJob'[d].day>>] > 0
    BY DEF PostedIsWritten
  <2>1. CASE d = c
    BY <2>1, <1>4, <1>5, <1>7 DEF PostedIsWritten
  <2>2. CASE d # c
    <3>1. spikeJob'[d] = spikeJob[d] /\ spikeJob[d].day \in Days
      BY <2>2, <1>2, <1>5 DEF JobType
    <3> QED BY <3>1, <1>7 DEF PostedIsWritten
  <2> QED BY <2>1, <2>2
<1>12. BudgetAtUnit'
  BY <1>1 DEF BudgetAtUnit, budgetVars
<1>13. FlaggedIsReported'
  <2> SUFFICES ASSUME NEW p \in spikeFlag' PROVE spikeRows'[p] > 0
    BY DEF FlaggedIsReported
  <2>1. p \in Units \X Days
    BY <1>9
  <2>2. p \in spikeFlag \/ (spikeJob[c].pc = "post" /\ p = <<spikeJob[c].at, spikeJob[c].day>>)
    BY <1>8
  <2>3. spikeRows[p] > 0
    BY <2>2 DEF FlaggedIsReported, PostedIsWritten
  <2> QED BY <2>1, <2>3, <1>7
<1> QED BY <1>10, <1>11, <1>12, <1>13

\* A step of the check for budgets.
LEMMA AlertsBudgetStep ==
  ASSUME AlertsInv, NEW c \in Checkers,
         \/ LoadBudgets(c) \/ ClearAlert(c) \/ ShowAlert(c) \/ PostWebhook(c)
         \/ MarkSent(c) \/ EndBudgetCheck(c)
  PROVE  AlertsInv'
<1> USE DEF AlertsInv
<1>1. UNCHANGED <<spikeVars, worldVars>>
  BY DEF LoadBudgets, ClearAlert, ShowAlert, PostWebhook, MarkSent, EndBudgetCheck
<1>2. /\ budgetJob \in [Checkers -> JobType] /\ posts \in [Units -> 0..MaxAlerts]
      /\ shown \subseteq Units /\ sent \subseteq Units
  BY DEF AlertsTypeOK
<1>3. \E n \in JobType :
         /\ budgetJob' = [budgetJob EXCEPT ![c] = n]
         /\ n.pc \in {"post", "posted"} => n.at \in Units
  <2>1. CASE LoadBudgets(c)
    <3> DEFINE n == [NoJob EXCEPT !.todo = Units, !.pc = "next", !.hook = webhook]
    <3>1. webhook \in BOOLEAN /\ 0 \in Days
      BY AlertsAssumption DEF AlertsTypeOK, Days
    <3>2. NoJob \in JobType
      BY <3>1 DEF NoJob, JobType
    <3>3. n \in JobType /\ n.pc = "next"
      BY <3>1, <3>2 DEF JobType
    <3> QED BY <2>1, <3>3 DEF LoadBudgets
  <2>2. CASE ClearAlert(c)
    <3>1. PICK u \in budgetJob[c].todo \ over :
             budgetJob' = [budgetJob EXCEPT ![c].todo = @ \ {u}]
      BY <2>2 DEF ClearAlert
    <3> DEFINE n == [budgetJob[c] EXCEPT !.todo = @ \ {u}]
    <3>2. n \in JobType /\ n.pc = "next"
      BY <1>2, <2>2 DEF JobType, ClearAlert
    <3> QED BY <3>1, <3>2
  <2>3. CASE ShowAlert(c)
    <3>1. PICK u \in budgetJob[c].todo \cap over :
            budgetJob' = [budgetJob EXCEPT
              ![c].todo = @ \ {u},
              ![c].at = IF budgetJob[c].hook /\ u \notin sent THEN u ELSE NoUnit,
              ![c].pc = IF budgetJob[c].hook /\ u \notin sent THEN "post" ELSE "next"]
      BY <2>3 DEF ShowAlert
    <3>2. u \in Units
      BY <1>2 DEF JobType
    <3> DEFINE n == [budgetJob[c] EXCEPT
              !.todo = @ \ {u},
              !.at = IF budgetJob[c].hook /\ u \notin sent THEN u ELSE NoUnit,
              !.pc = IF budgetJob[c].hook /\ u \notin sent THEN "post" ELSE "next"]
    <3>3. n \in JobType /\ n.pc \in {"post", "next"} /\ (n.pc = "post" => n.at \in Units)
      BY <1>2, <3>2 DEF JobType
    <3>4. budgetJob' = [budgetJob EXCEPT ![c] = n]
      BY <3>1
    <3> QED BY <3>3, <3>4
  <2>4. CASE PostWebhook(c)
    <3> DEFINE n == [budgetJob[c] EXCEPT !.pc = "posted"]
    <3>1. n \in JobType /\ n.at \in Units
      BY <1>2, <2>4 DEF JobType, PostWebhook, BudgetAtUnit
    <3> QED BY <2>4, <3>1 DEF PostWebhook
  <2>5. CASE MarkSent(c)
    <3> DEFINE n == [budgetJob[c] EXCEPT !.pc = "next", !.at = NoUnit]
    <3>1. n \in JobType /\ n.pc = "next"
      BY <1>2 DEF JobType
    <3> QED BY <2>5, <3>1 DEF MarkSent
  <2>6. CASE EndBudgetCheck(c)
    <3>1. NoJob \in JobType /\ NoJob.pc = "idle"
      BY AlertsAssumption DEF NoJob, JobType, Days
    <3> QED BY <2>6, <3>1 DEF EndBudgetCheck
  <2> QED BY <2>1, <2>2, <2>3, <2>4, <2>5, <2>6
<1>4. (budgetJob \in [Checkers -> JobType])' /\ BudgetAtUnit'
  BY <1>2, <1>3 DEF BudgetAtUnit
<1>5. (posts \in [Units -> 0..MaxAlerts])'
  <2>1. CASE PostWebhook(c)
    <3> DEFINE u == budgetJob[c].at
    <3>1. u \in Units
      BY <2>1 DEF PostWebhook, BudgetAtUnit
    <3>2. posts[u] + 1 \in 0..MaxAlerts
      BY <1>2, <2>1, <3>1, AlertsAssumption DEF PostWebhook
    <3> QED BY <1>2, <2>1, <3>1, <3>2 DEF PostWebhook
  <2>2. CASE UNCHANGED posts
    BY <1>2, <2>2
  <2> QED BY <2>1, <2>2 DEF LoadBudgets, ClearAlert, ShowAlert, MarkSent, EndBudgetCheck
<1>6. (shown \subseteq Units /\ sent \subseteq Units)'
  BY <1>2 DEF LoadBudgets, ClearAlert, ShowAlert, PostWebhook, MarkSent, EndBudgetCheck,
              JobType, BudgetAtUnit
<1>7. AlertsTypeOK'
  BY <1>1, <1>4, <1>5, <1>6 DEF AlertsTypeOK, spikeVars, worldVars
<1>8. PostedIsWritten' /\ FlaggedIsReported'
  BY <1>1 DEF PostedIsWritten, FlaggedIsReported, spikeVars
<1> QED BY <1>4, <1>7, <1>8

\* What moves under the two loops.
LEMMA AlertsWorld ==
  ASSUME AlertsInv,
         \/ \E u \in Units : Spike(u) \/ Spend(u) \/ ExpireAlertKeys(u)
         \/ NextDay
  PROVE  AlertsInv'
<1> USE DEF AlertsInv
<1>1. UNCHANGED <<spikeVars, budgetJob, posts, webhook>>
  BY DEF Spike, Spend, ExpireAlertKeys, NextDay, budgetVars, worldVars
<1>2. (today \in Days)'
  BY AlertsAssumption
     DEF Spike, Spend, ExpireAlertKeys, NextDay, worldVars, AlertsTypeOK, Days
<1>3. (/\ spiking \subseteq Units /\ over \subseteq Units
       /\ shown \subseteq Units /\ sent \subseteq Units)'
  BY DEF Spike, Spend, ExpireAlertKeys, NextDay, budgetVars, worldVars, AlertsTypeOK
<1>4. AlertsTypeOK'
  BY <1>1, <1>2, <1>3 DEF AlertsTypeOK, spikeVars
<1>5. PostedIsWritten' /\ BudgetAtUnit' /\ FlaggedIsReported'
  BY <1>1 DEF PostedIsWritten, BudgetAtUnit, FlaggedIsReported, spikeVars
<1> QED BY <1>4, <1>5

\* Whatever fails or stops between the two writes, and however checks overlap, a
\* spike that is flagged in Redis has a row in budget_alert_history
\* (check_spike_alerts).
THEOREM FlaggedSpikesWereReported == AlertsSpec => [](AlertsTypeOK /\ FlaggedIsReported)
<1>1. AlertsInv /\ [AlertsNext]_alertVars => AlertsInv'
  <2> SUFFICES ASSUME AlertsInv, [AlertsNext]_alertVars PROVE AlertsInv'
    OBVIOUS
  <2>1. CASE UNCHANGED alertVars
    BY <2>1 DEF alertVars, AlertsInv, AlertsTypeOK, PostedIsWritten, BudgetAtUnit,
                FlaggedIsReported
  <2>2. CASE AlertsNext
    BY <2>2, AlertsSpikeStep, AlertsBudgetStep, AlertsWorld
       DEF AlertsNext, SpikeNext, BudgetNext
  <2> QED BY <2>1, <2>2
<1>2. AlertsInv => AlertsTypeOK /\ FlaggedIsReported
  BY DEF AlertsInv
<1> QED BY AlertsStart, <1>1, <1>2, PTL DEF AlertsSpec

---------------------------------------------------------------------------
(* Agents that call tools.  Every call of a round that has not ended is in *)
(* a slot of its agent or waits for one, and the round goes on without it. *)

CallStates == {"none", "called", "running", "ok", "fault", "blamed"}
CallRow == [tool : ChatTools \cup WorkerTools \cup {NoTool}, state : CallStates]
SlotCalls == [Slots -> CallRow]

RunningCalls(a) == {s \in Slots : toolCall[a][s].state = "running"}
GoodCalls(a) == {s \in Slots : toolCall[a][s].state = "ok"}
Width == Cardinality(Slots)

\* Calls are there only in the middle of a round.
CallsOfTheRound ==
    \A a \in Agents : agent[a] # "calling" => \A s \in Slots : toolCall[a][s] = NoToolCall
\* A worker's connections are those of its running calls.
ConnectionsCounted == \A w \in Workers : waiting[w] = Cardinality(RunningCalls(w))
RoundsLeft == \A a \in Agents : agent[a] \in {"asking", "calling"} => round[a] < MaxRounds
\* No more insights than calls that ended well, in the rounds before and in this one.
InsightsCounted ==
    \A w \in Workers : agent[w] \in {"asking", "calling"} =>
        insights[w] =< round[w] * Width + Cardinality(GoodCalls(w))

ToolAgentsInv ==
    /\ ToolAgentsTypeOK
    /\ CallsOfTheRound /\ ConnectionsCounted /\ RoundsLeft /\ InsightsCounted

\* Sets of slots can be counted.
LEMMA SlotSets ==
    /\ Width \in Nat
    /\ \A S \in SUBSET Slots :
         IsFiniteSet(S) /\ Cardinality(S) \in Nat /\ Cardinality(S) =< Width
<1>1. IsFiniteSet(Slots)
  BY ToolAgentsAssumption
<1>2. Width \in Nat
  BY <1>1, FS_CardinalityType DEF Width
<1>3. ASSUME NEW S \in SUBSET Slots
      PROVE  IsFiniteSet(S) /\ Cardinality(S) \in Nat /\ Cardinality(S) =< Width
  BY <1>1, FS_Subset, FS_CardinalityType DEF Width
<1> QED BY <1>2, <1>3

\* A slot more, a slot less.
LEMMA OneSlot ==
  ASSUME NEW S \in SUBSET Slots, NEW s \in Slots
  PROVE  /\ s \notin S => Cardinality(S \cup {s}) = Cardinality(S) + 1
         /\ s \in S => Cardinality(S \ {s}) = Cardinality(S) - 1 /\ Cardinality(S) > 0
<1>1. IsFiniteSet(S) /\ Cardinality(S) \in Nat
  BY SlotSets
<1>2. s \notin S => Cardinality(S \cup {s}) = Cardinality(S) + 1
  BY <1>1, FS_AddElement
<1>3. s \in S => Cardinality(S \ {s}) = Cardinality(S) - 1
  BY <1>1, FS_RemoveElement
<1>4. s \in S => Cardinality(S) > 0
  BY <1>1, FS_EmptySet
<1> QED BY <1>2, <1>3, <1>4

\* A round more still fits.
LEMMA RoundsFit ==
  ASSUME NEW r \in Nat, r < MaxRounds
  PROVE  /\ r * Width \in Nat /\ (r + 1) * Width = r * Width + Width
         /\ r * Width + Width =< MaxRounds * Width /\ MaxRounds * Width \in Nat
<1>1. Width \in Nat /\ MaxRounds \in Nat
  BY SlotSets, ToolAgentsAssumption
<1>2. (r + 1) * Width = r * Width + Width
  BY <1>1
<1>3. \A i, j, k \in Nat : i =< j => i * k =< j * k
  OBVIOUS
<1>4. (r + 1) * Width =< MaxRounds * Width
  BY <1>1, <1>3
<1>5. r * Width \in Nat /\ MaxRounds * Width \in Nat
  BY <1>1
<1> QED BY <1>2, <1>4, <1>5

\* At first no tool is called.
LEMMA ToolAgentsStart == ToolAgentsInit => ToolAgentsInv
<1> SUFFICES ASSUME ToolAgentsInit PROVE ToolAgentsInv
  OBVIOUS
<1>1. /\ 0 \in 0..MaxRounds /\ 0 \in 0..PoolSize /\ 0 \in 0..MaxRuns
      /\ 0 \in 0..(MaxRounds * Width)
  <2>1. 0 < MaxRounds /\ MaxRounds \in Nat /\ PoolSize \in Nat /\ MaxRuns \in Nat
    BY ToolAgentsAssumption
  <2>2. MaxRounds * Width \in Nat
    BY <2>1, RoundsFit
  <2> QED BY <2>1, <2>2
<1>2. NoToolCall \in CallRow /\ NoToolCall.state = "none"
  BY DEF NoToolCall, CallRow, CallStates
<1>3. toolCall \in [Agents -> SlotCalls] /\ \A a \in Agents, s \in Slots : toolCall[a][s] = NoToolCall
  BY <1>2 DEF ToolAgentsInit, SlotCalls
<1>4. ToolAgentsTypeOK
  BY <1>1, <1>3
     DEF ToolAgentsInit, ToolAgentsTypeOK, SlotCalls, CallRow, CallStates, AgentPC, Width
<1>5. ConnectionsCounted
  <2>1. \A w \in Workers : RunningCalls(w) = {}
    BY <1>2, <1>3 DEF RunningCalls, Agents
  <2> QED BY <2>1, FS_EmptySet DEF ConnectionsCounted, ToolAgentsInit
<1> QED BY <1>3, <1>4, <1>5
        DEF ToolAgentsInv, ToolAgentsInit, CallsOfTheRound, RoundsLeft, InsightsCounted, Agents

\* What type correctness says of one agent.
LEMMA AgentTyped ==
  ASSUME ToolAgentsTypeOK, NEW a \in Agents
  PROVE  /\ agent \in [Agents -> AgentPC] /\ agent[a] \in AgentPC
         /\ round \in [Agents -> 0..MaxRounds] /\ round[a] \in Nat
         /\ toolCall \in [Agents -> SlotCalls] /\ toolCall[a] \in SlotCalls
         /\ MaxRounds \in Nat
<1>1. MaxRounds \in Nat
  BY ToolAgentsAssumption
<1>2. /\ agent \in [Agents -> AgentPC] /\ round \in [Agents -> 0..MaxRounds]
      /\ toolCall \in [Agents -> SlotCalls]
  BY DEF ToolAgentsTypeOK, SlotCalls, CallRow, CallStates
<1> QED BY <1>1, <1>2

\* An agent between its rounds goes somewhere: no call is touched.
LEMMA AgentMoves ==
  ASSUME ToolAgentsInv, NEW a \in Agents,
         Begin(a) \/ ModelReplies(a) \/ BadArguments(a) \/ ModelFails(a)
  PROVE  ToolAgentsInv'
<1> USE DEF ToolAgentsInv
<1>1. UNCHANGED <<toolCall, database, waiting, tuned, audited>>
  BY DEF Begin, ModelReplies, BadArguments, ModelFails
<1>2. /\ agent \in [Agents -> AgentPC] /\ round \in [Agents -> 0..MaxRounds]
      /\ MaxRounds \in Nat
  BY AgentTyped
<1>3. PICK to \in AgentPC \ {"calling"} :
         /\ agent' = [agent EXCEPT ![a] = to] /\ agent[a] # "calling"
         /\ to = "asking" => Begin(a)
  BY DEF Begin, ModelReplies, BadArguments, ModelFails, AgentPC, After
<1>4. /\ agent' \in [Agents -> AgentPC] /\ agent'[a] = to
      /\ \A b \in Agents \ {a} : agent'[b] = agent[b]
  BY <1>2, <1>3
<1>5. /\ round' \in [Agents -> 0..MaxRounds] /\ (to = "asking" => round'[a] = 0)
      /\ \A b \in Agents \ {a} : round'[b] = round[b]
  <2>1. CASE round' = [round EXCEPT ![a] = 0]
    BY <2>1, <1>2
  <2>2. CASE UNCHANGED round /\ ~Begin(a)
    BY <2>2, <1>2, <1>3
  <2> QED BY <2>1, <2>2 DEF Begin, ModelReplies, BadArguments, ModelFails
<1>6. /\ (/\ insights \in [Workers -> 0..(MaxRounds * Width)]
          /\ kept \in [Workers -> 0..(MaxRounds * Width)])'
      /\ \A w \in Workers \ {a} : insights'[w] = insights[w]
      /\ to = "asking" /\ a \in Workers => insights'[a] = 0
  <2>1. 0 \in 0..(MaxRounds * Width)
    BY ToolAgentsAssumption, RoundsFit
  <2>2. insights \in [Workers -> 0..(MaxRounds * Width)] /\ kept \in [Workers -> 0..(MaxRounds * Width)]
    BY DEF ToolAgentsTypeOK, Width
  <2>3. /\ \/ insights' = [w \in Workers |-> IF w = a THEN 0 ELSE insights[w]]
           \/ UNCHANGED insights /\ ~Begin(a)
        /\ \/ kept' = [w \in Workers |-> IF w = a THEN 0 ELSE kept[w]]
           \/ UNCHANGED kept
    BY DEF Begin, ModelReplies, BadArguments, ModelFails
  <2> QED BY <2>1, <2>2, <2>3, <1>3
<1>7. (runs \in [Workers -> 0..MaxRuns])'
  <2>1. runs \in [Workers -> 0..MaxRuns] /\ MaxRuns \in Nat
    BY ToolAgentsAssumption DEF ToolAgentsTypeOK
  <2>2. CASE Begin(a)
    <3>1. a \in Workers => runs[a] + 1 \in 0..MaxRuns
      BY <2>1, <2>2 DEF Begin
    <3> QED BY <2>1, <2>2, <3>1 DEF Begin
  <2>3. CASE UNCHANGED runs
    BY <2>1, <2>3
  <2> QED BY <2>2, <2>3 DEF ModelReplies, BadArguments, ModelFails
<1>8. ToolAgentsTypeOK'
  BY <1>1, <1>4, <1>5, <1>6, <1>7 DEF ToolAgentsTypeOK, Width
<1>9. CallsOfTheRound'
  BY <1>1, <1>3, <1>4 DEF CallsOfTheRound
<1>10. ConnectionsCounted'
  BY <1>1 DEF ConnectionsCounted, RunningCalls
<1>11. RoundsLeft'
  BY <1>4, <1>5, <1>3, ToolAgentsAssumption DEF RoundsLeft
<1>12. InsightsCounted'
  <2> SUFFICES ASSUME NEW w \in Workers, agent'[w] \in {"asking", "calling"}
               PROVE  insights'[w] =< round'[w] * Width + Cardinality(GoodCalls(w)')
    BY DEF InsightsCounted
  <2>1. GoodCalls(w)' = GoodCalls(w) /\ Cardinality(GoodCalls(w)) \in Nat /\ w \in Agents
    BY <1>1, SlotSets DEF GoodCalls, Agents
  <2>2. CASE w = a
    <3>1. insights'[w] = 0 /\ round'[w] = 0
      BY <2>2, <1>3, <1>4, <1>5, <1>6
    <3>2. 0 * Width = 0
      BY SlotSets
    <3> QED BY <2>1, <3>1, <3>2
  <2>3. CASE w # a
    BY <2>1, <2>3, <1>4, <1>5, <1>6 DEF InsightsCounted
  <2> QED BY <2>2, <2>3
<1> QED BY <1>8, <1>9, <1>10, <1>11, <1>12

\* The round begins, or is over: no call runs before or after.
LEMMA AgentRound ==
  ASSUME ToolAgentsInv, NEW a \in Agents, ModelCalls(a) \/ Collect(a)
  PROVE  ToolAgentsInv'
<1> USE DEF ToolAgentsInv
<1>1. UNCHANGED <<database, waiting, insights, kept, tuned, audited, runs>>
  BY DEF ModelCalls, Collect
<1>2. /\ agent \in [Agents -> AgentPC] /\ round \in [Agents -> 0..MaxRounds]
      /\ toolCall \in [Agents -> SlotCalls] /\ MaxRounds \in Nat /\ round[a] \in Nat
  BY AgentTyped
<1>3. NoToolCall \in CallRow /\ NoToolCall.state = "none"
  BY DEF NoToolCall, CallRow, CallStates
<1>4. PICK calls \in SlotCalls :
         /\ toolCall' = [toolCall EXCEPT ![a] = calls]
         /\ \A s \in Slots : calls[s].state \in {"none", "called"}
         /\ Collect(a) => \A s \in Slots : calls[s] = NoToolCall
  <2>1. CASE ModelCalls(a)
    <3>1. PICK tools \in [Slots -> ToolsOf(a) \cup {NoTool}] :
             toolCall' = [toolCall EXCEPT ![a] = [s \in Slots |->
                IF tools[s] = NoTool THEN NoToolCall
                ELSE [tool |-> tools[s], state |-> "called"]]]
      BY <2>1 DEF ModelCalls
    <3> DEFINE calls == [s \in Slots |-> IF tools[s] = NoTool THEN NoToolCall
                                         ELSE [tool |-> tools[s], state |-> "called"]]
    <3>2. ASSUME NEW s \in Slots
          PROVE  calls[s] \in CallRow /\ calls[s].state \in {"none", "called"}
      <4>1. tools[s] \in ChatTools \cup WorkerTools \cup {NoTool}
        BY DEF ToolsOf
      <4>2. [tool |-> tools[s], state |-> "called"] \in CallRow
        BY <4>1 DEF CallRow, CallStates
      <4> QED BY <4>2, <1>3
    <3>3. calls \in SlotCalls
      BY <3>2 DEF SlotCalls
    <3>4. ~Collect(a)
      BY <2>1 DEF ModelCalls, Collect
    <3> QED BY <3>1, <3>2, <3>3, <3>4
  <2>2. CASE Collect(a)
    <3> DEFINE calls == [s \in Slots |-> NoToolCall]
    <3>1. calls \in SlotCalls
      BY <1>3 DEF SlotCalls
    <3> QED BY <2>2, <3>1, <1>3 DEF Collect
  <2> QED BY <2>1, <2>2
<1>5. /\ toolCall' \in [Agents -> SlotCalls] /\ toolCall'[a] = calls
      /\ \A b \in Agents \ {a} : toolCall'[b] = toolCall[b]
  BY <1>2, <1>4
<1>6. \A s \in Slots : toolCall[a][s].state # "running"
  <2>1. CASE ModelCalls(a)
    BY <2>1, <1>3 DEF ModelCalls, CallsOfTheRound
  <2>2. CASE Collect(a)
    BY <2>2 DEF Collect, Finished
  <2> QED BY <2>1, <2>2
<1>7. agent[a] \in {"asking", "calling"} /\ round[a] < MaxRounds
  BY DEF ModelCalls, Collect, RoundsLeft
<1>8. PICK to \in AgentPC, r \in 0..MaxRounds :
         /\ agent' = [agent EXCEPT ![a] = to] /\ round' = [round EXCEPT ![a] = r]
         /\ to \in {"asking", "calling"} => r < MaxRounds
         /\ to = "calling" => ~Collect(a)
         /\ ModelCalls(a) => r = round[a]
         /\ Collect(a) => r = round[a] + 1
  <2>1. CASE ModelCalls(a)
    <3>1. round = [round EXCEPT ![a] = round[a]] /\ ~Collect(a)
      BY <1>2, <2>1 DEF ModelCalls, Collect
    <3> QED BY <1>2, <1>7, <2>1, <3>1 DEF ModelCalls, AgentPC
  <2>2. CASE Collect(a)
    <3>1. round[a] + 1 \in 0..MaxRounds /\ (round[a] + 1 # MaxRounds => round[a] + 1 < MaxRounds)
      BY <1>2, <1>7
    <3>2. round' = [round EXCEPT ![a] = round[a] + 1] /\ round'[a] = round[a] + 1
      BY <1>2, <2>2 DEF Collect
    <3>3. agent' = [agent EXCEPT ![a] = IF round[a] + 1 = MaxRounds THEN After(a) ELSE "asking"]
      BY <2>2, <3>2 DEF Collect
    <3>4. ~ModelCalls(a) /\ After(a) \in {"replied", "flushing"}
      BY <2>2 DEF Collect, ModelCalls, After
    <3> DEFINE to == IF round[a] + 1 = MaxRounds THEN After(a) ELSE "asking"
    <3>5. to \in AgentPC /\ to # "calling" /\ (to = "asking" => round[a] + 1 < MaxRounds)
      BY <3>1, <3>4 DEF AgentPC
    <3> QED BY <2>2, <3>1, <3>2, <3>3, <3>4, <3>5
  <2> QED BY <2>1, <2>2
<1>9. /\ agent' \in [Agents -> AgentPC] /\ agent'[a] = to
      /\ round' \in [Agents -> 0..MaxRounds] /\ round'[a] = r
      /\ \A b \in Agents \ {a} : agent'[b] = agent[b] /\ round'[b] = round[b]
  BY <1>2, <1>8
<1>10. ToolAgentsTypeOK'
  BY <1>1, <1>5, <1>9 DEF ToolAgentsTypeOK, SlotCalls, CallRow, CallStates
<1>11. CallsOfTheRound'
  <2>1. to # "calling" => Collect(a)
    BY <1>9 DEF ModelCalls, Collect
  <2> QED BY <2>1, <1>4, <1>5, <1>9 DEF CallsOfTheRound
<1>12. \A b \in Agents : RunningCalls(b)' = RunningCalls(b)
  BY <1>4, <1>5, <1>6 DEF RunningCalls
<1>13. ConnectionsCounted'
  BY <1>1, <1>12 DEF ConnectionsCounted, Agents
<1>14. RoundsLeft'
  BY <1>8, <1>9 DEF RoundsLeft
<1>15. InsightsCounted'
  <2> SUFFICES ASSUME NEW w \in Workers, agent'[w] \in {"asking", "calling"}
               PROVE  insights[w] =< round'[w] * Width + Cardinality(GoodCalls(w)')
    BY <1>1 DEF InsightsCounted
  <2>1. /\ Cardinality(GoodCalls(w)) \in Nat /\ Cardinality(GoodCalls(w)') \in Nat
        /\ Cardinality(GoodCalls(w)) =< Width /\ Width \in Nat /\ w \in Agents
    BY SlotSets DEF GoodCalls, Agents
  <2>2. insights[w] \in Nat
    <3>1. insights[w] \in 0..(MaxRounds * Width)
      BY DEF ToolAgentsTypeOK, Width
    <3> QED BY <3>1
  <2>3. CASE w # a
    <3>1. GoodCalls(w)' = GoodCalls(w)
      BY <2>1, <2>3, <1>5 DEF GoodCalls
    <3> QED BY <2>1, <2>3, <3>1, <1>9 DEF InsightsCounted
  <2>4. CASE w = a
    <3>1. insights[a] =< round[a] * Width + Cardinality(GoodCalls(a))
      BY <2>4, <1>7 DEF InsightsCounted
    <3>2. round[a] * Width \in Nat /\ (round[a] + 1) * Width = round[a] * Width + Width
      BY <1>2, <1>7, RoundsFit
    <3>3. CASE ModelCalls(a)
      <4>1. GoodCalls(a) = {}
        BY <3>3, <1>3 DEF GoodCalls, ModelCalls, CallsOfTheRound
      <4>2. Cardinality(GoodCalls(a)) = 0
        BY <4>1, FS_EmptySet
      <4>3. r = round[a]
        BY <3>3, <1>8
      <4> QED BY <2>1, <2>2, <2>4, <3>1, <3>2, <4>2, <4>3, <1>9
    <3>4. CASE Collect(a)
      <4>1. r = round[a] + 1
        BY <3>4, <1>8
      <4>2. insights[a] =< (round[a] + 1) * Width
        BY <2>1, <2>2, <2>4, <3>1, <3>2
      <4> QED BY <2>1, <2>2, <2>4, <3>2, <4>1, <4>2, <1>9
    <3> QED BY <3>3, <3>4
  <2> QED BY <2>3, <2>4
<1> QED BY <1>10, <1>11, <1>13, <1>14, <1>15

\* One call goes on to "running" or ends; what else the step says of it.
LEMMA SlotStep ==
  ASSUME ToolAgentsInv, NEW a \in Agents, NEW s \in Slots,
         NEW e \in {"running", "ok", "fault", "blamed"}, End(a, s, e),
         toolCall[a][s].state \in {"called", "running"},
         UNCHANGED <<agent, round>>
  PROVE  /\ (toolCall \in [Agents -> SlotCalls])' /\ CallsOfTheRound' /\ RoundsLeft'
         /\ agent[a] = "calling"
         /\ \A b \in Agents \ {a} : /\ RunningCalls(b)' = RunningCalls(b)
                                   /\ GoodCalls(b)' = GoodCalls(b)
         /\ RunningCalls(a)' = IF e = "running" THEN RunningCalls(a) \cup {s}
                               ELSE RunningCalls(a) \ {s}
         /\ GoodCalls(a)' = IF e = "ok" THEN GoodCalls(a) \cup {s} ELSE GoodCalls(a)
         /\ s \notin GoodCalls(a)
         /\ s \in RunningCalls(a) <=> toolCall[a][s].state = "running"
<1>1. /\ agent \in [Agents -> AgentPC] /\ round \in [Agents -> 0..MaxRounds]
      /\ toolCall \in [Agents -> SlotCalls]
  BY AgentTyped DEF ToolAgentsInv
<1> DEFINE n == [toolCall[a][s] EXCEPT !.state = e]
<1>2. n \in CallRow /\ n.state = e
  <2>1. toolCall[a][s] \in CallRow
    BY <1>1 DEF SlotCalls
  <2>2. e \in CallStates
    BY DEF CallStates
  <2> QED BY <2>1, <2>2 DEF CallRow
<1>3. toolCall' = [toolCall EXCEPT ![a] = [toolCall[a] EXCEPT ![s] = n]]
  BY DEF End
<1> HIDE DEF n
<1>4. [toolCall[a] EXCEPT ![s] = n] \in SlotCalls
  BY <1>1, <1>2 DEF SlotCalls
<1>5. /\ toolCall' \in [Agents -> SlotCalls]
      /\ \A b \in Agents \ {a} : toolCall'[b] = toolCall[b]
      /\ toolCall'[a][s] = n
      /\ \A t \in Slots \ {s} : toolCall'[a][t] = toolCall[a][t]
  <2>1. toolCall'[a] = [toolCall[a] EXCEPT ![s] = n] /\ toolCall[a] \in SlotCalls
    BY <1>1, <1>3
  <2>2. toolCall'[a][s] = n /\ \A t \in Slots \ {s} : toolCall'[a][t] = toolCall[a][t]
    BY <2>1 DEF SlotCalls
  <2> QED BY <1>1, <1>3, <1>4, <2>2
<1>6. agent[a] = "calling"
  <2>1. NoToolCall.state = "none"
    BY DEF NoToolCall
  <2> QED BY <2>1 DEF ToolAgentsInv, CallsOfTheRound
<1>7. CallsOfTheRound' /\ RoundsLeft'
  BY <1>5, <1>6 DEF ToolAgentsInv, CallsOfTheRound, RoundsLeft
<1>8. RunningCalls(a)' = IF e = "running" THEN RunningCalls(a) \cup {s}
                         ELSE RunningCalls(a) \ {s}
  BY <1>2, <1>5 DEF RunningCalls
<1>9. GoodCalls(a)' = IF e = "ok" THEN GoodCalls(a) \cup {s} ELSE GoodCalls(a)
  BY <1>2, <1>5 DEF GoodCalls
<1>10. \A b \in Agents \ {a} : RunningCalls(b)' = RunningCalls(b) /\ GoodCalls(b)' = GoodCalls(b)
  BY <1>5 DEF RunningCalls, GoodCalls
<1>11. s \notin GoodCalls(a) /\ (s \in RunningCalls(a) <=> toolCall[a][s].state = "running")
  BY DEF GoodCalls, RunningCalls
<1> QED BY <1>5, <1>6, <1>7, <1>8, <1>9, <1>10, <1>11

\* What a call that ends well lets its worker count.
LEMMA InsightsStay ==
  ASSUME ToolAgentsInv, NEW a \in Agents, NEW s \in Slots, NEW e,
         \A b \in Agents \ {a} : GoodCalls(b)' = GoodCalls(b),
         GoodCalls(a)' = IF e = "ok" THEN GoodCalls(a) \cup {s} ELSE GoodCalls(a),
         s \notin GoodCalls(a), UNCHANGED <<agent, round, insights>>
  PROVE  InsightsCounted'
<1> SUFFICES ASSUME NEW w \in Workers, agent[w] \in {"asking", "calling"}
             PROVE  insights[w] =< round[w] * Width + Cardinality(GoodCalls(w)')
  BY DEF InsightsCounted
<1>1. /\ Cardinality(GoodCalls(w)) \in Nat /\ Cardinality(GoodCalls(w)') \in Nat
      /\ w \in Agents /\ GoodCalls(w) \in SUBSET Slots
  BY SlotSets DEF GoodCalls, Agents
<1>2. Cardinality(GoodCalls(w)) =< Cardinality(GoodCalls(w)')
  <2>1. CASE w = a /\ e = "ok"
    BY <1>1, <2>1, OneSlot
  <2>2. CASE ~(w = a /\ e = "ok")
    BY <1>1, <2>2
  <2> QED BY <2>1, <2>2
<1>3. insights[w] =< round[w] * Width + Cardinality(GoodCalls(w))
  BY DEF ToolAgentsInv, InsightsCounted
<1>4. insights[w] \in Nat
  <2>1. insights[w] \in 0..(MaxRounds * Width)
    BY DEF ToolAgentsInv, ToolAgentsTypeOK, Width
  <2> QED BY <2>1
<1>5. round[w] * Width \in Nat
  BY <1>1, AgentTyped, RoundsFit DEF ToolAgentsInv, RoundsLeft
<1> QED BY <1>1, <1>2, <1>3, <1>4, <1>5

\* A tool that needs no connection of a worker's pool: the note about health,
\* telemetry, a chat's statement.
LEMMA PlainStep ==
  ASSUME ToolAgentsInv, NEW a \in Agents, NEW s \in Slots,
         PlainTool(a, s) \/ ChatEnters(a, s) \/ ChatStatement(a, s)
  PROVE  ToolAgentsInv'
<1>1. UNCHANGED <<agent, round, waiting, insights, kept, tuned, audited, runs>>
  BY DEF PlainTool, ChatEnters, ChatStatement
<1>2. PICK e \in {"running", "ok", "fault", "blamed"} :
         End(a, s, e) /\ (PlainTool(a, s) => e # "running")
  <2>1. CASE PlainTool(a, s)
    BY <2>1 DEF PlainTool
  <2>2. CASE ~PlainTool(a, s)
    BY <2>2 DEF ChatEnters, ChatStatement
  <2> QED BY <2>1, <2>2
<1>3. toolCall[a][s].state \in {"called", "running"}
  BY DEF PlainTool, ChatEnters, ChatStatement
<1>4. (database \in [Chats -> {"fresh", "connecting", "open", "broken"}])'
  <2>1. database \in [Chats -> {"fresh", "connecting", "open", "broken"}]
    BY DEF ToolAgentsInv, ToolAgentsTypeOK
  <2>2. \/ UNCHANGED database
        \/ \E d \in {"fresh", "connecting", "open", "broken"} :
              database' = [database EXCEPT ![a] = d]
    BY DEF PlainTool, ChatEnters, ChatStatement
  <2> QED BY <2>1, <2>2
<1>5. /\ (toolCall \in [Agents -> SlotCalls])' /\ CallsOfTheRound' /\ RoundsLeft'
      /\ \A b \in Agents \ {a} : /\ RunningCalls(b)' = RunningCalls(b)
                                /\ GoodCalls(b)' = GoodCalls(b)
      /\ RunningCalls(a)' = IF e = "running" THEN RunningCalls(a) \cup {s}
                            ELSE RunningCalls(a) \ {s}
      /\ GoodCalls(a)' = IF e = "ok" THEN GoodCalls(a) \cup {s} ELSE GoodCalls(a)
      /\ s \notin GoodCalls(a)
      /\ s \in RunningCalls(a) <=> toolCall[a][s].state = "running"
  BY <1>1, <1>2, <1>3, SlotStep
<1>6. ToolAgentsTypeOK'
  BY <1>1, <1>4, <1>5 DEF ToolAgentsInv, ToolAgentsTypeOK, SlotCalls, CallRow, CallStates
<1>7. \A w \in Workers : RunningCalls(w)' = RunningCalls(w)
  <2>1. a \in Workers => PlainTool(a, s)
    BY ToolAgentsAssumption DEF ChatEnters, ChatStatement
  <2>2. PlainTool(a, s) => toolCall[a][s].state # "running"
    BY DEF PlainTool
  <2> QED BY <1>2, <1>5, <2>1, <2>2 DEF Agents
<1>8. ConnectionsCounted'
  BY <1>1, <1>7 DEF ToolAgentsInv, ConnectionsCounted
<1>9. InsightsCounted'
  BY <1>1, <1>5, InsightsStay
<1> QED BY <1>5, <1>6, <1>8, <1>9 DEF ToolAgentsInv

\* A worker's statement takes a connection, or finds none free.
LEMMA WorkerEntersStep ==
  ASSUME ToolAgentsInv, NEW w \in Workers, NEW s \in Slots, WorkerEnters(w, s)
  PROVE  ToolAgentsInv'
<1>1. /\ UNCHANGED <<agent, round, database, insights, kept, tuned, audited, runs>>
      /\ toolCall[w][s].state = "called" /\ w \in Agents
  BY DEF WorkerEnters, Agents
<1>2. PICK e \in {"running", "blamed"} :
         /\ End(w, s, e)
         /\ e = "running" => /\ waiting[w] < PoolSize
                             /\ waiting' = [waiting EXCEPT ![w] = waiting[w] + 1]
         /\ e = "blamed" => UNCHANGED waiting
  BY DEF WorkerEnters
<1>3. waiting \in [Workers -> 0..PoolSize] /\ PoolSize \in Nat
  BY ToolAgentsAssumption DEF ToolAgentsInv, ToolAgentsTypeOK
<1>4. /\ (toolCall \in [Agents -> SlotCalls])' /\ CallsOfTheRound' /\ RoundsLeft'
      /\ \A b \in Agents \ {w} : /\ RunningCalls(b)' = RunningCalls(b)
                                /\ GoodCalls(b)' = GoodCalls(b)
      /\ RunningCalls(w)' = IF e = "running" THEN RunningCalls(w) \cup {s}
                            ELSE RunningCalls(w) \ {s}
      /\ GoodCalls(w)' = IF e = "ok" THEN GoodCalls(w) \cup {s} ELSE GoodCalls(w)
      /\ s \notin GoodCalls(w) /\ s \notin RunningCalls(w)
  BY <1>1, <1>2, SlotStep
<1>5. (waiting \in [Workers -> 0..PoolSize])'
  BY <1>2, <1>3
<1>6. ToolAgentsTypeOK'
  BY <1>1, <1>4, <1>5 DEF ToolAgentsInv, ToolAgentsTypeOK, SlotCalls, CallRow, CallStates
<1>7. ConnectionsCounted'
  <2> SUFFICES ASSUME NEW v \in Workers
               PROVE  waiting'[v] = Cardinality(RunningCalls(v)')
    BY DEF ConnectionsCounted
  <2>1. waiting[v] = Cardinality(RunningCalls(v)) /\ RunningCalls(v) \in SUBSET Slots
        /\ v \in Agents
    BY DEF ToolAgentsInv, ConnectionsCounted, RunningCalls, Agents
  <2>2. CASE v = w /\ e = "running"
    <3>1. Cardinality(RunningCalls(w)') = Cardinality(RunningCalls(w)) + 1
      BY <1>4, <2>1, <2>2, OneSlot
    <3> QED BY <3>1, <2>1, <2>2, <1>2, <1>3
  <2>3. CASE ~(v = w /\ e = "running")
    <3>1. RunningCalls(v)' = RunningCalls(v) /\ waiting'[v] = waiting[v]
      BY <2>1, <2>3, <1>2, <1>3, <1>4
    <3> QED BY <2>1, <3>1
  <2> QED BY <2>2, <2>3
<1>8. InsightsCounted'
  BY <1>1, <1>4, InsightsStay
<1> QED BY <1>4, <1>6, <1>7, <1>8 DEF ToolAgentsInv

\* It ends, and gives its connection back.
LEMMA WorkerEndsStep ==
  ASSUME ToolAgentsInv, NEW w \in Workers, NEW s \in Slots,
         WorkerStatement(w, s) \/ Tune(w, s)
  PROVE  ToolAgentsInv'
<1>1. /\ UNCHANGED <<agent, round, database, insights, kept, runs>>
      /\ toolCall[w][s].state = "running" /\ w \in Agents
      /\ waiting' = [waiting EXCEPT ![w] = waiting[w] - 1]
  BY DEF WorkerStatement, Tune, Agents
<1>2. PICK e \in {"ok", "fault"} : End(w, s, e)
  BY DEF WorkerStatement, Tune
<1>3. waiting \in [Workers -> 0..PoolSize] /\ PoolSize \in Nat
  BY ToolAgentsAssumption DEF ToolAgentsInv, ToolAgentsTypeOK
<1>4. /\ (toolCall \in [Agents -> SlotCalls])' /\ CallsOfTheRound' /\ RoundsLeft'
      /\ \A b \in Agents \ {w} : /\ RunningCalls(b)' = RunningCalls(b)
                                /\ GoodCalls(b)' = GoodCalls(b)
      /\ RunningCalls(w)' = RunningCalls(w) \ {s}
      /\ GoodCalls(w)' = IF e = "ok" THEN GoodCalls(w) \cup {s} ELSE GoodCalls(w)
      /\ s \notin GoodCalls(w) /\ s \in RunningCalls(w)
  BY <1>1, <1>2, SlotStep
<1>5. /\ waiting[w] = Cardinality(RunningCalls(w)) /\ waiting[w] > 0
      /\ Cardinality(RunningCalls(w) \ {s}) = Cardinality(RunningCalls(w)) - 1
  <2>1. RunningCalls(w) \in SUBSET Slots
    BY DEF RunningCalls
  <2>2. waiting[w] = Cardinality(RunningCalls(w))
    BY DEF ToolAgentsInv, ConnectionsCounted
  <2> QED BY <2>1, <2>2, <1>4, OneSlot
<1>6. (waiting \in [Workers -> 0..PoolSize])'
  BY <1>1, <1>3, <1>5
<1>7. (tuned \in BOOLEAN /\ audited \in BOOLEAN)'
  BY DEF WorkerStatement, Tune, ToolAgentsInv, ToolAgentsTypeOK
<1>8. ToolAgentsTypeOK'
  BY <1>1, <1>4, <1>6, <1>7 DEF ToolAgentsInv, ToolAgentsTypeOK, SlotCalls, CallRow, CallStates
<1>9. ConnectionsCounted'
  <2> SUFFICES ASSUME NEW v \in Workers
               PROVE  waiting'[v] = Cardinality(RunningCalls(v)')
    BY DEF ConnectionsCounted
  <2>1. CASE v = w
    BY <2>1, <1>1, <1>3, <1>4, <1>5
  <2>2. CASE v # w
    <3>1. RunningCalls(v)' = RunningCalls(v) /\ waiting'[v] = waiting[v]
      BY <2>2, <1>1, <1>3, <1>4 DEF Agents
    <3> QED BY <3>1 DEF ToolAgentsInv, ConnectionsCounted
  <2> QED BY <2>1, <2>2
<1>10. InsightsCounted'
  BY <1>1, <1>4, InsightsStay
<1> QED BY <1>4, <1>8, <1>9, <1>10 DEF ToolAgentsInv

\* An insight more, and a call more that ended well.
LEMMA RecordStep ==
  ASSUME ToolAgentsInv, NEW w \in Workers, NEW s \in Slots, RecordInsight(w, s)
  PROVE  ToolAgentsInv'
<1>1. /\ UNCHANGED <<agent, round, database, waiting, kept, tuned, audited, runs>>
      /\ toolCall[w][s].state = "called" /\ w \in Agents
      /\ insights' = [insights EXCEPT ![w] = insights[w] + 1] /\ End(w, s, "ok")
  BY DEF RecordInsight, Agents
<1>2. /\ (toolCall \in [Agents -> SlotCalls])' /\ CallsOfTheRound' /\ RoundsLeft'
      /\ agent[w] = "calling"
      /\ \A b \in Agents \ {w} : /\ RunningCalls(b)' = RunningCalls(b)
                                /\ GoodCalls(b)' = GoodCalls(b)
      /\ RunningCalls(w)' = RunningCalls(w)
      /\ GoodCalls(w)' = GoodCalls(w) \cup {s} /\ s \notin GoodCalls(w)
  BY <1>1, SlotStep, ZenonT(60)
<1>3. /\ insights \in [Workers -> 0..(MaxRounds * Width)]
      /\ kept \in [Workers -> 0..(MaxRounds * Width)]
  BY DEF ToolAgentsInv, ToolAgentsTypeOK, Width
<1>4. round[w] \in Nat /\ round[w] < MaxRounds
  BY <1>1, <1>2, AgentTyped DEF ToolAgentsInv, RoundsLeft
<1>5. /\ round[w] * Width \in Nat /\ round[w] * Width + Width =< MaxRounds * Width
      /\ MaxRounds * Width \in Nat
  BY <1>4, RoundsFit
<1>6. /\ Cardinality(GoodCalls(w)') = Cardinality(GoodCalls(w)) + 1
      /\ Cardinality(GoodCalls(w)') =< Width /\ Cardinality(GoodCalls(w)) \in Nat
      /\ Width \in Nat
  <2>1. GoodCalls(w) \in SUBSET Slots /\ GoodCalls(w)' \in SUBSET Slots
    BY DEF GoodCalls
  <2> QED BY <2>1, <1>2, OneSlot, SlotSets
<1>7. insights[w] + 1 =< round[w] * Width + Cardinality(GoodCalls(w)')
  <2>1. insights[w] =< round[w] * Width + Cardinality(GoodCalls(w)) /\ insights[w] \in Nat
    BY <1>2, <1>3 DEF ToolAgentsInv, InsightsCounted
  <2> QED BY <2>1, <1>5, <1>6
<1>8. insights[w] + 1 \in 0..(MaxRounds * Width)
  <2>1. insights[w] \in Nat
    BY <1>3
  <2> QED BY <2>1, <1>5, <1>6, <1>7
<1>9. (insights \in [Workers -> 0..(MaxRounds * Width)])'
  BY <1>1, <1>3, <1>8
<1>10. ToolAgentsTypeOK'
  BY <1>1, <1>2, <1>9 DEF ToolAgentsInv, ToolAgentsTypeOK, SlotCalls, CallRow, CallStates, Width
<1>11. ConnectionsCounted'
  BY <1>1, <1>2 DEF ToolAgentsInv, ConnectionsCounted, Agents
<1>12. InsightsCounted'
  <2> SUFFICES ASSUME NEW v \in Workers, agent[v] \in {"asking", "calling"}
               PROVE  insights'[v] =< round[v] * Width + Cardinality(GoodCalls(v)')
    BY <1>1 DEF InsightsCounted
  <2>1. CASE v = w
    BY <2>1, <1>1, <1>3, <1>7
  <2>2. CASE v # w
    BY <2>2, <1>1, <1>2, <1>3 DEF ToolAgentsInv, InsightsCounted, Agents
  <2> QED BY <2>1, <2>2
<1> QED BY <1>2, <1>10, <1>11, <1>12 DEF ToolAgentsInv

\* The worker stores what it has.
LEMMA FlushStep ==
  ASSUME ToolAgentsInv, NEW w \in Workers, FlushOne(w) \/ EndRun(w)
  PROVE  ToolAgentsInv'
<1>1. /\ UNCHANGED <<round, toolCall, database, waiting, tuned, audited, runs>>
      /\ agent[w] = "flushing" /\ w \in Agents
      /\ UNCHANGED agent \/ agent' = [agent EXCEPT ![w] = "idle"]
  BY DEF FlushOne, EndRun, Agents
<1>2. /\ agent \in [Agents -> AgentPC]
      /\ insights \in [Workers -> 0..(MaxRounds * Width)]
      /\ kept \in [Workers -> 0..(MaxRounds * Width)]
  BY DEF ToolAgentsInv, ToolAgentsTypeOK, Width
<1>3. MaxRounds * Width \in Nat
  BY RoundsFit, ToolAgentsAssumption
<1>4. /\ agent' \in [Agents -> AgentPC] /\ agent'[w] \in {"idle", "flushing"}
      /\ \A b \in Agents \ {w} : agent'[b] = agent[b]
  BY <1>1, <1>2 DEF AgentPC
<1>5. /\ insights' \in [Workers -> 0..(MaxRounds * Width)]
      /\ kept' \in [Workers -> 0..(MaxRounds * Width)]
      /\ \A v \in Workers \ {w} : insights'[v] = insights[v]
  BY <1>2, <1>3 DEF FlushOne, EndRun
<1>6. ToolAgentsTypeOK'
  BY <1>1, <1>4, <1>5 DEF ToolAgentsInv, ToolAgentsTypeOK, Width
<1>7. CallsOfTheRound'
  BY <1>1, <1>4 DEF ToolAgentsInv, CallsOfTheRound
<1>8. ConnectionsCounted'
  BY <1>1 DEF ToolAgentsInv, ConnectionsCounted, RunningCalls
<1>9. RoundsLeft'
  BY <1>1, <1>4 DEF ToolAgentsInv, RoundsLeft
<1>10. InsightsCounted'
  BY <1>1, <1>4, <1>5 DEF ToolAgentsInv, InsightsCounted, GoodCalls, Agents
<1> QED BY <1>6, <1>7, <1>8, <1>9, <1>10 DEF ToolAgentsInv

\* Each step of the agents preserves the invariant.
LEMMA ToolAgentsStep == ToolAgentsInv /\ [ToolAgentsNext]_agentVars => ToolAgentsInv'
<1> SUFFICES ASSUME ToolAgentsInv, [ToolAgentsNext]_agentVars PROVE ToolAgentsInv'
  OBVIOUS
<1>1. CASE UNCHANGED agentVars
  BY <1>1 DEF agentVars, ToolAgentsInv, ToolAgentsTypeOK, CallsOfTheRound,
              ConnectionsCounted, RoundsLeft, InsightsCounted, RunningCalls, GoodCalls
<1>2. ASSUME NEW a \in Agents, RoundNext(a) PROVE ToolAgentsInv'
  BY <1>2, AgentMoves, AgentRound, PlainStep DEF RoundNext
<1>3. CASE ChatAgentsNext
  BY <1>2, <1>3, PlainStep DEF ChatAgentsNext, Agents
<1>4. CASE WorkersNext
  BY <1>2, <1>4, WorkerEntersStep, WorkerEndsStep, RecordStep, FlushStep
     DEF WorkersNext, Agents
<1> QED BY <1>1, <1>3, <1>4 DEF ToolAgentsNext

\* For any agents, slots and pool size, with tools that fail or never get a
\* connection, no call of a round is under way, waiting or holding a connection
\* once the model is asked again, or the answer is out (the gather in run_agent).
THEOREM ToolsEndWithTheirRound ==
  ToolAgentsSpec => [](ToolAgentsTypeOK /\ NoToolOutlivesItsRound)
<1>1. ToolAgentsInv => ToolAgentsTypeOK /\ NoToolOutlivesItsRound
  <2> SUFFICES ASSUME ToolAgentsInv, NEW w \in Workers, agent[w] # "calling"
               PROVE  waiting[w] = 0
    BY DEF ToolAgentsInv, NoToolOutlivesItsRound, CallsOfTheRound
  <2>1. RunningCalls(w) = {}
    BY DEF ToolAgentsInv, CallsOfTheRound, RunningCalls, NoToolCall, Agents
  <2> QED BY <2>1, FS_EmptySet DEF ToolAgentsInv, ConnectionsCounted
<1> QED BY ToolAgentsStart, ToolAgentsStep, <1>1, PTL DEF ToolAgentsSpec

---------------------------------------------------------------------------
(* MCP over SSE.  A call is on one stream or none, and was queued there by *)
(* the process that holds the stream.                                      *)

USE TransportAssumption

\* A stream of a key that asks for its own answers, and what it carries.
TransportTyped ==
    /\ service \in Services /\ valid \in SUBSET Callers
    /\ stream \in [Streams -> Connected \cup {NoConnection}]
    /\ reply \in [Posts -> Posted \cup {NotPosted}]
Carried(s) == stream[s].sent \o stream[s].queue
StreamsCarryTheirs ==
    \A s \in Streams : stream[s].pc # "none" =>
        /\ IsInjective(Carried(s))
        /\ \A k \in ToSet(Carried(s)) :
              reply[k].pc = "stream" /\ reply[k].to = s /\ reply[k].by = stream[s].by
AnswersAreCarried ==
    \A k \in Posts : reply[k].pc = "stream" =>
        /\ reply[k].to \in Streams /\ stream[reply[k].to].pc # "none"
        /\ stream[reply[k].to].pc = "open" => k \in ToSet(Carried(reply[k].to))
TransportInv == TransportTyped /\ (Bound => StreamsCarryTheirs /\ AnswersAreCarried)

\* Moving the head of a queue to what was sent leaves the whole as it is.
LEMMA DeliveryKeepsOrder ==
  ASSUME NEW S, NEW a \in Seq(S), NEW b \in Seq(S), b # <<>>
  PROVE  Append(a, Head(b)) \o Tail(b) = a \o b
<1> DEFINE l == Append(a, Head(b)) \o Tail(b)
           r == a \o b
<1>1. /\ Head(b) \in S /\ Tail(b) \in Seq(S) /\ Len(Tail(b)) = Len(b) - 1
      /\ \A i \in 1..Len(Tail(b)) : Tail(b)[i] = b[i + 1]
      /\ Head(b) = b[1] /\ Len(b) \in Nat \ {0} /\ Len(a) \in Nat
  BY HeadTailProperties, EmptySeq
<1>2. /\ Append(a, Head(b)) \in Seq(S) /\ Len(Append(a, Head(b))) = Len(a) + 1
      /\ \A i \in 1..Len(a) : Append(a, Head(b))[i] = a[i]
      /\ Append(a, Head(b))[Len(a) + 1] = Head(b)
  BY <1>1, AppendProperties
<1>3. /\ r \in Seq(S) /\ Len(r) = Len(a) + Len(b)
      /\ \A i \in 1..Len(a) + Len(b) : r[i] = IF i <= Len(a) THEN a[i] ELSE b[i - Len(a)]
  BY ConcatProperties
<1>4. /\ l \in Seq(S) /\ Len(l) = Len(a) + 1 + (Len(b) - 1)
      /\ \A i \in 1..(Len(a) + 1) + (Len(b) - 1) :
           l[i] = IF i <= Len(a) + 1 THEN Append(a, Head(b))[i]
                  ELSE Tail(b)[i - (Len(a) + 1)]
  BY <1>1, <1>2, ConcatProperties
<1> HIDE DEF l, r
<1>5. ASSUME NEW i \in 1..Len(l) PROVE l[i] = r[i]
  <2>1. i \in 1..Len(a) + Len(b) /\ i \in 1..(Len(a) + 1) + (Len(b) - 1)
    <3>1. Len(a) + 1 + (Len(b) - 1) = Len(a) + Len(b) /\ Len(a) \in Nat /\ Len(b) \in Nat
      BY <1>1
    <3>2. Len(l) = Len(a) + Len(b)
      BY <1>4, <3>1
    <3> QED BY <3>1, <3>2
  <2>2. CASE i <= Len(a)
    <3>1. i \in 1..Len(a) /\ i <= Len(a) + 1
      BY <1>1, <2>1, <2>2
    <3>2. r[i] = a[i]
      BY <1>3, <2>1, <2>2
    <3>3. l[i] = Append(a, Head(b))[i]
      BY <1>4, <2>1, <3>1
    <3> QED BY <1>2, <3>1, <3>2, <3>3
  <2>3. CASE i = Len(a) + 1
    BY <1>1, <1>2, <1>3, <1>4, <2>1, <2>3
  <2>4. CASE i > Len(a) + 1
    <3>1. i - (Len(a) + 1) \in 1..Len(Tail(b)) /\ i - (Len(a) + 1) + 1 = i - Len(a)
      BY <1>1, <2>1, <2>4
    <3>2. l[i] = Tail(b)[i - (Len(a) + 1)]
      BY <1>1, <1>4, <2>1, <2>4
    <3>3. r[i] = b[i - Len(a)]
      BY <1>1, <1>3, <2>1, <2>4
    <3> QED BY <1>1, <3>1, <3>2, <3>3
  <2> QED BY <1>1, <2>1, <2>2, <2>3, <2>4
<1>6. Len(l) = Len(r)
  BY <1>1, <1>3, <1>4
<1>7. l = r
  BY <1>3, <1>4, <1>5, <1>6, SeqEqual
<1> QED BY <1>7 DEF l, r

\* A queue without repetitions takes an answer it does not hold.
LEMMA QueueingKeepsOne ==
  ASSUME NEW S, NEW a \in Seq(S), NEW b \in Seq(S), NEW e \in S
  PROVE  LET before == a \o b
             after == a \o Append(b, e)
         IN  /\ ToSet(after) = ToSet(before) \cup {e}
             /\ IsInjective(before) /\ e \notin ToSet(before) => IsInjective(after)
<1> DEFINE before == a \o b
           after == a \o Append(b, e)
<1>1. /\ before \in Seq(S) /\ Len(before) \in Nat /\ DOMAIN before = 1..Len(before)
  BY ConcatProperties, LenProperties
<1>2. after = Append(before, e)
  <2>1. <<e>> \in Seq(S)
    OBVIOUS
  <2>2. Append(b, e) = b \o <<e>> /\ Append(before, e) = before \o <<e>>
    BY <1>1, AppendIsConcat
  <2> QED BY <2>1, <2>2, ConcatAssociative
<1> HIDE DEF before, after
<1>3. /\ DOMAIN after = 1..Len(before) + 1
      /\ \A i \in 1..Len(before) : after[i] = before[i]
      /\ after[Len(before) + 1] = e
  BY <1>1, <1>2, AppendProperties, LenProperties
<1>4. ToSet(after) = ToSet(before) \cup {e}
  BY <1>1, <1>3 DEF ToSet
<1>5. ASSUME IsInjective(before), e \notin ToSet(before) PROVE IsInjective(after)
  <2>1. \A i \in 1..Len(before) : before[i] # e
    BY <1>1, <1>5 DEF ToSet
  <2>2. \A i, j \in 1..Len(before) : before[i] = before[j] => i = j
    BY <1>1, <1>5 DEF IsInjective
  <2>3. \A i \in 1..Len(before) + 1 : i \in 1..Len(before) \/ i = Len(before) + 1
    BY <1>1
  <2> QED BY <1>3, <2>1, <2>2, <2>3 DEF IsInjective
<1> QED BY <1>4, <1>5 DEF before, after

\* What was sent before the queue was dropped.
LEMMA ClosingKeepsOne ==
  ASSUME NEW S, NEW a \in Seq(S), NEW b \in Seq(S)
  PROVE  LET before == a \o b
             after == a \o <<>>
         IN  /\ ToSet(after) \subseteq ToSet(before)
             /\ IsInjective(before) => IsInjective(after)
<1> DEFINE before == a \o b
<1>1. a \o <<>> = a
  BY ConcatEmptySeq
<1>2. /\ DOMAIN before = 1..Len(a) + Len(b) /\ DOMAIN a = 1..Len(a)
      /\ \A i \in 1..Len(a) + Len(b) : before[i] = IF i <= Len(a) THEN a[i] ELSE b[i - Len(a)]
      /\ Len(a) \in Nat /\ Len(b) \in Nat
  <2>1. before \in Seq(S)
    BY ConcatProperties
  <2> QED BY <2>1, ConcatProperties, LenProperties
<1> HIDE DEF before
<1>3. \A i \in 1..Len(a) : i \in 1..Len(a) + Len(b) /\ before[i] = a[i]
  BY <1>2
<1>4. ToSet(a) \subseteq ToSet(before)
  BY <1>2, <1>3 DEF ToSet
<1>5. IsInjective(before) => IsInjective(a)
  BY <1>2, <1>3 DEF IsInjective
<1> QED BY <1>1, <1>4, <1>5 DEF before

\* The invariant says what a stream promises.
LEMMA TransportInvImplies ==
  ASSUME TransportInv
  PROVE  TransportTypeOK /\ AnswerReachesAsker
<1> USE DEF TransportInv
<1>1. TransportTypeOK
  BY DEF TransportTyped, TransportTypeOK
<1>2. ASSUME NEW s \in Streams
      PROVE  /\ stream[s].pc = "none" => On(s) = <<>>
             /\ stream[s].pc # "none" => On(s) = Carried(s)
  <2>1. NoConnection.pc = "none"
    BY DEF NoConnection
  <2>2. stream[s] \in Connected => stream[s].pc # "none"
    BY DEF Connected
  <2>3. stream[s].pc = "none" <=> stream[s] = NoConnection
    BY <2>1, <2>2 DEF TransportTyped
  <2> QED BY <2>3 DEF On, Carried
<1>3. IsInjective(<<>>) /\ ToSet(<<>>) = {}
  BY DEF IsInjective, ToSet
<1>4. ASSUME Bound PROVE AnswerReachesAsker
  <2>1. ASSUME NEW s \in Streams
        PROVE  /\ IsInjective(On(s))
               /\ \A k \in ToSet(On(s)) :
                    reply[k].pc = "stream" /\ reply[k].to = s /\ reply[k].by = stream[s].by
    BY <1>2, <1>3, <1>4 DEF StreamsCarryTheirs
  <2>2. ASSUME NEW k \in Posts, reply[k].pc = "stream", stream[reply[k].to].pc = "open"
        PROVE  k \in ToSet(On(reply[k].to))
    <3>1. reply[k].to \in Streams /\ k \in ToSet(Carried(reply[k].to))
      BY <1>4, <2>2 DEF AnswersAreCarried
    <3> QED BY <1>2, <2>2, <3>1
  <2> QED BY <2>1, <2>2 DEF AnswerReachesAsker
<1> QED BY <1>1, <1>4 DEF AnswerReachesAsker

\* At first no stream is open and no call accepted.
LEMMA TransportStarts == TransportInit => TransportInv
<1> SUFFICES ASSUME TransportInit PROVE TransportInv
  OBVIOUS
<1>1. TransportTyped
  BY DEF TransportInit, TransportTyped
<1>2. StreamsCarryTheirs /\ AnswersAreCarried
  BY DEF TransportInit, StreamsCarryTheirs, AnswersAreCarried, NoConnection, NotPosted
<1> QED BY <1>1, <1>2 DEF TransportInv

\* A revoked key keeps the streams it has opened.
LEMMA RevokeStep ==
  ASSUME TransportInv, NEW c \in Callers, RevokeCaller(c)
  PROVE  TransportInv'
BY DEF RevokeCaller, TransportInv, TransportTyped, Bound, StreamsCarryTheirs,
       AnswersAreCarried, Carried

\* A stream begins empty.
LEMMA OpenStep ==
  ASSUME TransportInv, NEW s \in Streams, NEW c \in Callers, NEW p \in Processes,
         StreamsTo(s, c, p)
  PROVE  TransportInv'
<1> USE DEF TransportInv
<1> DEFINE n == [pc |-> "open", by |-> c, at |-> p, queue |-> <<>>, sent |-> <<>>]
<1>1. /\ stream[s] = NoConnection /\ stream' = [stream EXCEPT ![s] = n]
      /\ UNCHANGED <<service, valid, reply>>
  BY DEF StreamsTo
<1>2. n \in Connected /\ n.pc = "open" /\ n.sent \o n.queue = <<>>
  <2>1. <<>> \in Seq(Posts)
    BY EmptySeq
  <2>2. n \in Connected
    BY <2>1 DEF Connected
  <2>3. <<>> \o <<>> = <<>>
    BY <2>1, ConcatEmptySeq
  <2> QED BY <2>2, <2>3
<1> HIDE DEF n
<1>3. TransportTyped'
  BY <1>1, <1>2 DEF TransportTyped
<1>4. /\ stream'[s] = n
      /\ \A t \in Streams \ {s} : stream'[t] = stream[t]
  BY <1>1 DEF TransportTyped
<1>5. ASSUME Bound PROVE StreamsCarryTheirs' /\ AnswersAreCarried'
  <2>1. IsInjective(<<>>) /\ ToSet(<<>>) = {}
    BY DEF IsInjective, ToSet
  <2>2. ASSUME NEW t \in Streams, stream'[t].pc # "none"
        PROVE  LET l == stream'[t].sent \o stream'[t].queue IN
               /\ IsInjective(l)
               /\ \A k \in ToSet(l) :
                    reply[k].pc = "stream" /\ reply[k].to = t /\ reply[k].by = stream'[t].by
    <3>1. CASE t = s
      BY <1>2, <1>4, <2>1, <3>1
    <3>2. CASE t # s
      <4>1. stream'[t] = stream[t]
        BY <1>4, <3>2
      <4> QED BY <1>5, <2>2, <4>1 DEF StreamsCarryTheirs, Carried
    <3> QED BY <3>1, <3>2
  <2>5. StreamsCarryTheirs'
    BY <1>1, <2>2 DEF StreamsCarryTheirs, Carried
  <2>3. \A k \in Posts : reply[k].pc = "stream" => reply[k].to # s
    BY <1>1, <1>5 DEF AnswersAreCarried, NoConnection
  <2>4. AnswersAreCarried'
    BY <1>1, <1>4, <1>5, <2>3 DEF AnswersAreCarried, Carried
  <2> QED BY <2>5, <2>4
<1> QED BY <1>1, <1>3, <1>5 DEF Bound

\* A call arrives, and is on no stream yet.
LEMMA PostStep ==
  ASSUME TransportInv, NEW k \in Posts, NEW c \in Callers, NEW p \in Processes,
         NEW ran \in BOOLEAN, Post(k, c, p, ran)
  PROVE  TransportInv'
<1> USE DEF TransportInv
<1>1. PICK n \in Posted :
        /\ n.pc = "running" /\ reply[k] = NotPosted
        /\ reply' = [reply EXCEPT ![k] = n] /\ UNCHANGED <<service, valid, stream>>
  BY DEF Post, Posted
<1>2. TransportTyped'
  BY <1>1 DEF TransportTyped
<1>3. reply'[k] = n /\ \A j \in Posts \ {k} : reply'[j] = reply[j]
  BY <1>1 DEF TransportTyped
<1>4. ASSUME Bound PROVE StreamsCarryTheirs' /\ AnswersAreCarried'
  <2>1. ASSUME NEW s \in Streams, stream[s].pc # "none"
        PROVE  k \notin ToSet(Carried(s)) /\ ToSet(Carried(s)) \subseteq Posts
    <3>1. stream[s] \in Connected
      BY <2>1 DEF TransportTyped, NoConnection
    <3>2. Carried(s) \in Seq(Posts)
      BY <3>1, ConcatProperties DEF Carried, Connected
    <3>3. ToSet(Carried(s)) \subseteq Posts
      BY <3>2 DEF ToSet
    <3> QED BY <1>1, <1>4, <2>1, <3>3 DEF StreamsCarryTheirs, NotPosted
  <2>2. StreamsCarryTheirs'
    BY <1>1, <1>3, <1>4, <2>1 DEF StreamsCarryTheirs, Carried
  <2>3. AnswersAreCarried'
    BY <1>1, <1>3, <1>4 DEF AnswersAreCarried, Carried
  <2> QED BY <2>2, <2>3
<1> QED BY <1>1, <1>2, <1>4 DEF Bound

\* What a stream carries is a sequence of calls.
LEMMA StreamsCarryCalls ==
  ASSUME TransportInv, NEW s \in Streams, stream[s].pc # "none"
  PROVE  /\ stream[s] \in Connected
         /\ stream[s].sent \in Seq(Posts) /\ stream[s].queue \in Seq(Posts)
         /\ Carried(s) \in Seq(Posts) /\ ToSet(Carried(s)) \subseteq Posts
<1>1. stream[s] \in Connected
  BY DEF TransportInv, TransportTyped, NoConnection
<1>2. stream[s].sent \in Seq(Posts) /\ stream[s].queue \in Seq(Posts)
  BY <1>1 DEF Connected
<1>3. Carried(s) \in Seq(Posts)
  BY <1>2, ConcatProperties DEF Carried
<1>4. ToSet(Carried(s)) \subseteq Posts
  BY <1>3 DEF ToSet
<1> QED BY <1>1, <1>2, <1>3, <1>4

\* A stream that becomes n, of the same key, without a call of its being answered.
LEMMA StreamStep ==
  ASSUME TransportInv, NEW s \in Streams, NEW n \in Connected, stream[s].pc = "open",
         stream' = [stream EXCEPT ![s] = n], n.by = stream[s].by,
         UNCHANGED <<service, valid, reply>>,
         Bound => IsInjective(n.sent \o n.queue),
         ToSet(n.sent \o n.queue) \subseteq ToSet(Carried(s)),
         n.pc = "open" => ToSet(n.sent \o n.queue) = ToSet(Carried(s))
  PROVE  TransportInv'
<1> USE DEF TransportInv
<1>1. TransportTyped'
  BY DEF TransportTyped
<1>2. stream'[s] = n /\ \A t \in Streams \ {s} : stream'[t] = stream[t]
  BY DEF TransportTyped
<1>3. n.pc # "none"
  BY DEF Connected
<1>4. ASSUME Bound PROVE StreamsCarryTheirs'
  <2>1. ASSUME NEW t \in Streams, stream'[t].pc # "none"
        PROVE  LET l == stream'[t].sent \o stream'[t].queue IN
               /\ IsInjective(l)
               /\ \A k \in ToSet(l) :
                    reply[k].pc = "stream" /\ reply[k].to = t /\ reply[k].by = stream'[t].by
    <3>1. CASE t = s
      BY <1>2, <1>4, <3>1 DEF StreamsCarryTheirs
    <3>2. CASE t # s
      <4>1. stream'[t] = stream[t]
        BY <1>2, <3>2
      <4> QED BY <1>4, <2>1, <4>1 DEF StreamsCarryTheirs, Carried
    <3> QED BY <3>1, <3>2
  <2> QED BY <2>1 DEF StreamsCarryTheirs, Carried
<1>5. ASSUME Bound PROVE AnswersAreCarried'
  <2>1. ASSUME NEW k \in Posts, reply[k].pc = "stream"
        PROVE  LET t == reply[k].to IN
               /\ t \in Streams /\ stream'[t].pc # "none"
               /\ stream'[t].pc = "open" => k \in ToSet(stream'[t].sent \o stream'[t].queue)
    <3>1. PICK t \in Streams :
            /\ reply[k].to = t /\ stream[t].pc # "none"
            /\ stream[t].pc = "open" => k \in ToSet(stream[t].sent \o stream[t].queue)
      BY <1>5, <2>1 DEF AnswersAreCarried, Carried
    <3>2. CASE t = s
      <4>1. n.pc = "open" => k \in ToSet(n.sent \o n.queue)
        BY <3>1, <3>2 DEF Carried
      <4> QED BY <1>2, <1>3, <3>1, <3>2, <4>1
    <3>3. CASE t # s
      <4>1. stream'[t] = stream[t]
        BY <1>2, <3>1, <3>3
      <4> QED BY <3>1, <4>1
    <3> QED BY <3>2, <3>3
  <2> QED BY <2>1 DEF AnswersAreCarried, Carried
<1> QED BY <1>1, <1>4, <1>5 DEF Bound

\* A delivery moves an answer from the queue to what was sent.
LEMMA DeliverStep ==
  ASSUME TransportInv, NEW s \in Streams, Deliver(s)
  PROVE  TransportInv'
<1> DEFINE q == stream[s].queue
           z == stream[s].sent
           n == [[stream[s] EXCEPT !.queue = Tail(q)] EXCEPT !.sent = Append(z, Head(q))]
<1>1. /\ stream[s].pc = "open" /\ q # <<>> /\ UNCHANGED <<service, valid, reply>>
      /\ stream' = [stream EXCEPT ![s] = n]
  BY DEF Deliver, TransportInv, TransportTyped
<1>2. /\ stream[s] \in Connected /\ q \in Seq(Posts) /\ z \in Seq(Posts)
  BY <1>1, StreamsCarryCalls
<1>3. /\ Head(q) \in Posts /\ Tail(q) \in Seq(Posts)
  BY <1>1, <1>2, HeadTailProperties
<1>4. Append(z, Head(q)) \in Seq(Posts)
  BY <1>2, <1>3, AppendProperties
<1>5. Append(z, Head(q)) \o Tail(q) = Carried(s)
  BY <1>1, <1>2, DeliveryKeepsOrder DEF Carried
<1>6. /\ n \in Connected /\ n.pc = "open" /\ n.by = stream[s].by
      /\ n.sent = Append(z, Head(q)) /\ n.queue = Tail(q)
  BY <1>1, <1>2, <1>3, <1>4 DEF Connected
<1>7. Bound => IsInjective(Carried(s))
  BY <1>1 DEF TransportInv, StreamsCarryTheirs
<1> HIDE DEF n
<1> QED BY <1>1, <1>5, <1>6, <1>7, StreamStep

\* A closed stream carries nothing.
LEMMA CloseStep ==
  ASSUME TransportInv, NEW s \in Streams, CloseStream(s)
  PROVE  TransportInv'
<1> DEFINE z == stream[s].sent
           n == [[stream[s] EXCEPT !.pc = "closed"] EXCEPT !.queue = <<>>]
<1>1. /\ stream[s].pc = "open" /\ UNCHANGED <<service, valid, reply>>
      /\ stream' = [stream EXCEPT ![s] = n]
  BY DEF CloseStream, TransportInv, TransportTyped
<1>2. /\ stream[s] \in Connected /\ stream[s].queue \in Seq(Posts) /\ z \in Seq(Posts)
  BY <1>1, StreamsCarryCalls
<1>3. /\ n \in Connected /\ n.pc = "closed" /\ n.by = stream[s].by
      /\ n.sent = z /\ n.queue = <<>>
  BY <1>2, EmptySeq DEF Connected
<1>4. /\ ToSet(z \o <<>>) \subseteq ToSet(Carried(s))
      /\ IsInjective(Carried(s)) => IsInjective(z \o <<>>)
  BY <1>2, ClosingKeepsOne DEF Carried
<1>5. Bound => IsInjective(Carried(s))
  BY <1>1 DEF TransportInv, StreamsCarryTheirs
<1> HIDE DEF n
<1> QED BY <1>1, <1>3, <1>4, <1>5, StreamStep

\* An answer is queued on the stream of its caller.
LEMMA QueueStep ==
  ASSUME TransportInv, NEW k \in Posts, NEW s \in Streams, Bound,
         reply[k].pc = "running", reply[k].to = s, reply[k].by = stream[s].by,
         stream[s].pc = "open",
         reply' = [reply EXCEPT ![k].pc = "stream"],
         stream' = [stream EXCEPT ![s].queue = Append(@, k)],
         UNCHANGED <<service, valid>>
  PROVE  TransportInv'
<1> USE DEF TransportInv
<1> DEFINE q == stream[s].queue
           z == stream[s].sent
           l == z \o Append(q, k)
           n == [stream[s] EXCEPT !.queue = Append(q, k)]
           r == [reply[k] EXCEPT !.pc = "stream"]
<1>1. /\ stream[s] \in Connected /\ q \in Seq(Posts) /\ z \in Seq(Posts)
      /\ ToSet(Carried(s)) \subseteq Posts
  BY StreamsCarryCalls
<1>2. Append(q, k) \in Seq(Posts)
  BY <1>1, AppendProperties
<1>3. /\ n \in Connected /\ n.pc = "open" /\ n.by = stream[s].by
      /\ n.sent \o n.queue = l
  BY <1>1, <1>2 DEF Connected
<1>4. reply[k] \in Posted
  BY DEF TransportTyped, NotPosted
<1>5. r \in Posted /\ r.pc = "stream" /\ r.to = s /\ r.by = stream[s].by
  BY <1>4 DEF Posted
<1>6. ASSUME NEW t \in Streams, stream[t].pc # "none" PROVE k \notin ToSet(Carried(t))
  BY <1>6 DEF StreamsCarryTheirs
<1>7. IsInjective(Carried(s))
  BY DEF StreamsCarryTheirs
<1>8. ToSet(l) = ToSet(Carried(s)) \cup {k} /\ IsInjective(l)
  BY <1>1, <1>6, <1>7, QueueingKeepsOne DEF Carried
<1>9. /\ stream' = [stream EXCEPT ![s] = n] /\ reply' = [reply EXCEPT ![k] = r]
      /\ stream'[s] = n /\ \A t \in Streams \ {s} : stream'[t] = stream[t]
      /\ reply'[k] = r /\ \A j \in Posts \ {k} : reply'[j] = reply[j]
  BY DEF TransportTyped
<1> HIDE DEF n, r, l
<1>10. TransportTyped'
  BY <1>3, <1>5, <1>9 DEF TransportTyped
<1>11. ASSUME NEW t \in Streams, stream'[t].pc # "none"
       PROVE  LET m == stream'[t].sent \o stream'[t].queue IN
              /\ IsInjective(m)
              /\ \A j \in ToSet(m) :
                   reply'[j].pc = "stream" /\ reply'[j].to = t /\ reply'[j].by = stream'[t].by
  <2>1. CASE t = s
    <3>1. \A j \in ToSet(Carried(s)) :
            /\ reply[j].pc = "stream" /\ reply[j].to = s /\ reply[j].by = stream[s].by
            /\ j # k /\ j \in Posts
      BY <1>1, <1>6 DEF StreamsCarryTheirs
    <3>2. \A j \in ToSet(l) :
            reply'[j].pc = "stream" /\ reply'[j].to = s /\ reply'[j].by = n.by
      BY <1>3, <1>5, <1>8, <1>9, <3>1
    <3> QED BY <1>3, <1>8, <1>9, <2>1, <3>2
  <2>2. CASE t # s
    <3>1. stream'[t] = stream[t]
      BY <1>9, <2>2
    <3>2. stream[t].pc # "none"
      BY <1>11, <3>1
    <3>3. \A j \in ToSet(Carried(t)) : j # k /\ j \in Posts
      BY <1>6, <3>2, StreamsCarryCalls
    <3>4. /\ IsInjective(Carried(t))
          /\ \A j \in ToSet(Carried(t)) :
               reply[j].pc = "stream" /\ reply[j].to = t /\ reply[j].by = stream[t].by
      BY <3>2 DEF StreamsCarryTheirs
    <3>5. \A j \in ToSet(Carried(t)) : reply'[j] = reply[j]
      BY <1>9, <3>3
    <3>6. \A j \in ToSet(Carried(t)) :
            reply'[j].pc = "stream" /\ reply'[j].to = t /\ reply'[j].by = stream'[t].by
      BY <3>1, <3>4, <3>5
    <3>7. Carried(t) = stream'[t].sent \o stream'[t].queue
      BY <3>1 DEF Carried
    <3> QED BY <3>4, <3>6, <3>7
  <2> QED BY <2>1, <2>2
<1>12. StreamsCarryTheirs'
  BY <1>11 DEF StreamsCarryTheirs, Carried
<1>13. ASSUME NEW j \in Posts, reply'[j].pc = "stream"
       PROVE  LET t == reply'[j].to IN
              /\ t \in Streams /\ stream'[t].pc # "none"
              /\ stream'[t].pc = "open" => j \in ToSet(stream'[t].sent \o stream'[t].queue)
  <2>1. CASE j = k
    <3>1. reply'[j].to = s /\ stream'[s] = n /\ j \in ToSet(n.sent \o n.queue)
      BY <1>3, <1>5, <1>8, <1>9, <2>1
    <3> QED BY <1>3, <3>1
  <2>2. CASE j # k
    <3>1. reply'[j] = reply[j]
      BY <1>9, <2>2
    <3>2. PICK t \in Streams :
            /\ reply[j].to = t /\ stream[t].pc # "none"
            /\ stream[t].pc = "open" => j \in ToSet(stream[t].sent \o stream[t].queue)
      BY <1>13, <3>1 DEF AnswersAreCarried, Carried
    <3>3. CASE t = s
      <4>1. j \in ToSet(n.sent \o n.queue)
        BY <1>3, <1>8, <3>2, <3>3 DEF Carried
      <4> QED BY <1>3, <1>9, <3>1, <3>2, <3>3, <4>1
    <3>4. CASE t # s
      <4>1. stream'[t] = stream[t]
        BY <1>9, <3>4
      <4> QED BY <3>1, <3>2, <4>1
    <3> QED BY <3>3, <3>4
  <2> QED BY <2>1, <2>2
<1>14. AnswersAreCarried'
  BY <1>13 DEF AnswersAreCarried, Carried
<1> QED BY <1>10, <1>12, <1>14

\* A call that is answered, but on no stream, leaves the streams right.
LEMMA UnqueuedStep ==
  ASSUME TransportInv, NEW k \in Posts, NEW pc \in {"http", "forbidden"},
         reply[k].pc = "running", reply' = [reply EXCEPT ![k].pc = pc],
         UNCHANGED <<service, valid, stream>>
  PROVE  TransportInv'
<1> USE DEF TransportInv
<1> DEFINE r == [reply[k] EXCEPT !.pc = pc]
<1>1. reply[k] \in Posted
  BY DEF TransportTyped, NotPosted
<1>2. r \in Posted /\ r.pc # "stream"
  BY <1>1 DEF Posted
<1>3. /\ reply' = [reply EXCEPT ![k] = r]
      /\ reply'[k] = r /\ \A j \in Posts \ {k} : reply'[j] = reply[j]
  BY DEF TransportTyped
<1> HIDE DEF r
<1>4. TransportTyped'
  BY <1>2, <1>3 DEF TransportTyped
<1>5. ASSUME Bound PROVE StreamsCarryTheirs' /\ AnswersAreCarried'
  <2>1. ASSUME NEW s \in Streams, stream[s].pc # "none", NEW j \in ToSet(Carried(s))
        PROVE  j \in Posts /\ j # k
    BY <1>5, <2>1, StreamsCarryCalls DEF StreamsCarryTheirs
  <2>2. StreamsCarryTheirs'
    BY <1>3, <1>5, <2>1 DEF StreamsCarryTheirs, Carried
  <2>3. AnswersAreCarried'
    BY <1>2, <1>3, <1>5 DEF AnswersAreCarried, Carried
  <2> QED BY <2>2, <2>3
<1> QED BY <1>4, <1>5 DEF Bound

\* An answer is queued on the one stream of its call.
LEMMA RelayStep ==
  ASSUME TransportInv, NEW k \in Posts, Relay(k)
  PROVE  TransportInv'
<1>1. CASE ~Live(reply[k].to, reply[k].at)
  BY <1>1, UnqueuedStep DEF Relay
<1>2. CASE Live(reply[k].to, reply[k].at) /\ stream[reply[k].to].by # reply[k].by
  BY <1>2, UnqueuedStep DEF Relay
<1>3. CASE Live(reply[k].to, reply[k].at) /\ stream[reply[k].to].by = reply[k].by
  <2>1. reply[k] \in Posted
    BY DEF Relay, TransportInv, TransportTyped, NotPosted
  <2>2. PICK s \in Streams : s = reply[k].to
    BY <1>3, <2>1 DEF Live, Posted
  <2> QED BY <1>3, <2>2, QueueStep DEF Relay, Live
<1> QED BY <1>1, <1>2, <1>3

\* The catalog's broadcast keeps the types: nothing is claimed of its streams.
LEMMA BroadcastStep ==
  ASSUME TransportInv, NEW k \in Posts, Broadcast(k)
  PROVE  TransportInv'
<1> USE DEF TransportInv
<1>1. reply[k] \in Posted
  BY DEF Broadcast, TransportTyped, NotPosted
<1>2. reply' \in [Posts -> Posted \cup {NotPosted}]
  BY <1>1 DEF Broadcast, TransportTyped, Posted
<1>3. ASSUME NEW s \in Streams PROVE stream'[s] \in Connected \cup {NoConnection}
  <2>1. CASE Live(s, reply[k].at)
    <3> DEFINE q == stream[s].queue
    <3>1. stream[s] \in Connected /\ q \in Seq(Posts)
      BY <2>1, StreamsCarryCalls DEF Live
    <3>2. Append(q, k) \in Seq(Posts)
      BY <3>1, AppendProperties
    <3>3. [stream[s] EXCEPT !.queue = Append(q, k)] \in Connected
      BY <3>1, <3>2 DEF Connected
    <3> QED BY <2>1, <3>3 DEF Broadcast
  <2>2. CASE ~Live(s, reply[k].at)
    BY <2>2 DEF Broadcast, TransportTyped
  <2> QED BY <2>1, <2>2
<1>4. stream' \in [Streams -> Connected \cup {NoConnection}]
  BY <1>3 DEF Broadcast
<1> QED BY <1>2, <1>4 DEF TransportTyped, Broadcast, Bound

\* A process that dies closes its streams and loses the calls it was serving.
LEMMA DeathStep ==
  ASSUME TransportInv, NEW p \in Processes, ProcessDies(p)
  PROVE  TransportInv'
<1> USE DEF TransportInv
<1>1. ASSUME NEW k \in Posts
      PROVE  /\ reply'[k] \in Posted \cup {NotPosted}
             /\ reply'[k].pc = "stream" <=> reply[k].pc = "stream"
             /\ reply[k].pc = "stream" => reply'[k] = reply[k]
  <2>1. CASE reply[k].pc = "running" /\ reply[k].at = p
    <3>1. reply[k] \in Posted
      BY <2>1 DEF TransportTyped, NotPosted
    <3>2. reply'[k] = [reply[k] EXCEPT !.pc = "lost"]
      BY <2>1 DEF ProcessDies
    <3>3. [reply[k] EXCEPT !.pc = "lost"] \in Posted
      BY <3>1 DEF Posted
    <3>4. [reply[k] EXCEPT !.pc = "lost"].pc = "lost"
      BY <3>1 DEF Posted
    <3> HIDE DEF ProcessDies
    <3> QED BY <2>1, <3>2, <3>3, <3>4
  <2>2. CASE ~(reply[k].pc = "running" /\ reply[k].at = p)
    BY <2>2 DEF ProcessDies, TransportTyped
  <2> QED BY <2>1, <2>2
<1>2. ASSUME NEW s \in Streams
      PROVE  \/ stream'[s] = stream[s]
             \/ /\ stream[s].pc = "open"
                /\ stream'[s] \in Connected /\ stream'[s].pc = "closed"
                /\ stream'[s].by = stream[s].by /\ stream'[s].sent = stream[s].sent
                /\ stream'[s].queue = <<>>
  <2>1. CASE Live(s, p)
    <3> DEFINE n == [[stream[s] EXCEPT !.pc = "closed"] EXCEPT !.queue = <<>>]
    <3>1. stream[s].pc = "open" /\ stream[s] \in Connected
      BY <2>1, StreamsCarryCalls DEF Live
    <3>2. /\ n \in Connected /\ n.pc = "closed" /\ n.by = stream[s].by
          /\ n.sent = stream[s].sent /\ n.queue = <<>>
      BY <3>1, EmptySeq DEF Connected
    <3>3. stream'[s] = n
      BY <2>1, <3>1 DEF ProcessDies, Connected
    <3> HIDE DEF n
    <3> QED BY <3>1, <3>2, <3>3
  <2>2. CASE ~Live(s, p)
    BY <2>2 DEF ProcessDies
  <2> QED BY <2>1, <2>2
<1>3. TransportTyped'
  <2>1. /\ DOMAIN stream' = Streams /\ stream' = [s \in Streams |-> stream'[s]]
        /\ DOMAIN reply' = Posts /\ reply' = [k \in Posts |-> reply'[k]]
        /\ UNCHANGED <<service, valid>>
    BY DEF ProcessDies
  <2>2. \A s \in Streams : stream'[s] \in Connected \cup {NoConnection}
    BY <1>2 DEF TransportTyped
  <2>3. stream' \in [Streams -> Connected \cup {NoConnection}]
    BY <2>1, <2>2
  <2>4. reply' \in [Posts -> Posted \cup {NotPosted}]
    BY <1>1, <2>1
  <2> QED BY <2>1, <2>3, <2>4 DEF TransportTyped
<1>4. ASSUME Bound, NEW s \in Streams, stream'[s].pc # "none"
      PROVE  LET l == stream'[s].sent \o stream'[s].queue IN
             /\ stream[s].pc # "none" /\ stream'[s].by = stream[s].by
             /\ IsInjective(l) /\ ToSet(l) \subseteq ToSet(Carried(s))
             /\ ToSet(Carried(s)) \subseteq Posts
  <2>1. CASE stream'[s] = stream[s]
    BY <1>4, <2>1, StreamsCarryCalls DEF StreamsCarryTheirs, Carried
  <2>2. CASE /\ stream[s].pc = "open" /\ stream'[s].by = stream[s].by
             /\ stream'[s].sent = stream[s].sent /\ stream'[s].queue = <<>>
    <3>1. /\ stream[s].sent \in Seq(Posts) /\ stream[s].queue \in Seq(Posts)
          /\ ToSet(Carried(s)) \subseteq Posts
      BY <2>2, StreamsCarryCalls
    <3>2. IsInjective(Carried(s))
      BY <1>4, <2>2 DEF StreamsCarryTheirs
    <3> QED BY <2>2, <3>1, <3>2, ClosingKeepsOne DEF Carried
  <2> QED BY <1>2, <2>1, <2>2
<1>5. ASSUME Bound PROVE StreamsCarryTheirs'
  <2>1. ASSUME NEW s \in Streams, stream'[s].pc # "none"
        PROVE  LET l == stream'[s].sent \o stream'[s].queue IN
               /\ IsInjective(l)
               /\ \A k \in ToSet(l) :
                    reply'[k].pc = "stream" /\ reply'[k].to = s /\ reply'[k].by = stream'[s].by
    BY <1>1, <1>4, <1>5, <2>1 DEF StreamsCarryTheirs
  <2> QED BY <2>1 DEF StreamsCarryTheirs, Carried
<1>6. ASSUME Bound PROVE AnswersAreCarried'
  <2>1. ASSUME NEW k \in Posts, reply'[k].pc = "stream"
        PROVE  LET t == reply'[k].to IN
               /\ t \in Streams /\ stream'[t].pc # "none"
               /\ stream'[t].pc = "open" => k \in ToSet(stream'[t].sent \o stream'[t].queue)
    <3>1. reply'[k] = reply[k] /\ reply[k].pc = "stream"
      BY <1>1, <2>1
    <3>2. PICK t \in Streams :
            /\ reply[k].to = t /\ stream[t].pc # "none"
            /\ stream[t].pc = "open" => k \in ToSet(stream[t].sent \o stream[t].queue)
      BY <1>6, <3>1 DEF AnswersAreCarried, Carried
    <3>3. \/ stream'[t] = stream[t] \/ stream'[t].pc = "closed"
      BY <1>2
    <3> QED BY <3>1, <3>2, <3>3
  <2> QED BY <2>1 DEF AnswersAreCarried, Carried
<1> QED BY <1>3, <1>5, <1>6 DEF ProcessDies, Bound

\* However calls, streams, revocations and dying processes interleave, a stream of
\* the librarian or graphify carries only the answers its own key asked for there,
\* each once, and holds every answer accepted for it (mcp_jsonrpc, mcp_sse).
THEOREM AnswersReachTheirAskers ==
  TransportSpec => [](TransportTypeOK /\ AnswerReachesAsker)
<1>1. TransportInit => TransportInv
  BY TransportStarts
<1>2. TransportInv /\ [TransportNext]_transportVars => TransportInv'
  <2> SUFFICES ASSUME TransportInv, [TransportNext]_transportVars PROVE TransportInv'
    OBVIOUS
  <2>1. CASE TransportNext
    <3>1. ASSUME NEW c \in Callers, RevokeCaller(c) PROVE TransportInv'
      BY <3>1, RevokeStep
    <3>2. ASSUME NEW c \in Callers, NEW p \in Processes, NEW s \in Streams,
                 OpenStream(s, c, p) \/ OpenSharedStream(s, c, p)
          PROVE  TransportInv'
      BY <3>2, OpenStep DEF OpenStream, OpenSharedStream
    <3>3. ASSUME NEW c \in Callers, NEW p \in Processes, NEW k \in Posts,
                 Describe(k, c, p) \/ CallTool(k, c, p)
          PROVE  TransportInv'
      <4>1. (Bound => c \in valid) \in BOOLEAN
        OBVIOUS
      <4> QED BY <3>3, <4>1, PostStep DEF Describe, CallTool
    <3>4. ASSUME NEW s \in Streams, Deliver(s) \/ CloseStream(s) PROVE TransportInv'
      BY <3>4, DeliverStep, CloseStep
    <3>5. ASSUME NEW k \in Posts, Relay(k) \/ Broadcast(k) PROVE TransportInv'
      BY <3>5, RelayStep, BroadcastStep
    <3>6. ASSUME NEW p \in Processes, ProcessDies(p) PROVE TransportInv'
      BY <3>6, DeathStep
    <3> QED BY <2>1, <3>1, <3>2, <3>3, <3>4, <3>5, <3>6 DEF TransportNext
  <2>2. CASE UNCHANGED transportVars
    BY <2>2 DEF transportVars, TransportInv, TransportTyped, Bound, StreamsCarryTheirs,
                AnswersAreCarried, Carried
  <2> QED BY <2>1, <2>2
<1>3. TransportInv => TransportTypeOK /\ AnswerReachesAsker
  BY TransportInvImplies
<1> QED BY <1>1, <1>2, <1>3, PTL DEF TransportSpec

HIDE TransportAssumption
=============================================================================
