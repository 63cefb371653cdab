--------------------------- MODULE WorkspaceProofs ---------------------------
(***************************************************************************)
(* Theorems about Workspace, for every value of its constants.             *)
(***************************************************************************)
EXTENDS Workspace, TLAPS

-----------------------------------------------------------------------------
(* Type correctness *)

LEMMA Zeros ==
    /\ 0 \in Provisions /\ 0 \in Generations /\ 0 \in RowIds \cup {0}
    /\ NoLab \in LabIds \cup {NoLab}
  BY BoundsAssumption DEF Provisions, Generations

LEMMA Successors ==
    /\ \A g \in Provisions : g < MaxProvision => g + 1 \in Provisions
    /\ \A g \in Generations : g < MaxGeneration => g + 1 \in Generations
    /\ \A r \in 1 .. MaxRows + 1 : r <= MaxRows =>
          r \in RowIds /\ r + 1 \in 1 .. MaxRows + 1
  BY BoundsAssumption DEF Provisions, Generations, RowIds

LEMMA LabTypes == \A r \in RowIds, g \in Provisions : LabOf(r, g) \in LabIds
  BY DEF LabOf, LabIds

LEMMA NoJobType == NoJob \in Jobs
  BY Zeros DEF NoJob, Jobs

LEMMA RowOrNone ==
  ASSUME TypeOK
  PROVE  /\ workspace.status # "NONE" => workspace \in Rows
         /\ workspace.lab \in LabIds \cup {NoLab}
         /\ workspace.row \in RowIds \cup {0}
         /\ workspace.generation \in Provisions
  BY Zeros DEF TypeOK, Rows, NoRow

LEMMA ProvisionFields ==
    /\ NoProvision \in ProvisionRows \cup {NoProvision}
    /\ [NoProvision EXCEPT !.status = "PENDING"] \in ProvisionRows
    /\ \A r \in ProvisionRows \cup {NoProvision} :
          /\ r.settled \in BOOLEAN
          /\ r.status # "NONE" => /\ r \in ProvisionRows
                                  /\ [r EXCEPT !.settled = TRUE] \in ProvisionRows
                                  /\ [r EXCEPT !.status = "CLEANUP"] \in ProvisionRows
<1>1. NoProvision \in ProvisionRows \cup {NoProvision}
  OBVIOUS
<1>2. [NoProvision EXCEPT !.status = "PENDING"] \in ProvisionRows
  BY DEF ProvisionRows, NoProvision
<1>3. NoProvision.settled \in BOOLEAN /\ NoProvision.status = "NONE"
  BY DEF NoProvision
<1>4. \A r \in ProvisionRows : /\ r.settled \in BOOLEAN
                              /\ [r EXCEPT !.settled = TRUE] \in ProvisionRows
                              /\ [r EXCEPT !.status = "CLEANUP"] \in ProvisionRows
  BY DEF ProvisionRows
<1> QED
  BY <1>1, <1>2, <1>3, <1>4

LEMMA NoJobFields == \A e \in Generations, r \in RowIds, l \in LabIds :
    /\ [NoJob EXCEPT !.egen = e] \in Jobs
    /\ [NoJob EXCEPT !.lab = l] \in Jobs
    /\ [NoJob EXCEPT !.row = r, !.lab = l] \in Jobs
  BY Zeros DEF NoJob, Jobs

LEMMA JobFields == \A j \in Jobs :
    /\ \A r \in RowIds : [j EXCEPT !.row = r] \in Jobs
    /\ \A l \in LabIds : [j EXCEPT !.lab = l] \in Jobs
    /\ \A r \in RowIds, g \in Provisions : [j EXCEPT !.row = r, !.generation = g] \in Jobs
    /\ \A b \in BOOLEAN : [j EXCEPT !.settled = b] \in Jobs
    /\ \A r \in RowIds, l \in LabIds \cup {NoLab} : [j EXCEPT !.row = r, !.lab = l] \in Jobs
    /\ \A r \in RowIds, l \in LabIds \cup {NoLab}, g \in Provisions :
          [j EXCEPT !.row = r, !.lab = l, !.generation = g] \in Jobs
  BY DEF Jobs

LEMMA ProcTypes ==
  ASSUME TypeOK, NEW p \in Procs
  PROVE  /\ Done(p) => pc' \in [Procs -> Labels] /\ job' \in [Procs -> Jobs]
         /\ \A la \in Labels : Goto(p, la) => pc' \in [Procs -> Labels]
         /\ \A la \in Labels : Become(p, la) =>
               pc' \in [Procs -> Labels] /\ job' \in [Procs -> Jobs]
         /\ \A j \in Jobs : Hold(p, j) => job' \in [Procs -> Jobs]
  BY NoJobType DEF TypeOK, Done, Become, Goto, Hold, Labels

LEMMA HoldRowType ==
  ASSUME TypeOK, HeldOK, NEW p \in Procs, HoldRow(p),
         workspace.status \in {"RUNNING", "STOPPED"}
  PROVE  job' \in [Procs -> Jobs]
<1>1. workspace.row \in RowIds /\ workspace.lab \in LabIds /\ job[p] \in Jobs
  BY RowOrNone DEF HeldOK, TypeOK, Rows
<1>2. [job[p] EXCEPT !.row = workspace.row, !.lab = workspace.lab] \in Jobs
  BY <1>1, JobFields
<1> QED
  BY <1>2, ProcTypes DEF HoldRow

LEMMA ReprovisionType ==
  ASSUME TypeOK, NEW p \in Procs, NEW st \in Statuses, Reprovision(p, st)
  PROVE  /\ workspace' \in Rows \cup {NoRow}
         /\ pc' \in [Procs -> Labels]
         /\ job' \in [Procs -> Jobs]
<1> USE Zeros, Successors, NoJobType, RowOrNone, JobFields
<1>1. CASE workspace.status = st /\ workspace.generation < MaxProvision
  <2>1. workspace \in Rows
    BY <1>1 DEF Statuses
  <2>2. workspace' = [workspace EXCEPT !.status = "CREATING", !.starting = TRUE,
                                       !.generation = workspace.generation + 1]
    BY <1>1 DEF Reprovision
  <2>3. workspace.generation + 1 \in Provisions /\ workspace.row \in RowIds
    BY <1>1, <2>1 DEF Rows
  <2>4. workspace' \in Rows
    BY <2>1, <2>2, <2>3 DEF Rows, Statuses
  <2>5. job' = [job EXCEPT ![p] = [job[p] EXCEPT !.row = workspace.row, !.lab = NoLab,
                                    !.generation = workspace.generation + 1]]
    BY <1>1 DEF Reprovision, Hold
  <2>6. job[p] \in Jobs
    BY DEF TypeOK
  <2>7. [job[p] EXCEPT !.row = workspace.row, !.lab = NoLab,
                        !.generation = workspace.generation + 1] \in Jobs
    BY <2>3, <2>6
  <2>8. pc' \in [Procs -> Labels]
    BY <1>1 DEF Reprovision, Goto, TypeOK, Labels
  <2> QED
    BY <2>4, <2>5, <2>7, <2>8 DEF TypeOK
<1>2. CASE ~(workspace.status = st /\ workspace.generation < MaxProvision)
  <2>1. UNCHANGED workspace /\ Done(p)
    BY <1>2 DEF Reprovision
  <2> QED
    BY <2>1 DEF Done, Goto, Hold, TypeOK, Labels
<1> QED
  BY <1>1, <1>2

-----------------------------------------------------------------------------
(* What the helpers of the actions do, field by field *)

LEMMA ProcEffect ==
  ASSUME TypeOK, NEW p \in Procs
  PROVE  /\ Done(p) =>
              /\ pc'[p] = "idle" /\ job'[p] = NoJob
              /\ \A q \in Procs \ {p} : pc'[q] = pc[q] /\ job'[q] = job[q]
         /\ \A la \in Labels : Become(p, la) =>
              /\ pc'[p] = la /\ job' = job
              /\ \A q \in Procs \ {p} : pc'[q] = pc[q]
         /\ \A la \in Labels, j \in Jobs : (Goto(p, la) /\ Hold(p, j)) =>
              /\ pc'[p] = la /\ job'[p] = j
              /\ \A q \in Procs \ {p} : pc'[q] = pc[q] /\ job'[q] = job[q]
  BY DEF TypeOK, Done, Become, Goto, Hold

LEMMA Moves ==
  ASSUME TypeOK, NEW p \in Procs, NEW la, NEW j, Goto(p, la), Hold(p, j)
  PROVE  /\ pc'[p] = la /\ job'[p] = j
         /\ \A q \in Procs \ {p} : pc'[q] = pc[q] /\ job'[q] = job[q]
  BY DEF TypeOK, Goto, Hold

LEMMA NoJobValues ==
    /\ NoJob.row = 0 /\ NoJob.generation = 0 /\ NoJob.lab = NoLab
    /\ NoJob.settled = FALSE /\ NoJob.egen = 0
  BY DEF NoJob

LEMMA HoldRowEffect ==
  ASSUME TypeOK, HeldOK, NEW p \in Procs, NEW la \in Labels, Goto(p, la), HoldRow(p),
         workspace.status \in {"RUNNING", "STOPPED"}
  PROVE  /\ pc'[p] = la /\ job'[p].row = workspace.row /\ job'[p].lab = workspace.lab
         /\ workspace.lab \in LabIds
         /\ \A q \in Procs \ {p} : pc'[q] = pc[q] /\ job'[q] = job[q]
<1>1. workspace.row \in RowIds /\ workspace.lab \in LabIds /\ job[p] \in Jobs
  BY RowOrNone DEF HeldOK, TypeOK, Rows
<1> DEFINE j == [job[p] EXCEPT !.row = workspace.row, !.lab = workspace.lab]
<1>2. j \in Jobs
  BY <1>1, JobFields
<1>3. j.row = workspace.row /\ j.lab = workspace.lab
  BY <1>1 DEF Jobs
<1>4. Hold(p, j)
  BY DEF HoldRow
<1> HIDE DEF j
<1> QED
  BY <1>1, <1>2, <1>3, <1>4, ProcEffect

Reprovisioned(p, st) ==
    /\ workspace.status = st /\ workspace \in Rows /\ workspace' \in Rows
    /\ workspace'.row = workspace.row /\ workspace'.lab = workspace.lab
    /\ workspace'.status = "CREATING"
    /\ workspace'.generation = workspace.generation + 1
    /\ pc'[p] = "schedule" /\ job'[p].lab = NoLab
    /\ job'[p].row = workspace.row /\ job'[p].generation = workspace.generation + 1
    /\ \A q \in Procs \ {p} : pc'[q] = pc[q] /\ job'[q] = job[q]

LEMMA ReprovisionEffect ==
  ASSUME TypeOK, NEW p \in Procs, NEW st \in Statuses, Reprovision(p, st)
  PROVE  Reprovisioned(p, st) \/ (UNCHANGED workspace /\ Done(p))
<1>1. CASE workspace.status = st /\ workspace.generation < MaxProvision
  <2>1. workspace \in Rows /\ job[p] \in Jobs
    BY <1>1, RowOrNone DEF TypeOK, Statuses
  <2>2. workspace' = [workspace EXCEPT !.status = "CREATING", !.starting = TRUE,
                                       !.generation = workspace.generation + 1]
    BY <1>1 DEF Reprovision
  <2>3. workspace.row \in RowIds /\ workspace.generation + 1 \in Provisions
    BY <1>1, <2>1, Successors DEF Rows
  <2>4. /\ workspace' \in Rows
        /\ workspace'.row = workspace.row /\ workspace'.lab = workspace.lab
        /\ workspace'.status = "CREATING"
        /\ workspace'.generation = workspace.generation + 1
    BY <2>1, <2>2, <2>3 DEF Rows, Statuses
  <2> DEFINE j == [job[p] EXCEPT !.row = workspace.row, !.lab = NoLab,
                                 !.generation = workspace.generation + 1]
  <2>5. j \in Jobs
    BY <2>1, <2>3, JobFields, Zeros
  <2>6. j.row = workspace.row /\ j.lab = NoLab /\ j.generation = workspace.generation + 1
    BY <2>1 DEF Jobs
  <2>7. Goto(p, "schedule") /\ Hold(p, j)
    BY <1>1 DEF Reprovision
  <2> HIDE DEF j
  <2> QED
    BY <1>1, <2>1, <2>4, <2>5, <2>6, <2>7, ProcEffect DEF Reprovisioned, Labels
<1>2. CASE ~(workspace.status = st /\ workspace.generation < MaxProvision)
  BY <1>2 DEF Reprovision
<1> QED
  BY <1>1, <1>2

Scheduled(p) ==
    /\ StillThisProvision(p) /\ Target(p) \in LabIds /\ ~Reserved(Target(p))
    /\ provision'[Target(p)].status = "PENDING"
    /\ provision'[Target(p)].settled = FALSE
    /\ \A l \in LabIds \ {Target(p)} : provision'[l] = provision[l]
    /\ pc'[p] = "post" /\ job'[p].lab = Target(p)
    /\ job'[p].row = job[p].row /\ job'[p].generation = job[p].generation
    /\ \A q \in Procs \ {p} : pc'[q] = pc[q] /\ job'[q] = job[q]

LEMMA ScheduleEffect ==
  ASSUME TypeOK, HeldOK, NEW p \in Procs, ScheduleProvision(p)
  PROVE  Scheduled(p) \/ (UNCHANGED provision /\ Done(p))
<1> DEFINE l == Target(p)
           j == [job[p] EXCEPT !.lab = l]
<1>1. job[p] \in Jobs /\ job[p].row \in RowIds /\ job[p].generation \in Provisions
  BY DEF ScheduleProvision, TypeOK, HeldOK, Creator, At, Jobs
<1>2. l \in LabIds
  BY <1>1, LabTypes DEF Target
<1>3. j \in Jobs /\ j.lab = l /\ j.row = job[p].row /\ j.generation = job[p].generation
  BY <1>1, <1>2 DEF Jobs
<1> HIDE DEF j
<1>4. CASE StillThisProvision(p) /\ ~Reserved(l)
  <2> DEFINE r == [NoProvision EXCEPT !.status = "PENDING"]
  <2>1. r.status = "PENDING" /\ r.settled = FALSE
    BY DEF NoProvision
  <2> HIDE DEF r
  <2>2. provision' = [provision EXCEPT ![l] = r] /\ Goto(p, "post") /\ Hold(p, j)
    BY <1>4 DEF ScheduleProvision, Target, j, r
  <2> QED
    BY <1>1, <1>2, <1>3, <1>4, <2>1, <2>2, ProcEffect DEF Scheduled, TypeOK, Labels
<1>5. CASE ~(StillThisProvision(p) /\ ~Reserved(l))
  BY <1>5 DEF ScheduleProvision, Target
<1> QED
  BY <1>4, <1>5

Wins(p) ==
    /\ provision[job[p].lab].status = "PENDING" /\ StillThisProvision(p)
    /\ job[p].lab \in LabIds
    /\ provision'[job[p].lab] = NoProvision
    /\ \A l \in LabIds \ {job[p].lab} : provision'[l] = provision[l]
    /\ workspace' \in Rows /\ workspace'.row = workspace.row
    /\ workspace'.status = "RUNNING" /\ workspace'.lab = job[p].lab
    /\ workspace'.generation = workspace.generation
    /\ Done(p)

LEMMA AttachEffect ==
  ASSUME TypeOK, HeldOK, NEW p \in Procs, Attach(p)
  PROVE  Wins(p) \/ (UNCHANGED <<workspace, provision>> /\ Become(p, "claim"))
<1> DEFINE l == job[p].lab
<1>1. l \in LabIds
  BY DEF Attach, HeldOK, At
<1>2. CASE provision[l].status = "PENDING" /\ StillThisProvision(p)
  <2>1. workspace \in Rows
    BY <1>2, RowOrNone DEF StillThisProvision, Still
  <2>2. /\ provision' = [provision EXCEPT ![l] = NoProvision]
        /\ workspace' = [workspace EXCEPT !.status = "RUNNING", !.starting = FALSE, !.lab = l]
        /\ Done(p)
    BY <1>2 DEF Attach
  <2>3. /\ workspace' \in Rows /\ workspace'.row = workspace.row
        /\ workspace'.status = "RUNNING" /\ workspace'.lab = l
        /\ workspace'.generation = workspace.generation
    BY <1>1, <2>1, <2>2 DEF Rows, Statuses
  <2> QED
    BY <1>1, <1>2, <2>2, <2>3 DEF Wins, TypeOK
<1>3. CASE ~(provision[l].status = "PENDING" /\ StillThisProvision(p))
  BY <1>3 DEF Attach
<1> QED
  BY <1>2, <1>3

\* A claim: the record becomes, or stays, CLEANUP.
LEMMA ClaimedEffect ==
  ASSUME TypeOK, NEW l \in LabIds, Reserved(l), provision' = Claimed(l)
  PROVE  /\ provision'[l].status = "CLEANUP" /\ provision'[l].settled = provision[l].settled
         /\ \A k \in LabIds \ {l} : provision'[k] = provision[k]
<1>1. provision[l] \in ProvisionRows
  BY ProvisionFields DEF TypeOK, Reserved
<1> QED
  BY <1>1 DEF Claimed, TypeOK, ProvisionRows

LEMMA RowEdit ==
  ASSUME TypeOK, NEW st
  PROVE  /\ [workspace EXCEPT !.status = st].status = st
         /\ [workspace EXCEPT !.status = st].row = workspace.row
         /\ [workspace EXCEPT !.status = st].lab = workspace.lab
         /\ [workspace EXCEPT !.status = st].generation = workspace.generation
         /\ [workspace EXCEPT !.status = st].starting = workspace.starting
  BY DEF TypeOK, Rows, NoRow

LEMMA NoRowValues ==
    NoRow.row = 0 /\ NoRow.status = "NONE" /\ NoRow.lab = NoLab /\ NoRow.generation = 0
  BY DEF NoRow

-----------------------------------------------------------------------------

LEMMA TypeStep == TypeOK /\ HeldOK /\ [Next]_vars => TypeOK'
<1> SUFFICES ASSUME TypeOK, HeldOK, [Next]_vars PROVE TypeOK'
  OBVIOUS
<1> USE ProvisionFields, Zeros, Successors, LabTypes, NoJobType, RowOrNone
<1> USE DEF TypeOK, Done, Become, Goto, Hold, At, rowVars, labsVars, procVars, Labels,
      Statuses, Rows, NoRow, Jobs
<1>Create. ASSUME NEW p \in Procs, Create(p) PROVE TypeOK'
  BY <1>Create DEF Create
<1>CreateRetry. ASSUME NEW p \in Procs, CreateRetry(p) PROVE TypeOK'
  BY <1>CreateRetry, ReprovisionType DEF CreateRetry
<1>CreateInsert. ASSUME NEW p \in Procs, CreateInsert(p) PROVE TypeOK'
  <2> DEFINE j == [job[p] EXCEPT !.row = nextRow, !.generation = 0]
             r == [NoRow EXCEPT !.row = nextRow, !.status = "CREATING", !.starting = TRUE]
  <2>1. nextRow \in RowIds /\ nextRow + 1 \in 1 .. MaxRows + 1 /\ job[p] \in Jobs
    BY <1>CreateInsert, BoundsAssumption DEF CreateInsert, RowIds
  <2>2. r \in Rows
    BY <2>1
  <2>3. j \in Jobs
    BY <2>1, JobFields, Zeros
  <2> HIDE DEF j, r
  <2>4. /\ workspace' = r /\ nextRow' = nextRow + 1 /\ Goto(p, "schedule") /\ Hold(p, j)
        /\ UNCHANGED <<enrollment, provision, post, vm, deletes>>
    BY <1>CreateInsert DEF CreateInsert, j, r
  <2>5. pc' \in [Procs -> Labels] /\ job' \in [Procs -> Jobs]
    BY <2>3, <2>4, ProcTypes DEF Labels
  <2> QED
    BY <2>1, <2>2, <2>4, <2>5
<1>ScheduleRefused. ASSUME NEW p \in Procs, ScheduleRefused(p) PROVE TypeOK'
  BY <1>ScheduleRefused DEF ScheduleRefused, StillThisProvision, Still
<1>ScheduleProvision. ASSUME NEW p \in Procs, ScheduleProvision(p) PROVE TypeOK'
  <2> DEFINE l == LabOf(job[p].row, job[p].generation)
  <2>1. job[p] \in Jobs /\ l \in LabIds
    BY <1>ScheduleProvision DEF ScheduleProvision, HeldOK, Creator
  <2> HIDE DEF l
  <2>2. provision' \in [LabIds -> ProvisionRows \cup {NoProvision}]
    BY <1>ScheduleProvision, <2>1 DEF ScheduleProvision, l
  <2>3. pc' \in [Procs -> Labels]
    <3>1. Goto(p, "post") \/ Done(p)
      BY <1>ScheduleProvision DEF ScheduleProvision
    <3> QED
      BY <3>1, ProcTypes DEF Labels
  <2>4. job' \in [Procs -> Jobs]
    <3>1. [job[p] EXCEPT !.lab = l] \in Jobs
      BY <2>1, JobFields
    <3>2. Hold(p, [job[p] EXCEPT !.lab = l]) \/ Done(p)
      BY <1>ScheduleProvision DEF ScheduleProvision, l
    <3> HIDE DEF Hold, Done
    <3> QED
      BY <3>1, <3>2, ProcTypes
  <2> QED
    BY <1>ScheduleProvision, <2>2, <2>3, <2>4 DEF ScheduleProvision
<1>PostVm. ASSUME NEW p \in Procs, PostVm(p) PROVE TypeOK'
  BY <1>PostVm DEF PostVm
<1>CreateVmFails. ASSUME NEW p \in Procs, CreateVmFails(p) PROVE TypeOK'
  BY <1>CreateVmFails DEF CreateVmFails, StillThisProvision, Still
<1>CreateVmAnswers. ASSUME NEW p \in Procs, CreateVmAnswers(p) PROVE TypeOK'
  <2>1. job[p].lab \in LabIds
    BY <1>CreateVmAnswers DEF CreateVmAnswers, HeldOK
  <2>2. provision' \in [LabIds -> ProvisionRows \cup {NoProvision}]
    BY <1>CreateVmAnswers, <2>1 DEF CreateVmAnswers, Reserved
  <2> QED
    BY <1>CreateVmAnswers, <2>2 DEF CreateVmAnswers
<1>Attach. ASSUME NEW p \in Procs, Attach(p) PROVE TypeOK'
  <2>1. job[p].lab \in LabIds
    BY <1>Attach DEF Attach, HeldOK
  <2>2. workspace' \in Rows \cup {NoRow}
    <3>1. ASSUME StillThisProvision(p)
          PROVE  [workspace EXCEPT !.status = "RUNNING", !.starting = FALSE,
                                   !.lab = job[p].lab] \in Rows
      BY <2>1, <3>1 DEF StillThisProvision, Still
    <3> QED
      BY <1>Attach, <3>1 DEF Attach
  <2>3. provision' \in [LabIds -> ProvisionRows \cup {NoProvision}]
    BY <1>Attach, <2>1 DEF Attach
  <2>4. pc' \in [Procs -> Labels] /\ job' \in [Procs -> Jobs]
    <3>1. \/ Done(p)
          \/ Become(p, "claim")
      BY <1>Attach DEF Attach
    <3> QED
      BY <3>1, ProcTypes DEF Labels
  <2> QED
    BY <1>Attach, <2>2, <2>3, <2>4 DEF Attach
<1>Claim. ASSUME NEW p \in Procs, Claim(p) PROVE TypeOK'
  <2>1. provision' \in [LabIds -> ProvisionRows \cup {NoProvision}]
    <3>1. job[p].lab \in LabIds
      BY <1>Claim DEF Claim, HeldOK
    <3>2. Reserved(job[p].lab) => Claimed(job[p].lab) \in [LabIds -> ProvisionRows \cup {NoProvision}]
      BY <3>1 DEF Claimed, Reserved
    <3> QED
      BY <1>Claim, <3>2 DEF Claim
  <2>2. Done(p) \/ Become(p, "cleanDelete")
    BY <1>Claim DEF Claim
  <2>3. pc' \in [Procs -> Labels] /\ job' \in [Procs -> Jobs]
    BY <2>2, ProcTypes
  <2> QED
    BY <1>Claim, <2>1, <2>3 DEF Claim
<1>SweepProvision. ASSUME NEW p \in Procs, NEW l \in LabIds, SweepProvision(p, l)
      PROVE TypeOK'
  BY <1>SweepProvision DEF SweepProvision, Claimed, Reserved
<1>CleanDelete. ASSUME NEW p \in Procs, CleanDelete(p) PROVE TypeOK'
  <2>1. job[p] \in Jobs /\ job[p].lab \in LabIds
    BY <1>CleanDelete DEF CleanDelete, HeldOK
  <2>2. provision[job[p].lab].settled \in BOOLEAN
    BY <2>1, ProvisionFields
  <2>3. job' \in [Procs -> Jobs]
    BY <1>CleanDelete, <2>1, <2>2, JobFields DEF CleanDelete
  <2>4. deletes' \in SUBSET LabIds /\ pc' \in [Procs -> Labels]
    BY <1>CleanDelete, <2>1 DEF CleanDelete
  <2> QED
    BY <1>CleanDelete, <2>3, <2>4 DEF CleanDelete
<1>CleanConfirmed. ASSUME NEW p \in Procs, CleanConfirmed(p) PROVE TypeOK'
  BY <1>CleanConfirmed DEF CleanConfirmed
<1>CleanFails. ASSUME NEW p \in Procs, CleanFails(p) PROVE TypeOK'
  BY <1>CleanFails DEF CleanFails
<1>CleanWrite. ASSUME NEW p \in Procs, CleanWrite(p) PROVE TypeOK'
  BY <1>CleanWrite DEF CleanWrite
<1>Restart. ASSUME NEW p \in Procs, Restart(p) PROVE TypeOK'
  <2>1. enrollment' \in [generation: Generations, active: BOOLEAN]
    BY <1>Restart, BoundsAssumption DEF Restart, Generations
  <2>2. workspace' \in Rows \cup {NoRow}
    <3>1. workspace.status # "NONE" => [workspace EXCEPT !.status = "RESETTING"] \in Rows
      BY RowOrNone
    <3> QED
      BY <1>Restart, <3>1 DEF Restart
  <2>3. pc' \in [Procs -> Labels] /\ job' \in [Procs -> Jobs]
    BY <1>Restart, ProcTypes DEF Restart
  <2> QED
    BY <1>Restart, <2>1, <2>2, <2>3 DEF Restart
<1>SweepReset. ASSUME NEW p \in Procs, SweepReset(p) PROVE TypeOK'
  BY <1>SweepReset DEF SweepReset
<1>ResetDeferred. ASSUME NEW p \in Procs, ResetDeferred(p) PROVE TypeOK'
  BY <1>ResetDeferred DEF ResetDeferred
<1>ResetDelete. ASSUME NEW p \in Procs, ResetDelete(p) PROVE TypeOK'
  <2> DEFINE l == IF workspace.lab # NoLab THEN workspace.lab ELSE LabOf(workspace.row, 0)
             j == [NoJob EXCEPT !.row = workspace.row, !.lab = l]
  <2>1. workspace \in Rows
    BY <1>ResetDelete DEF ResetDelete
  <2>2. workspace.row \in RowIds /\ l \in LabIds
    BY <2>1
  <2>3. j \in Jobs
    BY <2>2, NoJobFields
  <2> HIDE DEF l, j
  <2>4. /\ deletes' = deletes \cup {l} /\ Goto(p, "resetCheck") /\ Hold(p, j)
        /\ UNCHANGED <<enrollment, workspace, nextRow, provision, post, vm>>
    BY <1>ResetDelete DEF ResetDelete, l, j
  <2>5. pc' \in [Procs -> Labels] /\ job' \in [Procs -> Jobs]
    BY <2>3, <2>4, ProcTypes DEF Labels
  <2> QED
    BY <2>2, <2>4, <2>5
<1>ResetConfirmed. ASSUME NEW p \in Procs, ResetConfirmed(p) PROVE TypeOK'
  BY <1>ResetConfirmed DEF ResetConfirmed
<1>ResetFails. ASSUME NEW p \in Procs, ResetFails(p) PROVE TypeOK'
  BY <1>ResetFails DEF ResetFails
<1>ResetWrite. ASSUME NEW p \in Procs, ResetWrite(p) PROVE TypeOK'
  BY <1>ResetWrite DEF ResetWrite, Still
<1>Stop. ASSUME NEW p \in Procs, Stop(p) PROVE TypeOK'
  BY <1>Stop, HoldRowType DEF Stop
<1>StopVmAnswers. ASSUME NEW p \in Procs, StopVmAnswers(p) PROVE TypeOK'
  BY <1>StopVmAnswers DEF StopVmAnswers
<1>StopVmFails. ASSUME NEW p \in Procs, StopVmFails(p) PROVE TypeOK'
  <2>1. vm' \in [LabIds -> {"missing", "on", "off"}]
    BY <1>StopVmFails DEF StopVmFails
  <2>2. Done(p) \/ Become(p, "stopMissing") \/ Become(p, "stopWrite")
    BY <1>StopVmFails DEF StopVmFails
  <2>3. pc' \in [Procs -> Labels] /\ job' \in [Procs -> Jobs]
    BY <2>2, ProcTypes
  <2> QED
    BY <1>StopVmFails, <2>1, <2>3 DEF StopVmFails
<1>StopWrite. ASSUME NEW p \in Procs, StopWrite(p) PROVE TypeOK'
  BY <1>StopWrite DEF StopWrite, Still
<1>MarkVmMissing. ASSUME NEW p \in Procs, MarkVmMissing(p) PROVE TypeOK'
  BY <1>MarkVmMissing DEF MarkVmMissing, Still
<1>Start. ASSUME NEW p \in Procs, Start(p) PROVE TypeOK'
  BY <1>Start DEF Start
<1>StartRead. ASSUME NEW p \in Procs, StartRead(p) PROVE TypeOK'
  <2>1. pc' \in [Procs -> Labels]
    BY <1>StartRead DEF StartRead
  <2>2. job' \in [Procs -> Jobs]
    <3>1. CASE workspace.status = "STOPPED"
      BY <1>StartRead, <3>1, HoldRowType DEF StartRead
    <3>2. CASE workspace.status # "STOPPED"
      BY <1>StartRead, <3>2 DEF StartRead
    <3> QED
      BY <3>1, <3>2
  <2> QED
    BY <1>StartRead, <2>1, <2>2 DEF StartRead
<1>StartVmAnswers. ASSUME NEW p \in Procs, StartVmAnswers(p) PROVE TypeOK'
  BY <1>StartVmAnswers DEF StartVmAnswers
<1>StartVmFails. ASSUME NEW p \in Procs, StartVmFails(p) PROVE TypeOK'
  <2>1. vm' \in [LabIds -> {"missing", "on", "off"}]
    BY <1>StartVmFails DEF StartVmFails
  <2>2. Done(p) \/ Become(p, "rebuild")
    BY <1>StartVmFails DEF StartVmFails
  <2>3. pc' \in [Procs -> Labels] /\ job' \in [Procs -> Jobs]
    BY <2>2, ProcTypes
  <2> QED
    BY <1>StartVmFails, <2>1, <2>3 DEF StartVmFails
<1>StartWrite. ASSUME NEW p \in Procs, StartWrite(p) PROVE TypeOK'
  BY <1>StartWrite DEF StartWrite, Still
<1>RebuildMissingVm. ASSUME NEW p \in Procs, RebuildMissingVm(p) PROVE TypeOK'
  <2>1. CASE workspace.row = job[p].row /\ Reprovision(p, "STOPPED")
    BY <1>RebuildMissingVm, <2>1, ReprovisionType DEF RebuildMissingVm
  <2>2. CASE UNCHANGED workspace /\ Done(p)
    BY <1>RebuildMissingVm, <2>2 DEF RebuildMissingVm
  <2> QED
    BY <1>RebuildMissingVm, <2>1, <2>2 DEF RebuildMissingVm
<1>Crash. ASSUME NEW p \in Procs, Crash(p) PROVE TypeOK'
  BY <1>Crash DEF Crash
<1>ExpireCreating. CASE ExpireCreating
  BY <1>ExpireCreating DEF ExpireCreating
<1>Enroll. CASE Enroll
  BY <1>Enroll DEF Enroll
<1>LabsCreates. ASSUME NEW l \in LabIds, LabsCreates(l) PROVE TypeOK'
  BY <1>LabsCreates DEF LabsCreates
<1>LabsRefuses. ASSUME NEW l \in LabIds, LabsRefuses(l) PROVE TypeOK'
  BY <1>LabsRefuses DEF LabsRefuses
<1>LabsDeletes. ASSUME NEW l \in LabIds, LabsDeletes(l) PROVE TypeOK'
  BY <1>LabsDeletes DEF LabsDeletes
<1>GuestPowersOff. ASSUME NEW l \in LabIds, GuestPowersOff(l) PROVE TypeOK'
  BY <1>GuestPowersOff DEF GuestPowersOff
<1>HostLosesVm. ASSUME NEW l \in LabIds, HostLosesVm(l) PROVE TypeOK'
  BY <1>HostLosesVm DEF HostLosesVm
<1>unchanged. CASE UNCHANGED vars
  BY <1>unchanged DEF vars
<1> QED
  BY <1>Create, <1>CreateRetry, <1>CreateInsert, <1>ScheduleRefused,
     <1>ScheduleProvision, <1>PostVm, <1>CreateVmFails, <1>CreateVmAnswers, <1>Attach,
     <1>Claim, <1>SweepProvision, <1>CleanDelete, <1>CleanConfirmed, <1>CleanFails,
     <1>CleanWrite, <1>Restart, <1>SweepReset, <1>ResetDeferred, <1>ResetDelete,
     <1>ResetConfirmed, <1>ResetFails, <1>ResetWrite, <1>Stop, <1>StopVmAnswers,
     <1>StopVmFails, <1>StopWrite, <1>MarkVmMissing, <1>Start, <1>StartRead,
     <1>StartVmAnswers, <1>StartVmFails, <1>StartWrite, <1>RebuildMissingVm, <1>Crash,
     <1>ExpireCreating, <1>Enroll, <1>LabsCreates, <1>LabsRefuses, <1>LabsDeletes,
     <1>GuestPowersOff, <1>HostLosesVm, <1>unchanged
  DEF Next, Step, CreateSteps, ProvisionSteps, CleanupSteps, ResetSteps, StopSteps,
      StartSteps, Labs

LEMMA HeldStep == TypeOK /\ HeldOK /\ [Next]_vars => HeldOK'
<1> SUFFICES ASSUME TypeOK, HeldOK, [Next]_vars PROVE HeldOK'
  OBVIOUS
<1> USE RowOrNone, Zeros, Successors, LabTypes
<1> USE DEF TypeOK, HeldOK, Creator, Done, Become, Goto, Hold, At, rowVars, labsVars,
      procVars, Rows, Jobs, NoJob, NoRow
<1>Create. ASSUME NEW p \in Procs, Create(p) PROVE HeldOK'
  BY <1>Create DEF Create
<1>CreateRetry. ASSUME NEW p \in Procs, CreateRetry(p) PROVE HeldOK'
  <2>1. Reprovisioned(p, "ERROR") \/ (UNCHANGED workspace /\ Done(p))
    BY <1>CreateRetry, ReprovisionEffect DEF CreateRetry, Statuses
  <2> QED
    BY <2>1 DEF Reprovisioned
<1>CreateInsert. ASSUME NEW p \in Procs, CreateInsert(p) PROVE HeldOK'
  BY <1>CreateInsert DEF CreateInsert
<1>ScheduleRefused. ASSUME NEW p \in Procs, ScheduleRefused(p) PROVE HeldOK'
  BY <1>ScheduleRefused DEF ScheduleRefused, StillThisProvision, Still
<1>ScheduleProvision. ASSUME NEW p \in Procs, ScheduleProvision(p) PROVE HeldOK'
  <2>1. Scheduled(p) \/ (UNCHANGED provision /\ Done(p))
    BY <1>ScheduleProvision, ScheduleEffect
  <2> QED
    <3>1. /\ UNCHANGED workspace
          /\ \/ job'[p].row = job[p].row /\ job'[p].lab \in LabIds
             \/ pc'[p] = "idle"
          /\ job[p].row \in RowIds
          /\ \A q \in Procs \ {p} : pc'[q] = pc[q] /\ job'[q] = job[q]
      BY <1>ScheduleProvision, <2>1, ProcEffect, LabTypes DEF ScheduleProvision,
         Scheduled, Target
    <3> HIDE DEF TypeOK, Done, Become, Goto, Hold, Rows, Jobs, NoJob, NoRow
    <3> QED
      BY <3>1
<1>PostVm. ASSUME NEW p \in Procs, PostVm(p) PROVE HeldOK'
  BY <1>PostVm DEF PostVm
<1>CreateVmFails. ASSUME NEW p \in Procs, CreateVmFails(p) PROVE HeldOK'
  BY <1>CreateVmFails DEF CreateVmFails, StillThisProvision, Still
<1>CreateVmAnswers. ASSUME NEW p \in Procs, CreateVmAnswers(p) PROVE HeldOK'
  BY <1>CreateVmAnswers DEF CreateVmAnswers, Reserved
<1>Attach. ASSUME NEW p \in Procs, Attach(p) PROVE HeldOK'
  <2>1. Wins(p) \/ (UNCHANGED <<workspace, provision>> /\ Become(p, "claim"))
    BY <1>Attach, AttachEffect
  <2> QED
    BY <1>Attach, <2>1 DEF Attach, Wins
<1>Claim. ASSUME NEW p \in Procs, Claim(p) PROVE HeldOK'
  BY <1>Claim DEF Claim, Claimed, Reserved
<1>SweepProvision. ASSUME NEW p \in Procs, NEW l \in LabIds, SweepProvision(p, l)
      PROVE HeldOK'
  BY <1>SweepProvision DEF SweepProvision, Claimed, Reserved
<1>CleanDelete. ASSUME NEW p \in Procs, CleanDelete(p) PROVE HeldOK'
  BY <1>CleanDelete DEF CleanDelete
<1>CleanConfirmed. ASSUME NEW p \in Procs, CleanConfirmed(p) PROVE HeldOK'
  BY <1>CleanConfirmed DEF CleanConfirmed
<1>CleanFails. ASSUME NEW p \in Procs, CleanFails(p) PROVE HeldOK'
  BY <1>CleanFails DEF CleanFails
<1>CleanWrite. ASSUME NEW p \in Procs, CleanWrite(p) PROVE HeldOK'
  BY <1>CleanWrite DEF CleanWrite
<1>Restart. ASSUME NEW p \in Procs, Restart(p) PROVE HeldOK'
  BY <1>Restart DEF Restart
<1>SweepReset. ASSUME NEW p \in Procs, SweepReset(p) PROVE HeldOK'
  BY <1>SweepReset DEF SweepReset
<1>ResetDeferred. ASSUME NEW p \in Procs, ResetDeferred(p) PROVE HeldOK'
  BY <1>ResetDeferred DEF ResetDeferred
<1>ResetDelete. ASSUME NEW p \in Procs, ResetDelete(p) PROVE HeldOK'
  BY <1>ResetDelete DEF ResetDelete
<1>ResetConfirmed. ASSUME NEW p \in Procs, ResetConfirmed(p) PROVE HeldOK'
  BY <1>ResetConfirmed DEF ResetConfirmed
<1>ResetFails. ASSUME NEW p \in Procs, ResetFails(p) PROVE HeldOK'
  BY <1>ResetFails DEF ResetFails
<1>ResetWrite. ASSUME NEW p \in Procs, ResetWrite(p) PROVE HeldOK'
  BY <1>ResetWrite DEF ResetWrite, Still
<1>Stop. ASSUME NEW p \in Procs, Stop(p) PROVE HeldOK'
  BY <1>Stop DEF Stop, HoldRow
<1>StopVmAnswers. ASSUME NEW p \in Procs, StopVmAnswers(p) PROVE HeldOK'
  BY <1>StopVmAnswers DEF StopVmAnswers
<1>StopVmFails. ASSUME NEW p \in Procs, StopVmFails(p) PROVE HeldOK'
  BY <1>StopVmFails DEF StopVmFails
<1>StopWrite. ASSUME NEW p \in Procs, StopWrite(p) PROVE HeldOK'
  BY <1>StopWrite DEF StopWrite, Still
<1>MarkVmMissing. ASSUME NEW p \in Procs, MarkVmMissing(p) PROVE HeldOK'
  BY <1>MarkVmMissing DEF MarkVmMissing, Still
<1>Start. ASSUME NEW p \in Procs, Start(p) PROVE HeldOK'
  BY <1>Start DEF Start
<1>StartRead. ASSUME NEW p \in Procs, StartRead(p) PROVE HeldOK'
  <2>1. UNCHANGED workspace
    BY <1>StartRead DEF StartRead
  <2>2. \/ /\ pc'[p] = "start" /\ job'[p].lab \in LabIds
           /\ \A q \in Procs \ {p} : pc'[q] = pc[q] /\ job'[q] = job[q]
        \/ Done(p)
    BY <1>StartRead, HoldRowEffect DEF StartRead, Labels
  <2>3. \/ /\ pc'[p] = "start" /\ job'[p].lab \in LabIds
        \/ pc'[p] = "idle"
    BY <2>2, ProcEffect
  <2>4. \A q \in Procs \ {p} : pc'[q] = pc[q] /\ job'[q] = job[q]
    BY <2>2, ProcEffect
  <2> HIDE DEF TypeOK, Done, Become, Goto, Hold, Rows, Jobs, NoJob, NoRow
  <2> QED
    BY <2>1, <2>3, <2>4
<1>StartVmAnswers. ASSUME NEW p \in Procs, StartVmAnswers(p) PROVE HeldOK'
  BY <1>StartVmAnswers DEF StartVmAnswers
<1>StartVmFails. ASSUME NEW p \in Procs, StartVmFails(p) PROVE HeldOK'
  BY <1>StartVmFails DEF StartVmFails
<1>StartWrite. ASSUME NEW p \in Procs, StartWrite(p) PROVE HeldOK'
  BY <1>StartWrite DEF StartWrite, Still
<1>RebuildMissingVm. ASSUME NEW p \in Procs, RebuildMissingVm(p) PROVE HeldOK'
  <2>1. Reprovisioned(p, "STOPPED") \/ (UNCHANGED workspace /\ Done(p))
    BY <1>RebuildMissingVm, ReprovisionEffect DEF RebuildMissingVm, Statuses
  <2> QED
    BY <2>1 DEF Reprovisioned
<1>Crash. ASSUME NEW p \in Procs, Crash(p) PROVE HeldOK'
  BY <1>Crash DEF Crash
<1>ExpireCreating. CASE ExpireCreating
  BY <1>ExpireCreating DEF ExpireCreating
<1>Enroll. CASE Enroll
  BY <1>Enroll DEF Enroll
<1>LabsCreates. ASSUME NEW l \in LabIds, LabsCreates(l) PROVE HeldOK'
  BY <1>LabsCreates DEF LabsCreates
<1>LabsRefuses. ASSUME NEW l \in LabIds, LabsRefuses(l) PROVE HeldOK'
  BY <1>LabsRefuses DEF LabsRefuses
<1>LabsDeletes. ASSUME NEW l \in LabIds, LabsDeletes(l) PROVE HeldOK'
  BY <1>LabsDeletes DEF LabsDeletes
<1>GuestPowersOff. ASSUME NEW l \in LabIds, GuestPowersOff(l) PROVE HeldOK'
  BY <1>GuestPowersOff DEF GuestPowersOff
<1>HostLosesVm. ASSUME NEW l \in LabIds, HostLosesVm(l) PROVE HeldOK'
  BY <1>HostLosesVm DEF HostLosesVm
<1>unchanged. CASE UNCHANGED vars
  BY <1>unchanged DEF vars
<1> QED
  BY <1>Create, <1>CreateRetry, <1>CreateInsert, <1>ScheduleRefused,
     <1>ScheduleProvision, <1>PostVm, <1>CreateVmFails, <1>CreateVmAnswers,
     <1>Attach, <1>Claim, <1>SweepProvision, <1>CleanDelete,
     <1>CleanConfirmed, <1>CleanFails, <1>CleanWrite, <1>Restart,
     <1>SweepReset, <1>ResetDeferred, <1>ResetDelete, <1>ResetConfirmed,
     <1>ResetFails, <1>ResetWrite, <1>Stop, <1>StopVmAnswers,
     <1>StopVmFails, <1>StopWrite, <1>MarkVmMissing, <1>Start, <1>StartRead,
     <1>StartVmAnswers, <1>StartVmFails, <1>StartWrite, <1>RebuildMissingVm,
     <1>Crash, <1>ExpireCreating, <1>Enroll, <1>LabsCreates, <1>LabsRefuses,
     <1>LabsDeletes, <1>GuestPowersOff, <1>HostLosesVm, <1>unchanged
  DEF Next, Step, CreateSteps, ProvisionSteps, CleanupSteps, ResetSteps,
      StopSteps, StartSteps, Labs

-----------------------------------------------------------------------------
(* Nothing is used before it is issued *)

\* How the row may move under the identifiers already issued.
RowMoves ==
    /\ nextRow <= nextRow' /\ workspace'.row < nextRow'
    /\ workspace'.row = workspace.row => workspace.generation <= workspace'.generation
    /\ workspace'.row # workspace.row => workspace'.row = 0 \/ nextRow <= workspace'.row

LEMMA IssuedStays ==
  ASSUME TypeOK, TypeOK', RowMoves, NEW l \in LabIds, Issued(l)
  PROVE  Issued(l)'
<1>1. l[1] \in RowIds /\ l[2] \in Provisions
  BY DEF LabIds
<1>2. nextRow \in Int /\ nextRow' \in Int /\ l[1] \in Int /\ l[2] \in Int /\ l[1] >= 1
  BY <1>1, BoundsAssumption DEF TypeOK, RowIds, Provisions
<1>3. workspace.generation \in Int /\ workspace'.generation \in Int
      /\ workspace.row \in Int /\ workspace'.row \in Int
  BY BoundsAssumption DEF TypeOK, Rows, NoRow, RowIds, Provisions
<1> QED
  BY <1>2, <1>3 DEF Issued, RowMoves

LEMMA NoLabOutside == NoLab \notin LabIds
  BY DEF NoLab, LabIds, RowIds

LEMMA JobLabs == ASSUME TypeOK, NEW p \in Procs, job[p].lab # NoLab PROVE job[p].lab \in LabIds
  BY DEF TypeOK, Jobs

LEMMA RowLab == ASSUME TypeOK, workspace.lab # NoLab PROVE workspace.lab \in LabIds
  BY RowOrNone

LEMMA CreatorTarget == ASSUME TypeOK, HeldOK, NEW p \in Procs, Creator(p) PROVE Target(p) \in LabIds
  BY LabTypes DEF TypeOK, HeldOK, Target, Jobs

LEMMA IssuedFrame ==
  ASSUME TypeOK, TypeOK', HeldOK, NothingUnissued, NEW p \in Procs, RowMoves,
         workspace'.lab # NoLab => Issued(workspace'.lab),
         \A l \in LabIds : (Reserved(l)' \/ l \in deletes' \/ post'[l] # "none") => Issued(l),
         job'[p].lab # NoLab => Issued(job'[p].lab),
         Creator(p)' => Issued(Target(p))',
         \A q \in Procs \ {p} : pc'[q] = pc[q] /\ job'[q] = job[q]
  PROVE  NothingUnissued'
<1>1. \A l \in LabIds : Issued(l) => Issued(l)'
  BY IssuedStays
<1>2. workspace'.row < nextRow'
  BY DEF RowMoves
<1>3. workspace'.lab # NoLab => Issued(workspace.lab)'
  <2>1. workspace'.lab # NoLab => workspace'.lab \in LabIds
    BY DEF TypeOK, Rows, NoRow
  <2> QED
    BY <1>1, <2>1 DEF Issued
<1>4. \A q \in Procs : job'[q].lab # NoLab => Issued(job[q].lab)'
  <2> SUFFICES ASSUME NEW q \in Procs, job'[q].lab # NoLab PROVE Issued(job[q].lab)'
    OBVIOUS
  <2>1. job'[q].lab \in LabIds
    BY DEF TypeOK, Jobs
  <2>2. Issued(job'[q].lab)
    BY DEF NothingUnissued
  <2> QED
    BY <1>1, <2>1, <2>2 DEF Issued
<1>5. \A q \in Procs : Creator(q)' => Issued(Target(q))'
  <2> SUFFICES ASSUME NEW q \in Procs \ {p}, Creator(q)' PROVE Issued(Target(q))'
    OBVIOUS
  <2>1. Creator(q) /\ Target(q)' = Target(q)
    BY DEF Creator, Target, LabOf
  <2>2. Target(q) \in LabIds /\ Issued(Target(q))
    BY <2>1, CreatorTarget DEF NothingUnissued
  <2> QED
    BY <1>1, <2>1, <2>2 DEF Issued
<1> QED
  BY <1>1, <1>2, <1>3, <1>4, <1>5 DEF NothingUnissued

\* A step of p that moves neither rows nor Labs requests.
LEMMA IssuedQuiet ==
  ASSUME TypeOK, TypeOK', HeldOK, NothingUnissued, NEW p \in Procs,
         UNCHANGED <<rowVars, deletes, post>>,
         \A l \in LabIds : Reserved(l)' => Reserved(l),
         job'[p].lab \in {NoLab, job[p].lab, workspace.lab},
         Creator(p)' => /\ Creator(p) /\ job'[p].row = job[p].row
                        /\ job'[p].generation = job[p].generation,
         \A q \in Procs \ {p} : pc'[q] = pc[q] /\ job'[q] = job[q]
  PROVE  NothingUnissued'
<1>1. RowMoves
  BY BoundsAssumption DEF RowMoves, rowVars, TypeOK, NothingUnissued, Rows, NoRow,
     Provisions
<1>2. Creator(p)' => Issued(Target(p))'
  BY DEF NothingUnissued, Issued, Target, LabOf, rowVars
<1> QED
  BY <1>1, <1>2, IssuedFrame DEF NothingUnissued, rowVars

LEMMA IssuedReprovisioned ==
  ASSUME TypeOK, TypeOK', HeldOK, NothingUnissued, NEW p \in Procs, NEW st,
         Reprovisioned(p, st), UNCHANGED <<nextRow, deletes, post, provision>>
  PROVE  NothingUnissued'
<1>1. workspace.generation \in Int /\ workspace.row \in Int
  BY BoundsAssumption DEF Reprovisioned, Rows, Provisions, RowIds
<1>2. RowMoves
  BY <1>1 DEF RowMoves, Reprovisioned, NothingUnissued, TypeOK
<1>3. Issued(Target(p))'
  BY <1>1 DEF Reprovisioned, Issued, Target, LabOf, NothingUnissued
<1>4. \A l \in LabIds : (Reserved(l)' \/ l \in deletes' \/ post'[l] # "none") => Issued(l)
  BY DEF Reserved, NothingUnissued
<1> QED
  BY <1>2, <1>3, <1>4, IssuedFrame DEF Reprovisioned, NothingUnissued

LEMMA IssuedStep == TypeOK /\ HeldOK /\ NothingUnissued /\ [Next]_vars => NothingUnissued'
<1> SUFFICES ASSUME TypeOK, TypeOK', HeldOK, NothingUnissued, [Next]_vars
      PROVE NothingUnissued'
  BY TypeStep
<1>Create. ASSUME NEW p \in Procs, Create(p) PROVE NothingUnissued'
  BY <1>Create, Zeros, NoRowValues, NoJobValues, BoundsAssumption
  DEF Create, NothingUnissued, Issued, Target, LabOf,
      Reserved, Creator, Done, Become, Goto, Hold, At, TypeOK, rowVars, labsVars,
      procVars,
      Rows, Jobs, NoRow, NoJob, NoProvision, Provisions, Generations
<1>CreateRetry. ASSUME NEW p \in Procs, CreateRetry(p) PROVE NothingUnissued'
  <2>1. Reprovisioned(p, "ERROR") \/ (UNCHANGED workspace /\ Done(p))
    BY <1>CreateRetry, ReprovisionEffect DEF CreateRetry, Statuses
  <2>2. UNCHANGED <<nextRow, deletes, post, provision>>
    BY <1>CreateRetry DEF CreateRetry, labsVars
  <2>3. CASE Reprovisioned(p, "ERROR")
    BY <2>2, <2>3, IssuedReprovisioned
  <2>4. CASE UNCHANGED workspace /\ Done(p)
    BY <2>2, <2>4, ProcEffect, IssuedQuiet, NoJobValues DEF Labels, Creator, Reserved,
       rowVars
  <2> QED
    BY <2>1, <2>3, <2>4
<1>CreateInsert. ASSUME NEW p \in Procs, CreateInsert(p) PROVE NothingUnissued'
  <2>1. /\ workspace'.row = nextRow /\ workspace'.lab = NoLab /\ workspace'.generation = 0
        /\ nextRow' = nextRow + 1 /\ workspace.row = 0 /\ nextRow \in RowIds
        /\ UNCHANGED <<provision, deletes, post>>
    BY <1>CreateInsert, Successors DEF CreateInsert, TypeOK, Rows, NoRow, Statuses,
       labsVars
  <2> DEFINE j == [job[p] EXCEPT !.row = nextRow, !.generation = 0]
  <2>2. job[p] \in Jobs /\ j \in Jobs
    BY <2>1, JobFields, Zeros DEF TypeOK
  <2>3. j.row = nextRow /\ j.lab = job[p].lab /\ j.generation = 0
    BY <2>2 DEF Jobs
  <2> HIDE DEF j
  <2>4. /\ pc'[p] = "schedule" /\ job'[p] = j
        /\ \A q \in Procs \ {p} : pc'[q] = pc[q] /\ job'[q] = job[q]
    BY <1>CreateInsert, <2>2, ProcEffect DEF CreateInsert, Labels, j
  <2>5. RowMoves
    BY <2>1 DEF RowMoves, RowIds, TypeOK
  <2>6. nextRow \in Int
    BY <2>1 DEF RowIds
  <2>7. Issued(Target(p))'
    BY <2>1, <2>3, <2>4, <2>6 DEF Issued, Target, LabOf
  <2>8. \A l \in LabIds : (Reserved(l)' \/ l \in deletes' \/ post'[l] # "none") => Issued(l)
    BY <2>1 DEF Reserved, NothingUnissued
  <2> QED
    BY <2>1, <2>3, <2>4, <2>5, <2>7, <2>8, IssuedFrame DEF NothingUnissued
<1>ScheduleRefused. ASSUME NEW p \in Procs, ScheduleRefused(p) PROVE NothingUnissued'
  BY <1>ScheduleRefused, Zeros, NoRowValues, NoJobValues, BoundsAssumption
  DEF ScheduleRefused, StillThisProvision, Still, NothingUnissued, Issued, Target,
      LabOf,
      Reserved, Creator, Done, Become, Goto, Hold, At, TypeOK, rowVars, labsVars,
      procVars,
      Rows, Jobs, NoRow, NoJob, NoProvision, Provisions, Generations
<1>ScheduleProvision. ASSUME NEW p \in Procs, ScheduleProvision(p)
      PROVE NothingUnissued'
  <2>1. Scheduled(p) \/ (UNCHANGED provision /\ Done(p))
    BY <1>ScheduleProvision, ScheduleEffect
  <2>2. UNCHANGED <<rowVars, deletes, post>> /\ Creator(p)
    BY <1>ScheduleProvision DEF ScheduleProvision, labsVars, Creator, At
  <2>3. CASE Scheduled(p)
    <3>1. Issued(Target(p)) /\ Target(p) \in LabIds
      BY <2>2, CreatorTarget DEF NothingUnissued
    <3>2. RowMoves
      BY <2>2, BoundsAssumption
      DEF RowMoves, rowVars, TypeOK, NothingUnissued, Rows, NoRow, Provisions
    <3>3. \A l \in LabIds : (Reserved(l)' \/ l \in deletes' \/ post'[l] # "none") => Issued(l)
      BY <2>2, <2>3, <3>1 DEF Scheduled, Reserved, NothingUnissued
    <3>4. Issued(Target(p))'
      BY <2>2, <2>3, <3>1 DEF Scheduled, Issued, Target, LabOf, rowVars
    <3>5. job'[p].lab # NoLab => Issued(job'[p].lab)
      BY <2>3, <3>1 DEF Scheduled
    <3> QED
      BY <2>2, <2>3, <3>2, <3>3, <3>4, <3>5, IssuedFrame DEF Scheduled,
         NothingUnissued, rowVars
  <2>4. CASE UNCHANGED provision /\ Done(p)
    BY <2>2, <2>4, ProcEffect, IssuedQuiet, NoJobValues DEF Labels, Creator, Reserved
  <2> QED
    BY <2>1, <2>3, <2>4
<1>PostVm. ASSUME NEW p \in Procs, PostVm(p) PROVE NothingUnissued'
  <2>1. job[p].lab \in LabIds /\ Issued(job[p].lab)
    BY <1>PostVm, NoLabOutside DEF PostVm, HeldOK, At, NothingUnissued, TypeOK
  <2>2. Become(p, "posted")
    BY <1>PostVm DEF PostVm
  <2>3. pc'[p] = "posted" /\ job' = job /\ \A q \in Procs \ {p} : pc'[q] = pc[q]
    BY <2>2, ProcEffect DEF Labels
  <2>4. RowMoves
    BY <1>PostVm, BoundsAssumption
    DEF PostVm, RowMoves, rowVars, TypeOK, NothingUnissued, Rows, NoRow, Provisions
  <2>5. \A l \in LabIds : (Reserved(l)' \/ l \in deletes' \/ post'[l] # "none") => Issued(l)
    BY <1>PostVm, <2>1 DEF PostVm, Reserved, NothingUnissued, TypeOK
  <2>6. Issued(Target(p))'
    BY <1>PostVm, <2>3 DEF PostVm, At, Creator, NothingUnissued, Issued, Target, LabOf,
       rowVars
  <2> QED
    BY <1>PostVm, <2>3, <2>4, <2>5, <2>6, IssuedFrame DEF PostVm, NothingUnissued,
       rowVars
<1>CreateVmFails. ASSUME NEW p \in Procs, CreateVmFails(p) PROVE NothingUnissued'
  BY <1>CreateVmFails, Zeros, NoRowValues, NoJobValues, BoundsAssumption
  DEF CreateVmFails, StillThisProvision, Still, NothingUnissued, Issued, Target, LabOf,
      Reserved, Creator, Done, Become, Goto, Hold, At, TypeOK, rowVars, labsVars,
      procVars,
      Rows, Jobs, NoRow, NoJob, NoProvision, Provisions, Generations
<1>CreateVmAnswers. ASSUME NEW p \in Procs, CreateVmAnswers(p) PROVE NothingUnissued'
  BY <1>CreateVmAnswers, Zeros, NoRowValues, NoJobValues, BoundsAssumption
  DEF CreateVmAnswers, At, NothingUnissued, Issued, Target, LabOf,
      Reserved, Creator, Done, Become, Goto, Hold, At, TypeOK, rowVars, labsVars,
      procVars,
      Rows, Jobs, NoRow, NoJob, NoProvision, Provisions, Generations
<1>Attach. ASSUME NEW p \in Procs, Attach(p) PROVE NothingUnissued'
  <2>1. Wins(p) \/ (UNCHANGED <<workspace, provision>> /\ Become(p, "claim"))
    BY <1>Attach, AttachEffect
  <2>2. UNCHANGED <<nextRow, deletes, post>>
    BY <1>Attach DEF Attach, labsVars
  <2>3. CASE Wins(p)
    <3>1. workspace'.lab = job[p].lab /\ Issued(job[p].lab)
      BY <2>3, NoLabOutside DEF Wins, NothingUnissued
    <3>2. RowMoves
      BY <2>2, <2>3, BoundsAssumption
      DEF Wins, RowMoves, TypeOK, NothingUnissued, Rows, NoRow, Provisions
    <3>3. \A l \in LabIds : (Reserved(l)' \/ l \in deletes' \/ post'[l] # "none") => Issued(l)
      BY <2>2, <2>3 DEF Wins, Reserved, NothingUnissued, NoProvision
    <3> QED
      BY <2>3, <3>1, <3>2, <3>3, ProcEffect, IssuedFrame, NoJobValues DEF Wins, Creator
  <2>4. CASE UNCHANGED <<workspace, provision>> /\ Become(p, "claim")
    BY <1>Attach, <2>2, <2>4, ProcEffect, IssuedQuiet DEF Attach, Labels, Creator,
       Reserved, rowVars, At
  <2> QED
    BY <2>1, <2>3, <2>4
<1>Claim. ASSUME NEW p \in Procs, Claim(p) PROVE NothingUnissued'
  <2>1. job[p].lab \in LabIds
    BY <1>Claim DEF Claim, HeldOK, At
  <2>2. \A l \in LabIds : Reserved(l)' => Reserved(l)
    BY <1>Claim, <2>1, ClaimedEffect DEF Claim, Reserved
  <2>3. Done(p) \/ Become(p, "cleanDelete")
    BY <1>Claim DEF Claim
  <2>4. UNCHANGED <<rowVars, deletes, post>>
    BY <1>Claim DEF Claim, labsVars
  <2> QED
    BY <2>2, <2>3, <2>4, ProcEffect, IssuedQuiet, NoJobValues DEF Labels, Creator
<1>SweepProvision. ASSUME NEW p \in Procs, NEW l \in LabIds, SweepProvision(p, l)
      PROVE NothingUnissued'
  BY <1>SweepProvision, Zeros, NoRowValues, NoJobValues, BoundsAssumption
  DEF SweepProvision, Claimed, NothingUnissued, Issued, Target, LabOf,
      Reserved, Creator, Done, Become, Goto, Hold, At, TypeOK, rowVars, labsVars,
      procVars,
      Rows, Jobs, NoRow, NoJob, NoProvision, Provisions, Generations
<1>CleanDelete. ASSUME NEW p \in Procs, CleanDelete(p) PROVE NothingUnissued'
  <2>1. job[p].lab \in LabIds /\ Issued(job[p].lab) /\ job[p] \in Jobs
    BY <1>CleanDelete, NoLabOutside DEF CleanDelete, HeldOK, At, NothingUnissued, TypeOK
  <2> DEFINE j == [job[p] EXCEPT !.settled = provision[job[p].lab].settled]
  <2> provision[job[p].lab].settled \in BOOLEAN
    BY <2>1, ProvisionFields DEF TypeOK
  <2>2. j \in Jobs /\ j.lab = job[p].lab
    BY <2>1, JobFields DEF Jobs
  <2> HIDE DEF j
  <2>3. pc'[p] = "cleanCheck" /\ job'[p].lab = job[p].lab
        /\ \A q \in Procs \ {p} : pc'[q] = pc[q] /\ job'[q] = job[q]
    <3>1. Goto(p, "cleanCheck") /\ Hold(p, j)
      BY <1>CleanDelete DEF CleanDelete, j
    <3> QED
      BY <2>2, <3>1, Moves
  <2>4. RowMoves
    BY <1>CleanDelete, BoundsAssumption
    DEF CleanDelete, RowMoves, rowVars, TypeOK, NothingUnissued, Rows, NoRow, Provisions
  <2>5. \A l \in LabIds : (Reserved(l)' \/ l \in deletes' \/ post'[l] # "none") => Issued(l)
    BY <1>CleanDelete, <2>1 DEF CleanDelete, Reserved, NothingUnissued
  <2> QED
    BY <1>CleanDelete, <2>1, <2>3, <2>4, <2>5, IssuedFrame
    DEF CleanDelete, NothingUnissued, rowVars, Creator
<1>CleanConfirmed. ASSUME NEW p \in Procs, CleanConfirmed(p) PROVE NothingUnissued'
  BY <1>CleanConfirmed, Zeros, NoRowValues, NoJobValues, BoundsAssumption
  DEF CleanConfirmed, NothingUnissued, Issued, Target, LabOf,
      Reserved, Creator, Done, Become, Goto, Hold, At, TypeOK, rowVars, labsVars,
      procVars,
      Rows, Jobs, NoRow, NoJob, NoProvision, Provisions, Generations
<1>CleanFails. ASSUME NEW p \in Procs, CleanFails(p) PROVE NothingUnissued'
  BY <1>CleanFails, Zeros, NoRowValues, NoJobValues, BoundsAssumption
  DEF CleanFails, NothingUnissued, Issued, Target, LabOf,
      Reserved, Creator, Done, Become, Goto, Hold, At, TypeOK, rowVars, labsVars,
      procVars,
      Rows, Jobs, NoRow, NoJob, NoProvision, Provisions, Generations
<1>CleanWrite. ASSUME NEW p \in Procs, CleanWrite(p) PROVE NothingUnissued'
  BY <1>CleanWrite, Zeros, NoRowValues, NoJobValues, BoundsAssumption
  DEF CleanWrite, NothingUnissued, Issued, Target, LabOf,
      Reserved, Creator, Done, Become, Goto, Hold, At, TypeOK, rowVars, labsVars,
      procVars,
      Rows, Jobs, NoRow, NoJob, NoProvision, Provisions, Generations
<1>Restart. ASSUME NEW p \in Procs, Restart(p) PROVE NothingUnissued'
  BY <1>Restart, Zeros, NoRowValues, NoJobValues, BoundsAssumption
  DEF Restart, NothingUnissued, Issued, Target, LabOf,
      Reserved, Creator, Done, Become, Goto, Hold, At, TypeOK, rowVars, labsVars,
      procVars,
      Rows, Jobs, NoRow, NoJob, NoProvision, Provisions, Generations
<1>SweepReset. ASSUME NEW p \in Procs, SweepReset(p) PROVE NothingUnissued'
  BY <1>SweepReset, Zeros, NoRowValues, NoJobValues, BoundsAssumption
  DEF SweepReset, NothingUnissued, Issued, Target, LabOf,
      Reserved, Creator, Done, Become, Goto, Hold, At, TypeOK, rowVars, labsVars,
      procVars,
      Rows, Jobs, NoRow, NoJob, NoProvision, Provisions, Generations
<1>ResetDeferred. ASSUME NEW p \in Procs, ResetDeferred(p) PROVE NothingUnissued'
  BY <1>ResetDeferred, Zeros, NoRowValues, NoJobValues, BoundsAssumption
  DEF ResetDeferred, NothingUnissued, Issued, Target, LabOf,
      Reserved, Creator, Done, Become, Goto, Hold, At, TypeOK, rowVars, labsVars,
      procVars,
      Rows, Jobs, NoRow, NoJob, NoProvision, Provisions, Generations
<1>ResetDelete. ASSUME NEW p \in Procs, ResetDelete(p) PROVE NothingUnissued'
  BY <1>ResetDelete, Zeros, NoRowValues, NoJobValues, BoundsAssumption
  DEF ResetDelete, NothingUnissued, Issued, Target, LabOf,
      Reserved, Creator, Done, Become, Goto, Hold, At, TypeOK, rowVars, labsVars,
      procVars,
      Rows, Jobs, NoRow, NoJob, NoProvision, Provisions, Generations
<1>ResetConfirmed. ASSUME NEW p \in Procs, ResetConfirmed(p) PROVE NothingUnissued'
  BY <1>ResetConfirmed, Zeros, NoRowValues, NoJobValues, BoundsAssumption
  DEF ResetConfirmed, NothingUnissued, Issued, Target, LabOf,
      Reserved, Creator, Done, Become, Goto, Hold, At, TypeOK, rowVars, labsVars,
      procVars,
      Rows, Jobs, NoRow, NoJob, NoProvision, Provisions, Generations
<1>ResetFails. ASSUME NEW p \in Procs, ResetFails(p) PROVE NothingUnissued'
  BY <1>ResetFails, Zeros, NoRowValues, NoJobValues, BoundsAssumption
  DEF ResetFails, NothingUnissued, Issued, Target, LabOf,
      Reserved, Creator, Done, Become, Goto, Hold, At, TypeOK, rowVars, labsVars,
      procVars,
      Rows, Jobs, NoRow, NoJob, NoProvision, Provisions, Generations
<1>ResetWrite. ASSUME NEW p \in Procs, ResetWrite(p) PROVE NothingUnissued'
  <2>1. pc'[p] = "idle" /\ job'[p] = NoJob
        /\ \A q \in Procs \ {p} : pc'[q] = pc[q] /\ job'[q] = job[q]
    BY <1>ResetWrite, ProcEffect DEF ResetWrite
  <2>2. workspace' \in {NoRow, workspace} /\ nextRow' = nextRow
    BY <1>ResetWrite DEF ResetWrite
  <2>3. /\ nextRow \in Int /\ nextRow > 0 /\ workspace.generation \in Int
        /\ workspace.row = 0 => workspace.generation = 0
    BY BoundsAssumption DEF TypeOK, Rows, NoRow, Provisions, RowIds
  <2>4. RowMoves
    BY <2>2, <2>3, NoRowValues DEF RowMoves, NothingUnissued
  <2>5. \A l \in LabIds : (Reserved(l)' \/ l \in deletes' \/ post'[l] # "none") => Issued(l)
    BY <1>ResetWrite DEF ResetWrite, Reserved, NothingUnissued, labsVars
  <2> QED
    BY <2>1, <2>2, <2>4, <2>5, IssuedFrame, NoRowValues,
       NoJobValues DEF NothingUnissued, Creator
<1>Stop. ASSUME NEW p \in Procs, Stop(p) PROVE NothingUnissued'
  <2>1. Goto(p, "stop") /\ HoldRow(p) /\ workspace.status = "RUNNING"
    BY <1>Stop DEF Stop
  <2>2. UNCHANGED <<rowVars, deletes, post, provision>>
    BY <1>Stop DEF Stop, labsVars
  <2> QED
    BY <2>1, <2>2, HoldRowEffect, IssuedQuiet DEF Labels, Creator, Reserved
<1>StopVmAnswers. ASSUME NEW p \in Procs, StopVmAnswers(p) PROVE NothingUnissued'
  BY <1>StopVmAnswers, Zeros, NoRowValues, NoJobValues, BoundsAssumption
  DEF StopVmAnswers, NothingUnissued, Issued, Target, LabOf,
      Reserved, Creator, Done, Become, Goto, Hold, At, TypeOK, rowVars, labsVars,
      procVars,
      Rows, Jobs, NoRow, NoJob, NoProvision, Provisions, Generations
<1>StopVmFails. ASSUME NEW p \in Procs, StopVmFails(p) PROVE NothingUnissued'
  <2>1. Done(p) \/ Become(p, "stopMissing") \/ Become(p, "stopWrite")
    BY <1>StopVmFails DEF StopVmFails
  <2>2. UNCHANGED <<rowVars, deletes, post, provision>>
    BY <1>StopVmFails DEF StopVmFails, labsVars
  <2> QED
    BY <2>1, <2>2, ProcEffect, IssuedQuiet, NoJobValues DEF Labels, Creator, Reserved
<1>StopWrite. ASSUME NEW p \in Procs, StopWrite(p) PROVE NothingUnissued'
  BY <1>StopWrite, Zeros, NoRowValues, NoJobValues, BoundsAssumption
  DEF StopWrite, Still, NothingUnissued, Issued, Target, LabOf,
      Reserved, Creator, Done, Become, Goto, Hold, At, TypeOK, rowVars, labsVars,
      procVars,
      Rows, Jobs, NoRow, NoJob, NoProvision, Provisions, Generations
<1>MarkVmMissing. ASSUME NEW p \in Procs, MarkVmMissing(p) PROVE NothingUnissued'
  BY <1>MarkVmMissing, Zeros, NoRowValues, NoJobValues, BoundsAssumption
  DEF MarkVmMissing, Still, NothingUnissued, Issued, Target, LabOf,
      Reserved, Creator, Done, Become, Goto, Hold, At, TypeOK, rowVars, labsVars,
      procVars,
      Rows, Jobs, NoRow, NoJob, NoProvision, Provisions, Generations
<1>Start. ASSUME NEW p \in Procs, Start(p) PROVE NothingUnissued'
  BY <1>Start, Zeros, NoRowValues, NoJobValues, BoundsAssumption
  DEF Start, NothingUnissued, Issued, Target, LabOf,
      Reserved, Creator, Done, Become, Goto, Hold, At, TypeOK, rowVars, labsVars,
      procVars,
      Rows, Jobs, NoRow, NoJob, NoProvision, Provisions, Generations
<1>StartRead. ASSUME NEW p \in Procs, StartRead(p) PROVE NothingUnissued'
  <2>1. UNCHANGED <<rowVars, deletes, post, provision>>
    BY <1>StartRead DEF StartRead, labsVars
  <2>2. CASE workspace.status = "STOPPED"
    <3>1. Goto(p, "start") /\ HoldRow(p)
      BY <1>StartRead, <2>2 DEF StartRead
    <3> QED
      BY <2>1, <2>2, <3>1, HoldRowEffect, IssuedQuiet DEF Labels, Creator, Reserved
  <2>3. CASE Done(p)
    BY <2>1, <2>3, ProcEffect, IssuedQuiet, NoJobValues DEF Labels, Creator, Reserved
  <2> QED
    BY <1>StartRead, <2>2, <2>3 DEF StartRead
<1>StartVmAnswers. ASSUME NEW p \in Procs, StartVmAnswers(p) PROVE NothingUnissued'
  BY <1>StartVmAnswers, Zeros, NoRowValues, NoJobValues, BoundsAssumption
  DEF StartVmAnswers, NothingUnissued, Issued, Target, LabOf,
      Reserved, Creator, Done, Become, Goto, Hold, At, TypeOK, rowVars, labsVars,
      procVars,
      Rows, Jobs, NoRow, NoJob, NoProvision, Provisions, Generations
<1>StartVmFails. ASSUME NEW p \in Procs, StartVmFails(p) PROVE NothingUnissued'
  <2>1. Done(p) \/ Become(p, "rebuild")
    BY <1>StartVmFails DEF StartVmFails
  <2>2. UNCHANGED <<rowVars, deletes, post, provision>>
    BY <1>StartVmFails DEF StartVmFails, labsVars
  <2> QED
    BY <2>1, <2>2, ProcEffect, IssuedQuiet, NoJobValues DEF Labels, Creator, Reserved
<1>StartWrite. ASSUME NEW p \in Procs, StartWrite(p) PROVE NothingUnissued'
  BY <1>StartWrite, Zeros, NoRowValues, NoJobValues, BoundsAssumption
  DEF StartWrite, Still, NothingUnissued, Issued, Target, LabOf,
      Reserved, Creator, Done, Become, Goto, Hold, At, TypeOK, rowVars, labsVars,
      procVars,
      Rows, Jobs, NoRow, NoJob, NoProvision, Provisions, Generations
<1>RebuildMissingVm. ASSUME NEW p \in Procs, RebuildMissingVm(p) PROVE NothingUnissued'
  <2>1. Reprovisioned(p, "STOPPED") \/ (UNCHANGED workspace /\ Done(p))
    BY <1>RebuildMissingVm, ReprovisionEffect DEF RebuildMissingVm, Statuses
  <2>2. UNCHANGED <<nextRow, deletes, post, provision>>
    BY <1>RebuildMissingVm DEF RebuildMissingVm, labsVars
  <2>3. CASE Reprovisioned(p, "STOPPED")
    BY <2>2, <2>3, IssuedReprovisioned
  <2>4. CASE UNCHANGED workspace /\ Done(p)
    BY <2>2, <2>4, ProcEffect, IssuedQuiet, NoJobValues DEF Labels, Creator, Reserved,
       rowVars
  <2> QED
    BY <2>1, <2>3, <2>4
<1>Crash. ASSUME NEW p \in Procs, Crash(p) PROVE NothingUnissued'
  BY <1>Crash, Zeros, NoRowValues, NoJobValues, BoundsAssumption
  DEF Crash, NothingUnissued, Issued, Target, LabOf,
      Reserved, Creator, Done, Become, Goto, Hold, At, TypeOK, rowVars, labsVars,
      procVars,
      Rows, Jobs, NoRow, NoJob, NoProvision, Provisions, Generations
<1>ExpireCreating. CASE ExpireCreating
  BY <1>ExpireCreating, Zeros, NoRowValues, NoJobValues, BoundsAssumption
  DEF ExpireCreating, NothingUnissued, Issued, Target, LabOf,
      Reserved, Creator, Done, Become, Goto, Hold, At, TypeOK, rowVars, labsVars,
      procVars,
      Rows, Jobs, NoRow, NoJob, NoProvision, Provisions, Generations
<1>Enroll. CASE Enroll
  BY <1>Enroll, Zeros, NoRowValues, NoJobValues, BoundsAssumption
  DEF Enroll, NothingUnissued, Issued, Target, LabOf,
      Reserved, Creator, Done, Become, Goto, Hold, At, TypeOK, rowVars, labsVars,
      procVars,
      Rows, Jobs, NoRow, NoJob, NoProvision, Provisions, Generations
<1>LabsCreates. ASSUME NEW l \in LabIds, LabsCreates(l) PROVE NothingUnissued'
  BY <1>LabsCreates, Zeros, NoRowValues, NoJobValues, BoundsAssumption
  DEF LabsCreates, NothingUnissued, Issued, Target, LabOf,
      Reserved, Creator, Done, Become, Goto, Hold, At, TypeOK, rowVars, labsVars,
      procVars,
      Rows, Jobs, NoRow, NoJob, NoProvision, Provisions, Generations
<1>LabsRefuses. ASSUME NEW l \in LabIds, LabsRefuses(l) PROVE NothingUnissued'
  BY <1>LabsRefuses, Zeros, NoRowValues, NoJobValues, BoundsAssumption
  DEF LabsRefuses, NothingUnissued, Issued, Target, LabOf,
      Reserved, Creator, Done, Become, Goto, Hold, At, TypeOK, rowVars, labsVars,
      procVars,
      Rows, Jobs, NoRow, NoJob, NoProvision, Provisions, Generations
<1>LabsDeletes. ASSUME NEW l \in LabIds, LabsDeletes(l) PROVE NothingUnissued'
  BY <1>LabsDeletes, Zeros, NoRowValues, NoJobValues, BoundsAssumption
  DEF LabsDeletes, NothingUnissued, Issued, Target, LabOf,
      Reserved, Creator, Done, Become, Goto, Hold, At, TypeOK, rowVars, labsVars,
      procVars,
      Rows, Jobs, NoRow, NoJob, NoProvision, Provisions, Generations
<1>GuestPowersOff. ASSUME NEW l \in LabIds, GuestPowersOff(l) PROVE NothingUnissued'
  BY <1>GuestPowersOff, Zeros, NoRowValues, NoJobValues, BoundsAssumption
  DEF GuestPowersOff, NothingUnissued, Issued, Target, LabOf,
      Reserved, Creator, Done, Become, Goto, Hold, At, TypeOK, rowVars, labsVars,
      procVars,
      Rows, Jobs, NoRow, NoJob, NoProvision, Provisions, Generations
<1>HostLosesVm. ASSUME NEW l \in LabIds, HostLosesVm(l) PROVE NothingUnissued'
  BY <1>HostLosesVm, Zeros, NoRowValues, NoJobValues, BoundsAssumption
  DEF HostLosesVm, NothingUnissued, Issued, Target, LabOf,
      Reserved, Creator, Done, Become, Goto, Hold, At, TypeOK, rowVars, labsVars,
      procVars,
      Rows, Jobs, NoRow, NoJob, NoProvision, Provisions, Generations
<1>unchanged. CASE UNCHANGED vars
  BY <1>unchanged DEF vars, NothingUnissued, Issued, Target, LabOf, Reserved, Creator
<1> QED
  BY <1>Create, <1>CreateRetry, <1>CreateInsert, <1>ScheduleRefused,
     <1>ScheduleProvision, <1>PostVm, <1>CreateVmFails, <1>CreateVmAnswers,
     <1>Attach, <1>Claim, <1>SweepProvision, <1>CleanDelete,
     <1>CleanConfirmed, <1>CleanFails, <1>CleanWrite, <1>Restart,
     <1>SweepReset, <1>ResetDeferred, <1>ResetDelete, <1>ResetConfirmed,
     <1>ResetFails, <1>ResetWrite, <1>Stop, <1>StopVmAnswers,
     <1>StopVmFails, <1>StopWrite, <1>MarkVmMissing, <1>Start, <1>StartRead,
     <1>StartVmAnswers, <1>StartVmFails, <1>StartWrite, <1>RebuildMissingVm,
     <1>Crash, <1>ExpireCreating, <1>Enroll, <1>LabsCreates, <1>LabsRefuses,
     <1>LabsDeletes, <1>GuestPowersOff, <1>HostLosesVm, <1>unchanged
  DEF Next, Step, CreateSteps, ProvisionSteps, CleanupSteps, ResetSteps,
      StopSteps, StartSteps, Labs

-----------------------------------------------------------------------------
(* One creator per machine; the attached machine is nobody else's *)

\* A machine that is neither in use nor about to be.
Harmless(l) == ~Attached(l) /\ ~Attachable(l)

\* A process that did not start to create a machine, nor to delete one in use.
Calm(q) ==
    \/ pc'[q] = pc[q] /\ job'[q] = job[q]
    \/ /\ Creator(q)' => /\ Creator(q) /\ pc[q] # "schedule" /\ pc'[q] # "schedule"
                         /\ job'[q].row = job[q].row /\ job'[q].lab = job[q].lab
                         /\ job'[q].generation = job[q].generation
       /\ Deleting(q)' => \/ Deleting(q) /\ job'[q].lab = job[q].lab
                          \/ Harmless(job[q].lab)'

\* No machine becomes attached, or welcome.
RowCalm ==
    \/ UNCHANGED workspace
    \/ workspace'.status \notin {"RUNNING", "STOPPED", "CREATING"}
    \/ /\ {workspace.status, workspace'.status} \subseteq {"RUNNING", "STOPPED"}
       /\ workspace'.lab = workspace.lab

RecordsCalm ==
    \A l \in LabIds : /\ Reserved(l)' => Reserved(l)
                      /\ provision'[l].status = "PENDING" => provision[l].status = "PENDING"

LEMMA CalmStep ==
  ASSUME HeldOK, TypeOK, OneCreatorEach, AttachedIsExclusive,
         \A q \in Procs : Calm(q), RowCalm, RecordsCalm,
         \A l \in deletes' : l \in deletes \/ Harmless(l)'
  PROVE  OneCreatorEach' /\ AttachedIsExclusive'
<1>1. \A q \in Procs : Creator(q)' => /\ Creator(q) /\ Target(q)' = Target(q)
                                      /\ Target(q) \in LabIds
                                      /\ pc'[q] = "schedule" => pc[q] = "schedule"
  BY CreatorTarget DEF Calm, Creator, Target, LabOf
<1>2. \A q \in Procs : Deleting(q)' => \/ Deleting(q) /\ job'[q].lab = job[q].lab
                                       \/ Harmless(job[q].lab)'
  BY DEF Calm, Deleting
<1>3. \A l \in LabIds : Attached(l)' => Attached(l)
  BY DEF RowCalm, Attached
<1>4. \A l \in LabIds : Attachable(l)' => Attachable(l)
  <2> SUFFICES ASSUME NEW l \in LabIds, Attachable(l)' PROVE Attachable(l)
    OBVIOUS
  <2>1. Welcome(l)
    BY DEF Attachable, Welcome, RowCalm, LabOf
  <2>2. CASE provision'[l].status = "PENDING"
    BY <2>1, <2>2 DEF RecordsCalm, Attachable
  <2>3. CASE \E q \in Procs : At(q, "schedule")' /\ Target(q)' = l
    <3>1. PICK q \in Procs : At(q, "schedule")' /\ Target(q)' = l
      BY <2>3
    <3>2. Creator(q)'
      BY <3>1 DEF At, Creator
    <3> QED
      BY <1>1, <2>1, <3>1, <3>2 DEF At, Attachable
  <2> QED
    BY <2>2, <2>3 DEF Attachable
<1>5. OneCreatorEach'
  <2>1. \A q, r \in Procs : (Creator(q)' /\ Creator(r)' /\ Target(q)' = Target(r)') => q = r
    BY <1>1 DEF OneCreatorEach
  <2>2. \A q \in Procs : At(q, "schedule")' => ~Reserved(Target(q))'
    <3> SUFFICES ASSUME NEW q \in Procs, At(q, "schedule")' PROVE ~Reserved(Target(q))'
      OBVIOUS
    <3>1. Creator(q)' /\ At(q, "schedule")
      BY <1>1 DEF At, Creator
    <3>2. ~Reserved(Target(q)) /\ Target(q) \in LabIds /\ Target(q)' = Target(q)
      BY <1>1, <3>1 DEF OneCreatorEach
    <3> QED
      BY <3>2 DEF RecordsCalm, Reserved
  <2>3. \A q \in Procs : (Creator(q)' /\ ~At(q, "schedule")') => job'[q].lab = Target(q)'
    BY <1>1 DEF OneCreatorEach, Calm, At
  <2> QED
    BY <2>1, <2>2, <2>3 DEF OneCreatorEach
<1>6. AttachedIsExclusive'
  <2>1. \A l \in LabIds : Attached(l)' =>
          ~Reserved(l)' /\ \A q \in Procs : Creator(q)' => Target(q)' # l
    BY <1>1, <1>3 DEF AttachedIsExclusive, RecordsCalm
  <2>2. \A l \in LabIds : (Attached(l)' \/ Attachable(l)') =>
          l \notin deletes' /\ \A q \in Procs : Deleting(q)' => job'[q].lab # l
    BY <1>2, <1>3, <1>4 DEF AttachedIsExclusive, Harmless
  <2> QED
    BY <2>1, <2>2 DEF AttachedIsExclusive
<1> QED
  BY <1>5, <1>6

LEMMA NoProvisionStatus == NoProvision.status = "NONE"
  BY DEF NoProvision

Exclusive == OneCreatorEach /\ AttachedIsExclusive

\* A machine never asked for before is nobody's.
LEMMA FreshTarget ==
  ASSUME TypeOK, HeldOK, NothingUnissued, Exclusive, NEW p \in Procs,
         NEW t \in LabIds, ~Issued(t), pc'[p] = "schedule", Target(p)' = t,
         \A q \in Procs \ {p} : pc'[q] = pc[q] /\ job'[q] = job[q],
         workspace'.status = "CREATING",
         LabOf(workspace'.row, workspace'.generation) = t,
         UNCHANGED <<provision, deletes>>
  PROVE  Exclusive'
<1>1. \A q \in Procs \ {p} :
        /\ Target(q)' = Target(q) /\ (Creator(q)' <=> Creator(q))
        /\ (Deleting(q)' <=> Deleting(q)) /\ (At(q, "schedule")' <=> At(q, "schedule"))
  BY DEF Target, Creator, Deleting, At
<1>2. \A q \in Procs \ {p} : Creator(q) => Target(q) # t /\ Target(q) \in LabIds
  BY CreatorTarget DEF NothingUnissued
<1>3. ~Reserved(t) /\ t \notin deletes /\ t # NoLab
  BY NoLabOutside DEF NothingUnissued
<1>4. \A q \in Procs : job[q].lab # t
  BY <1>3 DEF NothingUnissued
<1>5. \A l : ~Attached(l)' /\ (Attachable(l)' => l = t)
  BY DEF Attached, Attachable, Welcome
<1>6. \A l \in LabIds : Reserved(l)' <=> Reserved(l)
  BY DEF Reserved
<1>7. OneCreatorEach'
  <2>1. \A q, r \in Procs : (Creator(q)' /\ Creator(r)' /\ Target(q)' = Target(r)') => q = r
    BY <1>1, <1>2 DEF OneCreatorEach, Exclusive
  <2>2. \A q \in Procs : At(q, "schedule")' => ~Reserved(Target(q))'
    <3> SUFFICES ASSUME NEW q \in Procs, At(q, "schedule")' PROVE ~Reserved(Target(q))'
      OBVIOUS
    <3>1. CASE q = p
      BY <1>3, <3>1 DEF Reserved
    <3>2. CASE q # p
      <4>1. ~Reserved(Target(q)) /\ Target(q)' = Target(q)
        BY <1>1, <3>2 DEF OneCreatorEach, Exclusive
      <4> QED
        BY <4>1 DEF Reserved
    <3> QED
      BY <3>1, <3>2
  <2>3. \A q \in Procs : (Creator(q)' /\ ~At(q, "schedule")') => job'[q].lab = Target(q)'
    BY <1>1 DEF OneCreatorEach, Exclusive, At
  <2> QED
    BY <2>1, <2>2, <2>3 DEF OneCreatorEach
<1>8. AttachedIsExclusive'
  <2>1. ~Deleting(p)'
    BY DEF Deleting
  <2> QED
    BY <1>1, <1>3, <1>4, <1>5, <2>1 DEF AttachedIsExclusive
<1> QED
  BY <1>7, <1>8 DEF Exclusive

LEMMA ReprovisionedIsFresh ==
  ASSUME TypeOK, HeldOK, NothingUnissued, Exclusive, NEW p \in Procs, NEW st,
         Reprovisioned(p, st), UNCHANGED <<provision, deletes>>
  PROVE  Exclusive'
<1> DEFINE t == LabOf(workspace.row, workspace.generation + 1)
<1>1. t \in LabIds
  BY LabTypes DEF Reprovisioned, Rows
<1>2. ~Issued(t)
  BY BoundsAssumption DEF Reprovisioned, Issued, LabOf, Rows, Provisions
<1>3. Target(p)' = t /\ LabOf(workspace'.row, workspace'.generation) = t
  BY DEF Reprovisioned, Target
<1> HIDE DEF t
<1> QED
  BY <1>1, <1>2, <1>3, FreshTarget DEF Reprovisioned

LEMMA ScheduledIsExclusive ==
  ASSUME TypeOK, HeldOK, Exclusive, NEW p \in Procs, At(p, "schedule"), Scheduled(p),
         UNCHANGED <<workspace, deletes>>
  PROVE  Exclusive'
<1> DEFINE t == Target(p)
<1>1. \A q \in Procs : Target(q)' = Target(q)
  BY DEF Target, Scheduled
<1>2. \A q \in Procs : Creator(q)' <=> Creator(q)
  BY DEF Creator, Scheduled, At
<1>3. \A q \in Procs \ {p} :
        (Deleting(q)' <=> Deleting(q)) /\ (At(q, "schedule")' <=> At(q, "schedule"))
  BY DEF Deleting, At, Scheduled
<1>4. Creator(p) /\ ~Deleting(p)' /\ ~At(p, "schedule")' /\ t \in LabIds
  BY DEF Creator, Deleting, At, Scheduled
<1>5. \A l \in LabIds : ~Attached(l)' /\ (Attachable(l)' => Attachable(l))
  <2>1. Welcome(t) /\ workspace.status = "CREATING"
    BY DEF Scheduled, StillThisProvision, Still, Welcome, Target, LabOf
  <2>2. Attachable(t)
    BY <2>1 DEF Attachable
  <2>3. \A l : Attachable(l)' => l = t
    BY <2>1 DEF Attachable, Welcome
  <2> QED
    BY <2>1, <2>2, <2>3 DEF Attached
<1>6. OneCreatorEach'
  <2>1. \A q, r \in Procs : (Creator(q)' /\ Creator(r)' /\ Target(q)' = Target(r)') => q = r
    BY <1>1, <1>2 DEF OneCreatorEach, Exclusive
  <2>2. \A q \in Procs : At(q, "schedule")' => ~Reserved(Target(q))'
    <3> SUFFICES ASSUME NEW q \in Procs, At(q, "schedule")' PROVE ~Reserved(Target(q))'
      OBVIOUS
    <3>1. q # p /\ At(q, "schedule") /\ Creator(q)
      BY <1>3, <1>4 DEF At, Creator
    <3>2. Target(q) # t /\ Target(q) \in LabIds /\ ~Reserved(Target(q))
      BY <1>4, <3>1, CreatorTarget DEF OneCreatorEach, Exclusive
    <3>3. provision'[Target(q)] = provision[Target(q)]
      BY <3>2 DEF Scheduled
    <3> QED
      BY <1>1, <3>2, <3>3 DEF Reserved
  <2>3. \A q \in Procs : (Creator(q)' /\ ~At(q, "schedule")') => job'[q].lab = Target(q)'
    BY <1>1, <1>2, <1>3 DEF OneCreatorEach, Exclusive, Scheduled
  <2> QED
    BY <2>1, <2>2, <2>3 DEF OneCreatorEach
<1>7. AttachedIsExclusive'
  BY <1>3, <1>4, <1>5 DEF AttachedIsExclusive, Exclusive, Scheduled
<1> QED
  BY <1>6, <1>7 DEF Exclusive

LEMMA WinnerIsExclusive ==
  ASSUME TypeOK, HeldOK, Exclusive, NEW p \in Procs, At(p, "attach"), Wins(p),
         UNCHANGED deletes
  PROVE  Exclusive'
<1> DEFINE t == job[p].lab
<1>1. Creator(p) /\ t = Target(p) /\ t \in LabIds
  BY DEF Creator, At, OneCreatorEach, Exclusive, Wins
<1>2. Attachable(t)
  BY <1>1 DEF Wins, Attachable, Welcome, StillThisProvision, Still, Target
<1>3. pc'[p] = "idle" /\ \A q \in Procs \ {p} : pc'[q] = pc[q] /\ job'[q] = job[q]
  BY ProcEffect DEF Wins
<1>4. \A q \in Procs \ {p} :
        /\ Target(q)' = Target(q) /\ (Creator(q)' <=> Creator(q))
        /\ (Deleting(q)' <=> Deleting(q)) /\ (At(q, "schedule")' <=> At(q, "schedule"))
  BY <1>3 DEF Target, Creator, Deleting, At
<1>5. ~Creator(p)' /\ ~Deleting(p)' /\ ~At(p, "schedule")'
  BY <1>3 DEF Creator, Deleting, At
<1>6. \A l \in LabIds : (Attached(l)' => l = t) /\ ~Attachable(l)'
  BY DEF Wins, Attached, Attachable, Welcome
<1>7. \A q \in Procs \ {p} : Creator(q) => Target(q) # t
  BY <1>1 DEF OneCreatorEach, Exclusive
<1>8. provision'[t].status = "NONE" /\ \A l \in LabIds : Reserved(l)' => Reserved(l)
  BY <1>1, NoProvisionStatus DEF Wins, Reserved
<1>9. OneCreatorEach'
  <2>1. \A q, r \in Procs : (Creator(q)' /\ Creator(r)' /\ Target(q)' = Target(r)') => q = r
    BY <1>4, <1>5 DEF OneCreatorEach, Exclusive
  <2>2. \A q \in Procs : At(q, "schedule")' => ~Reserved(Target(q))'
    <3> SUFFICES ASSUME NEW q \in Procs, At(q, "schedule")' PROVE ~Reserved(Target(q))'
      OBVIOUS
    <3>1. At(q, "schedule") /\ Creator(q) /\ q # p
      BY <1>4, <1>5 DEF At, Creator
    <3>2. ~Reserved(Target(q)) /\ Target(q) \in LabIds /\ Target(q)' = Target(q)
      BY <1>4, <3>1, CreatorTarget DEF OneCreatorEach, Exclusive
    <3> QED
      BY <1>8, <3>2 DEF Reserved
  <2>3. \A q \in Procs : (Creator(q)' /\ ~At(q, "schedule")') => job'[q].lab = Target(q)'
    BY <1>3, <1>4, <1>5 DEF OneCreatorEach, Exclusive
  <2> QED
    BY <2>1, <2>2, <2>3 DEF OneCreatorEach
<1>10. AttachedIsExclusive'
  <2>1. t \notin deletes /\ \A q \in Procs : Deleting(q) => job[q].lab # t
    BY <1>1, <1>2 DEF AttachedIsExclusive, Exclusive
  <2> QED
    BY <1>3, <1>4, <1>5, <1>6, <1>7, <1>8, <2>1 DEF AttachedIsExclusive, Reserved
<1> QED
  BY <1>9, <1>10 DEF Exclusive

LEMMA ClaimIsHarmless ==
  ASSUME TypeOK, HeldOK, Exclusive, NEW p \in Procs, NEW l \in LabIds,
         Reserved(l), provision' = Claimed(l), UNCHANGED <<workspace, deletes>>,
         pc'[p] = "cleanDelete", job'[p].lab = l,
         \A q \in Procs \ {p} : pc'[q] = pc[q] /\ job'[q] = job[q]
  PROVE  Exclusive'
<1>1. /\ provision'[l].status = "CLEANUP"
      /\ \A k \in LabIds \ {l} : provision'[k] = provision[k]
  BY ClaimedEffect
<1>2. ~Attached(l)'
  BY DEF Attached, AttachedIsExclusive, Exclusive
<1>3. ~Attachable(l)'
  <2> SUFFICES ASSUME NEW q \in Procs, At(q, "schedule")', Target(q)' = l PROVE FALSE
    BY <1>1 DEF Attachable
  <2>1. At(q, "schedule") /\ Target(q) = l
    BY DEF At, Target
  <2> QED
    BY <2>1 DEF OneCreatorEach, Exclusive
<1>4. Harmless(l)'
  BY <1>2, <1>3 DEF Harmless
<1>5. \A q \in Procs : Calm(q)
  BY <1>4 DEF Calm, Creator, Deleting, Harmless, Attached, Attachable, Welcome, At,
     Target
<1>6. RecordsCalm
  BY <1>1 DEF RecordsCalm, Reserved
<1> QED
  BY <1>5, <1>6, CalmStep DEF RowCalm, Exclusive

LEMMA ExclusiveStep ==
  ASSUME TypeOK, HeldOK, NothingUnissued, Exclusive, [Next]_vars
  PROVE  Exclusive'
<1> USE DEF Exclusive
<1>Create. ASSUME NEW p \in Procs, Create(p) PROVE Exclusive'
  BY <1>Create, Moves, CalmStep
  DEF Create, Calm, RowCalm, RecordsCalm, Creator, Deleting, At, Labels, Reserved,
      rowVars, labsVars, procVars
<1>CreateRetry. ASSUME NEW p \in Procs, CreateRetry(p) PROVE Exclusive'
  <2>1. Reprovisioned(p, "ERROR") \/ (UNCHANGED workspace /\ Done(p))
    BY <1>CreateRetry, ReprovisionEffect DEF CreateRetry, Statuses
  <2>2. UNCHANGED <<provision, deletes>>
    BY <1>CreateRetry DEF CreateRetry, labsVars
  <2>3. CASE Reprovisioned(p, "ERROR")
    BY <2>2, <2>3, ReprovisionedIsFresh
  <2>4. CASE UNCHANGED workspace /\ Done(p)
    BY <2>2, <2>4, ProcEffect, CalmStep
    DEF Calm, RowCalm, RecordsCalm, Creator, Deleting, Reserved
  <2> QED
    BY <2>1, <2>3, <2>4
<1>CreateInsert. ASSUME NEW p \in Procs, CreateInsert(p) PROVE Exclusive'
  <2> DEFINE t == LabOf(nextRow, 0)
  <2>1. nextRow \in RowIds /\ t \in LabIds /\ ~Issued(t)
    BY <1>CreateInsert, Successors, Zeros, LabTypes
    DEF CreateInsert, TypeOK, Issued, LabOf, RowIds
  <2>2. /\ workspace'.status = "CREATING"
        /\ LabOf(workspace'.row, workspace'.generation) = t
    BY <1>CreateInsert DEF CreateInsert, NoRow
  <2> DEFINE j == [job[p] EXCEPT !.row = nextRow, !.generation = 0]
  <2>3. j.row = nextRow /\ j.generation = 0
    BY DEF TypeOK, Jobs
  <2>4. Goto(p, "schedule") /\ Hold(p, j)
    BY <1>CreateInsert DEF CreateInsert
  <2> HIDE DEF j
  <2>5. pc'[p] = "schedule" /\ Target(p)' = t
        /\ \A q \in Procs \ {p} : pc'[q] = pc[q] /\ job'[q] = job[q]
    BY <2>3, <2>4, Moves DEF Target
  <2> HIDE DEF t
  <2> QED
    BY <1>CreateInsert, <2>1, <2>2, <2>5, FreshTarget DEF CreateInsert, labsVars
<1>ScheduleRefused. ASSUME NEW p \in Procs, ScheduleRefused(p) PROVE Exclusive'
  BY <1>ScheduleRefused, ProcEffect, CalmStep, RowEdit
  DEF ScheduleRefused, StillThisProvision, Still, Calm, RowCalm, RecordsCalm, Creator,
      Deleting, At, Labels, Reserved,
      rowVars, labsVars, procVars
<1>ScheduleProvision. ASSUME NEW p \in Procs, ScheduleProvision(p) PROVE Exclusive'
  <2>1. Scheduled(p) \/ (UNCHANGED provision /\ Done(p))
    BY <1>ScheduleProvision, ScheduleEffect
  <2>2. UNCHANGED <<workspace, deletes>> /\ At(p, "schedule")
    BY <1>ScheduleProvision DEF ScheduleProvision, rowVars, labsVars
  <2>3. CASE Scheduled(p)
    BY <2>2, <2>3, ScheduledIsExclusive
  <2>4. CASE UNCHANGED provision /\ Done(p)
    BY <2>2, <2>4, ProcEffect, CalmStep
    DEF Calm, RowCalm, RecordsCalm, Creator, Deleting, Reserved
  <2> QED
    BY <2>1, <2>3, <2>4
<1>PostVm. ASSUME NEW p \in Procs, PostVm(p) PROVE Exclusive'
  BY <1>PostVm, ProcEffect, CalmStep
  DEF PostVm, Calm, RowCalm, RecordsCalm, Creator, Deleting, At, Labels, Reserved,
      rowVars, labsVars, procVars
<1>CreateVmFails. ASSUME NEW p \in Procs, CreateVmFails(p) PROVE Exclusive'
  BY <1>CreateVmFails, ProcEffect, CalmStep, RowEdit
  DEF CreateVmFails, StillThisProvision, Still, Calm, RowCalm, RecordsCalm, Creator,
      Deleting, At, Labels, Reserved,
      rowVars, labsVars, procVars
<1>CreateVmAnswers. ASSUME NEW p \in Procs, CreateVmAnswers(p) PROVE Exclusive'
  BY <1>CreateVmAnswers, ProcEffect, CalmStep
  DEF CreateVmAnswers, Calm, RowCalm, RecordsCalm, Creator, Deleting, At, Labels,
      Reserved,
      rowVars, labsVars, procVars
<1>Attach. ASSUME NEW p \in Procs, Attach(p) PROVE Exclusive'
  <2>1. Wins(p) \/ (UNCHANGED <<workspace, provision>> /\ Become(p, "claim"))
    BY <1>Attach, AttachEffect
  <2>2. UNCHANGED deletes /\ At(p, "attach")
    BY <1>Attach DEF Attach, labsVars
  <2>3. CASE Wins(p)
    BY <2>2, <2>3, WinnerIsExclusive
  <2>4. CASE UNCHANGED <<workspace, provision>> /\ Become(p, "claim")
    BY <2>2, <2>4, ProcEffect, CalmStep
    DEF Calm, RowCalm, RecordsCalm, Creator, Deleting, Reserved, At, Labels
  <2> QED
    BY <2>1, <2>3, <2>4
<1>Claim. ASSUME NEW p \in Procs, Claim(p) PROVE Exclusive'
  <2>1. UNCHANGED <<workspace, deletes>> /\ job[p].lab \in LabIds
    BY <1>Claim DEF Claim, HeldOK, At, rowVars, labsVars
  <2>2. CASE Reserved(job[p].lab) /\ provision' = Claimed(job[p].lab) /\ Become(p, "cleanDelete")
    BY <2>1, <2>2, ProcEffect, ClaimIsHarmless DEF Labels
  <2>3. CASE UNCHANGED provision /\ Done(p)
    BY <2>1, <2>3, ProcEffect, CalmStep
    DEF Calm, RowCalm, RecordsCalm, Creator, Deleting, Reserved
  <2> QED
    BY <1>Claim, <2>2, <2>3 DEF Claim
<1>SweepProvision. ASSUME NEW p \in Procs, NEW l \in LabIds, SweepProvision(p, l)
      PROVE Exclusive'
  <2> DEFINE j == [NoJob EXCEPT !.lab = l]
  <2>1. j \in Jobs
    BY NoJobType, JobFields
  <2>4. j.lab = l
    BY DEF NoJob
  <2>2. Goto(p, "cleanDelete") /\ Hold(p, j)
    BY <1>SweepProvision DEF SweepProvision
  <2> HIDE DEF j
  <2>3. UNCHANGED <<workspace, deletes>> /\ Reserved(l) /\ provision' = Claimed(l)
    BY <1>SweepProvision DEF SweepProvision, rowVars, labsVars
  <2> QED
    BY <2>1, <2>2, <2>3, <2>4, ProcEffect, ClaimIsHarmless DEF Labels
<1>CleanDelete. ASSUME NEW p \in Procs, CleanDelete(p) PROVE Exclusive'
  <2> DEFINE j == [job[p] EXCEPT !.settled = provision[job[p].lab].settled]
  <2>1. j.lab = job[p].lab
    BY DEF TypeOK, Jobs
  <2>2. Goto(p, "cleanCheck") /\ Hold(p, j)
    BY <1>CleanDelete DEF CleanDelete
  <2> HIDE DEF j
  <2>3. /\ pc'[p] = "cleanCheck" /\ job'[p].lab = job[p].lab
        /\ \A q \in Procs \ {p} : pc'[q] = pc[q] /\ job'[q] = job[q]
    BY <2>1, <2>2, Moves
  <2>4. /\ Deleting(p) /\ UNCHANGED <<workspace, provision>>
        /\ deletes' = deletes \cup {job[p].lab} /\ job[p].lab \in LabIds
    BY <1>CleanDelete DEF CleanDelete, Deleting, At, rowVars, HeldOK
  <2>5. \A q \in Procs : Calm(q)
    BY <2>3, <2>4 DEF Calm, Creator, Deleting
  <2>6. Harmless(job[p].lab)
    BY <2>4 DEF AttachedIsExclusive, Harmless
  <2>7. \A k \in LabIds : k = job[p].lab => Harmless(k)'
    <3>1. \A q \in Procs : pc'[q] = "schedule" => pc[q] = "schedule" /\ Target(q)' = Target(q)
      BY <2>3 DEF Target
    <3> QED
      BY <2>4, <2>6, <3>1 DEF Harmless, Attached, Attachable, Welcome, At
  <2>8. \A k \in deletes' : k \in deletes \/ Harmless(k)'
    BY <2>4, <2>7 DEF Harmless
  <2> QED
    BY <2>4, <2>5, <2>8, CalmStep DEF RowCalm, RecordsCalm, Reserved
<1>CleanConfirmed. ASSUME NEW p \in Procs, CleanConfirmed(p) PROVE Exclusive'
  BY <1>CleanConfirmed, ProcEffect, CalmStep
  DEF CleanConfirmed, Calm, RowCalm, RecordsCalm, Creator, Deleting, At, Labels,
      Reserved,
      rowVars, labsVars, procVars
<1>CleanFails. ASSUME NEW p \in Procs, CleanFails(p) PROVE Exclusive'
  BY <1>CleanFails, ProcEffect, CalmStep
  DEF CleanFails, Calm, RowCalm, RecordsCalm, Creator, Deleting, At, Labels, Reserved,
      rowVars, labsVars, procVars
<1>CleanWrite. ASSUME NEW p \in Procs, CleanWrite(p) PROVE Exclusive'
  BY <1>CleanWrite, ProcEffect, CalmStep, NoProvisionStatus
  DEF CleanWrite, Calm, RowCalm, RecordsCalm, Creator, Deleting, At, Labels, Reserved,
      rowVars, labsVars, procVars
<1>Restart. ASSUME NEW p \in Procs, Restart(p) PROVE Exclusive'
  <2>1. UNCHANGED <<provision, deletes>> /\ pc[p] = "idle"
    BY <1>Restart DEF Restart, labsVars, At
  <2>2. UNCHANGED workspace \/ workspace'.status = "RESETTING"
    BY <1>Restart, RowEdit DEF Restart
  <2>3. \A q \in Procs : Calm(q)
    <3>1. CASE UNCHANGED procVars
      BY <3>1 DEF procVars, Calm
    <3>2. CASE Become(p, "reset")
      <4>1. pc'[p] = "reset" /\ job' = job /\ \A q \in Procs \ {p} : pc'[q] = pc[q]
        BY <3>2, ProcEffect DEF Labels
      <4> QED
        BY <4>1 DEF Calm, Creator, Deleting
    <3> QED
      BY <1>Restart, <3>1, <3>2 DEF Restart
  <2>4. RowCalm /\ RecordsCalm
    BY <2>1, <2>2 DEF RowCalm, RecordsCalm, Reserved
  <2> QED
    BY <2>1, <2>3, <2>4, CalmStep
<1>SweepReset. ASSUME NEW p \in Procs, SweepReset(p) PROVE Exclusive'
  BY <1>SweepReset, ProcEffect, CalmStep
  DEF SweepReset, Calm, RowCalm, RecordsCalm, Creator, Deleting, At, Labels, Reserved,
      rowVars, labsVars, procVars
<1>ResetDeferred. ASSUME NEW p \in Procs, ResetDeferred(p) PROVE Exclusive'
  BY <1>ResetDeferred, ProcEffect, CalmStep
  DEF ResetDeferred, Calm, RowCalm, RecordsCalm, Creator, Deleting, At, Labels,
      Reserved,
      rowVars, labsVars, procVars
<1>ResetDelete. ASSUME NEW p \in Procs, ResetDelete(p) PROVE Exclusive'
  <2>1. /\ pc'[p] = "resetCheck"
        /\ \A q \in Procs \ {p} : pc'[q] = pc[q] /\ job'[q] = job[q]
    BY <1>ResetDelete, Moves DEF ResetDelete
  <2>2. UNCHANGED <<workspace, provision>> /\ workspace.status = "RESETTING"
    BY <1>ResetDelete DEF ResetDelete, rowVars
  <2>3. \A l : Harmless(l)'
    BY <2>2 DEF Harmless, Attached, Attachable, Welcome
  <2> QED
    BY <2>1, <2>2, <2>3, CalmStep DEF Calm, RowCalm, RecordsCalm, Creator, Deleting,
       Reserved
<1>ResetConfirmed. ASSUME NEW p \in Procs, ResetConfirmed(p) PROVE Exclusive'
  BY <1>ResetConfirmed, ProcEffect, CalmStep
  DEF ResetConfirmed, Calm, RowCalm, RecordsCalm, Creator, Deleting, At, Labels,
      Reserved,
      rowVars, labsVars, procVars
<1>ResetFails. ASSUME NEW p \in Procs, ResetFails(p) PROVE Exclusive'
  BY <1>ResetFails, ProcEffect, CalmStep
  DEF ResetFails, Calm, RowCalm, RecordsCalm, Creator, Deleting, At, Labels, Reserved,
      rowVars, labsVars, procVars
<1>ResetWrite. ASSUME NEW p \in Procs, ResetWrite(p) PROVE Exclusive'
  BY <1>ResetWrite, ProcEffect, CalmStep, NoRowValues
  DEF ResetWrite, Still, Calm, RowCalm, RecordsCalm, Creator, Deleting, At, Labels,
      Reserved,
      rowVars, labsVars, procVars
<1>Stop. ASSUME NEW p \in Procs, Stop(p) PROVE Exclusive'
  BY <1>Stop, Moves, CalmStep
  DEF Stop, HoldRow, Calm, RowCalm, RecordsCalm, Creator, Deleting, At, Labels,
      Reserved,
      rowVars, labsVars, procVars
<1>StopVmAnswers. ASSUME NEW p \in Procs, StopVmAnswers(p) PROVE Exclusive'
  BY <1>StopVmAnswers, ProcEffect, CalmStep
  DEF StopVmAnswers, Calm, RowCalm, RecordsCalm, Creator, Deleting, At, Labels,
      Reserved,
      rowVars, labsVars, procVars
<1>StopVmFails. ASSUME NEW p \in Procs, StopVmFails(p) PROVE Exclusive'
  BY <1>StopVmFails, ProcEffect, CalmStep
  DEF StopVmFails, Calm, RowCalm, RecordsCalm, Creator, Deleting, At, Labels, Reserved,
      rowVars, labsVars, procVars
<1>StopWrite. ASSUME NEW p \in Procs, StopWrite(p) PROVE Exclusive'
  BY <1>StopWrite, ProcEffect, CalmStep, RowEdit
  DEF StopWrite, Still, Calm, RowCalm, RecordsCalm, Creator, Deleting, At, Labels,
      Reserved,
      rowVars, labsVars, procVars
<1>MarkVmMissing. ASSUME NEW p \in Procs, MarkVmMissing(p) PROVE Exclusive'
  BY <1>MarkVmMissing, ProcEffect, CalmStep, RowEdit
  DEF MarkVmMissing, Still, Calm, RowCalm, RecordsCalm, Creator, Deleting, At, Labels,
      Reserved,
      rowVars, labsVars, procVars
<1>Start. ASSUME NEW p \in Procs, Start(p) PROVE Exclusive'
  BY <1>Start, Moves, CalmStep
  DEF Start, Calm, RowCalm, RecordsCalm, Creator, Deleting, At, Labels, Reserved,
      rowVars, labsVars, procVars
<1>StartRead. ASSUME NEW p \in Procs, StartRead(p) PROVE Exclusive'
  <2>1. UNCHANGED <<workspace, provision, deletes>>
    BY <1>StartRead DEF StartRead, rowVars, labsVars
  <2>2. CASE Goto(p, "start") /\ HoldRow(p)
    BY <2>1, <2>2, Moves, CalmStep
    DEF HoldRow, Calm, RowCalm, RecordsCalm, Creator, Deleting, Reserved
  <2>3. CASE Done(p)
    BY <2>1, <2>3, ProcEffect, CalmStep
    DEF Calm, RowCalm, RecordsCalm, Creator, Deleting, Reserved
  <2> QED
    BY <1>StartRead, <2>2, <2>3 DEF StartRead
<1>StartVmAnswers. ASSUME NEW p \in Procs, StartVmAnswers(p) PROVE Exclusive'
  BY <1>StartVmAnswers, ProcEffect, CalmStep
  DEF StartVmAnswers, Calm, RowCalm, RecordsCalm, Creator, Deleting, At, Labels,
      Reserved,
      rowVars, labsVars, procVars
<1>StartVmFails. ASSUME NEW p \in Procs, StartVmFails(p) PROVE Exclusive'
  BY <1>StartVmFails, ProcEffect, CalmStep
  DEF StartVmFails, Calm, RowCalm, RecordsCalm, Creator, Deleting, At, Labels, Reserved,
      rowVars, labsVars, procVars
<1>StartWrite. ASSUME NEW p \in Procs, StartWrite(p) PROVE Exclusive'
  BY <1>StartWrite, ProcEffect, CalmStep, RowEdit
  DEF StartWrite, Still, Calm, RowCalm, RecordsCalm, Creator, Deleting, At, Labels,
      Reserved,
      rowVars, labsVars, procVars
<1>RebuildMissingVm. ASSUME NEW p \in Procs, RebuildMissingVm(p) PROVE Exclusive'
  <2>1. Reprovisioned(p, "STOPPED") \/ (UNCHANGED workspace /\ Done(p))
    BY <1>RebuildMissingVm, ReprovisionEffect DEF RebuildMissingVm, Statuses
  <2>2. UNCHANGED <<provision, deletes>>
    BY <1>RebuildMissingVm DEF RebuildMissingVm, labsVars
  <2>3. CASE Reprovisioned(p, "STOPPED")
    BY <2>2, <2>3, ReprovisionedIsFresh
  <2>4. CASE UNCHANGED workspace /\ Done(p)
    BY <2>2, <2>4, ProcEffect, CalmStep
    DEF Calm, RowCalm, RecordsCalm, Creator, Deleting, Reserved
  <2> QED
    BY <2>1, <2>3, <2>4
<1>Crash. ASSUME NEW p \in Procs, Crash(p) PROVE Exclusive'
  BY <1>Crash, ProcEffect, CalmStep
  DEF Crash, Calm, RowCalm, RecordsCalm, Creator, Deleting, At, Labels, Reserved,
      rowVars, labsVars, procVars
<1>ExpireCreating. CASE ExpireCreating
  BY <1>ExpireCreating, CalmStep, RowEdit
  DEF ExpireCreating, Calm, RowCalm, RecordsCalm, Creator, Deleting, At, Labels,
      Reserved,
      rowVars, labsVars, procVars
<1>Enroll. CASE Enroll
  BY <1>Enroll, CalmStep
  DEF Enroll, Calm, RowCalm, RecordsCalm, Creator, Deleting, At, Labels, Reserved,
      rowVars, labsVars, procVars
<1>LabsCreates. ASSUME NEW l \in LabIds, LabsCreates(l) PROVE Exclusive'
  BY <1>LabsCreates, CalmStep
  DEF LabsCreates, Calm, RowCalm, RecordsCalm, Creator, Deleting, At, Labels, Reserved,
      rowVars, labsVars, procVars
<1>LabsRefuses. ASSUME NEW l \in LabIds, LabsRefuses(l) PROVE Exclusive'
  BY <1>LabsRefuses, CalmStep
  DEF LabsRefuses, Calm, RowCalm, RecordsCalm, Creator, Deleting, At, Labels, Reserved,
      rowVars, labsVars, procVars
<1>LabsDeletes. ASSUME NEW l \in LabIds, LabsDeletes(l) PROVE Exclusive'
  BY <1>LabsDeletes, CalmStep
  DEF LabsDeletes, Calm, RowCalm, RecordsCalm, Creator, Deleting, At, Labels, Reserved,
      rowVars, labsVars, procVars
<1>GuestPowersOff. ASSUME NEW l \in LabIds, GuestPowersOff(l) PROVE Exclusive'
  BY <1>GuestPowersOff, CalmStep
  DEF GuestPowersOff, Calm, RowCalm, RecordsCalm, Creator, Deleting, At, Labels,
      Reserved,
      rowVars, labsVars, procVars
<1>HostLosesVm. ASSUME NEW l \in LabIds, HostLosesVm(l) PROVE Exclusive'
  BY <1>HostLosesVm, CalmStep
  DEF HostLosesVm, Calm, RowCalm, RecordsCalm, Creator, Deleting, At, Labels, Reserved,
      rowVars, labsVars, procVars
<1>unchanged. CASE UNCHANGED vars
  BY <1>unchanged, CalmStep DEF vars, Calm, RowCalm, RecordsCalm, Reserved
<1> QED
  BY <1>Create, <1>CreateRetry, <1>CreateInsert, <1>ScheduleRefused,
     <1>ScheduleProvision, <1>PostVm, <1>CreateVmFails, <1>CreateVmAnswers,
     <1>Attach, <1>Claim, <1>SweepProvision, <1>CleanDelete,
     <1>CleanConfirmed, <1>CleanFails, <1>CleanWrite, <1>Restart,
     <1>SweepReset, <1>ResetDeferred, <1>ResetDelete, <1>ResetConfirmed,
     <1>ResetFails, <1>ResetWrite, <1>Stop, <1>StopVmAnswers,
     <1>StopVmFails, <1>StopWrite, <1>MarkVmMissing, <1>Start, <1>StartRead,
     <1>StartVmAnswers, <1>StartVmFails, <1>StartWrite, <1>RebuildMissingVm,
     <1>Crash, <1>ExpireCreating, <1>Enroll, <1>LabsCreates, <1>LabsRefuses,
     <1>LabsDeletes, <1>GuestPowersOff, <1>HostLosesVm, <1>unchanged
  DEF Next, Step, CreateSteps, ProvisionSteps, CleanupSteps, ResetSteps,
      StopSteps, StartSteps, Labs

-----------------------------------------------------------------------------
(* Theorems *)

LEMMA InitSafe == Init => SafetyInv
<1> SUFFICES ASSUME Init PROVE SafetyInv
  OBVIOUS
<1>1. TypeOK
  BY BoundsAssumption, Zeros, NoJobType DEF Init, TypeOK, Generations, Labels
<1>2. HeldOK
  BY NoRowValues DEF Init, HeldOK, Creator
<1>3. NothingUnissued
  BY NoRowValues, NoJobValues, NoProvisionStatus DEF Init, NothingUnissued, Creator,
     Reserved
<1>4. OneCreatorEach
  BY DEF Init, OneCreatorEach, Creator, At
<1>5. AttachedIsExclusive
  BY NoRowValues
  DEF Init, AttachedIsExclusive, Attached, Attachable, Welcome, Creator, Deleting
<1> QED
  BY <1>1, <1>2, <1>3, <1>4, <1>5 DEF SafetyInv

LEMMA SafetyStep == SafetyInv /\ [Next]_vars => SafetyInv'
  BY TypeStep, HeldStep, IssuedStep, ExclusiveStep DEF SafetyInv, Exclusive

\* The inductive invariant: ids are handed out once, each has at most one
\* creator, and the machine of a RUNNING or STOPPED workspace is nobody else's.
THEOREM Safety == Spec => []SafetyInv
<1>1. Init => SafetyInv
  BY InitSafe
<1>2. SafetyInv /\ [Next]_vars => SafetyInv'
  BY SafetyStep
<1> QED
  BY <1>1, <1>2, PTL DEF Spec

\* Every variable keeps its type, for any number of processes, rows,
\* provision generations and enrollment generations.
THEOREM TypeCorrect == Spec => []TypeOK
<1>1. SafetyInv => TypeOK
  BY DEF SafetyInv
<1> QED
  BY <1>1, Safety, PTL

\* No background job, sweep or reset, nor a DELETE still on its way, can hit
\* the machine of a RUNNING or STOPPED workspace.
THEOREM AttachedIsSafe == Spec => []AttachedVmIsSafe
<1>1. SafetyInv => AttachedVmIsSafe
  <2> SUFFICES ASSUME SafetyInv, NEW l \in LabIds, Attached(l)
               PROVE  /\ ~Reserved(l) /\ l \notin deletes
                      /\ \A p \in Procs : job[p].lab = l =>
                           pc[p] \notin {"claim", "cleanDelete", "cleanCheck",
                                         "cleanWrite", "resetCheck", "resetWrite"}
    BY DEF AttachedVmIsSafe
  <2>1. ~Reserved(l) /\ l \notin deletes
    BY DEF SafetyInv, AttachedIsExclusive
  <2>2. ASSUME NEW p \in Procs, job[p].lab = l PROVE pc[p] # "claim" /\ ~Deleting(p)
    <3>1. ~Deleting(p)
      BY <2>2 DEF SafetyInv, AttachedIsExclusive
    <3>2. ASSUME pc[p] = "claim" PROVE FALSE
      <4>1. Creator(p) /\ ~At(p, "schedule")
        BY <3>2 DEF Creator, At
      <4>2. Target(p) = l
        BY <2>2, <4>1 DEF SafetyInv, OneCreatorEach
      <4> QED
        BY <4>1, <4>2 DEF SafetyInv, AttachedIsExclusive
    <3> QED
      BY <3>1, <3>2
  <2> QED
    BY <2>1, <2>2 DEF Deleting
<1> QED
  BY <1>1, Safety, PTL

Final ==
    workspace.status = "RESETTING" =>
        \/ workspace' = NoRow
        \/ workspace'.row = workspace.row /\ workspace'.status = "RESETTING"
Quiet == UNCHANGED workspace \/ Final

LEMMA FinalStep == ASSUME TypeOK, HeldOK, [Next]_vars PROVE Quiet
<1>Create. ASSUME NEW p \in Procs, Create(p) PROVE Quiet
  BY <1>Create, RowEdit DEF Create, Quiet, Final, rowVars
<1>CreateRetry. ASSUME NEW p \in Procs, CreateRetry(p) PROVE Quiet
  BY <1>CreateRetry, ReprovisionEffect DEF CreateRetry, Reprovisioned, Statuses, Quiet,
     Final
<1>CreateInsert. ASSUME NEW p \in Procs, CreateInsert(p) PROVE Quiet
  BY <1>CreateInsert, RowEdit DEF CreateInsert, Quiet, Final, rowVars
<1>ScheduleRefused. ASSUME NEW p \in Procs, ScheduleRefused(p) PROVE Quiet
  BY <1>ScheduleRefused, RowEdit DEF ScheduleRefused, StillThisProvision, Still, Quiet,
     Final, rowVars
<1>ScheduleProvision. ASSUME NEW p \in Procs, ScheduleProvision(p) PROVE Quiet
  BY <1>ScheduleProvision, RowEdit DEF ScheduleProvision, StillThisProvision, Still,
     EnrollmentMoved, Quiet, Final, rowVars
<1>PostVm. ASSUME NEW p \in Procs, PostVm(p) PROVE Quiet
  BY <1>PostVm, RowEdit DEF PostVm, Quiet, Final, rowVars
<1>CreateVmFails. ASSUME NEW p \in Procs, CreateVmFails(p) PROVE Quiet
  BY <1>CreateVmFails, RowEdit DEF CreateVmFails, StillThisProvision, Still, Quiet,
     Final, rowVars
<1>CreateVmAnswers. ASSUME NEW p \in Procs, CreateVmAnswers(p) PROVE Quiet
  BY <1>CreateVmAnswers, RowEdit DEF CreateVmAnswers, Quiet, Final, rowVars
<1>Attach. ASSUME NEW p \in Procs, Attach(p) PROVE Quiet
  BY <1>Attach, AttachEffect DEF Wins, StillThisProvision, Still, Quiet, Final
<1>Claim. ASSUME NEW p \in Procs, Claim(p) PROVE Quiet
  BY <1>Claim, RowEdit DEF Claim, Claimed, Quiet, Final, rowVars
<1>SweepProvision. ASSUME NEW p \in Procs, NEW l \in LabIds, SweepProvision(p, l)
      PROVE Quiet
  BY <1>SweepProvision, RowEdit DEF SweepProvision, Claimed, Quiet, Final, rowVars
<1>CleanDelete. ASSUME NEW p \in Procs, CleanDelete(p) PROVE Quiet
  BY <1>CleanDelete, RowEdit DEF CleanDelete, Quiet, Final, rowVars
<1>CleanConfirmed. ASSUME NEW p \in Procs, CleanConfirmed(p) PROVE Quiet
  BY <1>CleanConfirmed, RowEdit DEF CleanConfirmed, Quiet, Final, rowVars
<1>CleanFails. ASSUME NEW p \in Procs, CleanFails(p) PROVE Quiet
  BY <1>CleanFails, RowEdit DEF CleanFails, Quiet, Final, rowVars
<1>CleanWrite. ASSUME NEW p \in Procs, CleanWrite(p) PROVE Quiet
  BY <1>CleanWrite, RowEdit DEF CleanWrite, Quiet, Final, rowVars
<1>Restart. ASSUME NEW p \in Procs, Restart(p) PROVE Quiet
  BY <1>Restart, RowEdit DEF Restart, Quiet, Final, rowVars
<1>SweepReset. ASSUME NEW p \in Procs, SweepReset(p) PROVE Quiet
  BY <1>SweepReset, RowEdit DEF SweepReset, Quiet, Final, rowVars
<1>ResetDeferred. ASSUME NEW p \in Procs, ResetDeferred(p) PROVE Quiet
  BY <1>ResetDeferred, RowEdit DEF ResetDeferred, Quiet, Final, rowVars
<1>ResetDelete. ASSUME NEW p \in Procs, ResetDelete(p) PROVE Quiet
  BY <1>ResetDelete, RowEdit DEF ResetDelete, Quiet, Final, rowVars
<1>ResetConfirmed. ASSUME NEW p \in Procs, ResetConfirmed(p) PROVE Quiet
  BY <1>ResetConfirmed, RowEdit DEF ResetConfirmed, Quiet, Final, rowVars
<1>ResetFails. ASSUME NEW p \in Procs, ResetFails(p) PROVE Quiet
  BY <1>ResetFails, RowEdit DEF ResetFails, Quiet, Final, rowVars
<1>ResetWrite. ASSUME NEW p \in Procs, ResetWrite(p) PROVE Quiet
  BY <1>ResetWrite, RowEdit DEF ResetWrite, Still, Quiet, Final, rowVars
<1>Stop. ASSUME NEW p \in Procs, Stop(p) PROVE Quiet
  BY <1>Stop, RowEdit DEF Stop, HoldRow, Quiet, Final, rowVars
<1>StopVmAnswers. ASSUME NEW p \in Procs, StopVmAnswers(p) PROVE Quiet
  BY <1>StopVmAnswers, RowEdit DEF StopVmAnswers, Quiet, Final, rowVars
<1>StopVmFails. ASSUME NEW p \in Procs, StopVmFails(p) PROVE Quiet
  BY <1>StopVmFails, RowEdit DEF StopVmFails, Quiet, Final, rowVars
<1>StopWrite. ASSUME NEW p \in Procs, StopWrite(p) PROVE Quiet
  BY <1>StopWrite, RowEdit DEF StopWrite, Still, Quiet, Final, rowVars
<1>MarkVmMissing. ASSUME NEW p \in Procs, MarkVmMissing(p) PROVE Quiet
  BY <1>MarkVmMissing, RowEdit DEF MarkVmMissing, Still, Quiet, Final, rowVars
<1>Start. ASSUME NEW p \in Procs, Start(p) PROVE Quiet
  BY <1>Start, RowEdit DEF Start, Quiet, Final, rowVars
<1>StartRead. ASSUME NEW p \in Procs, StartRead(p) PROVE Quiet
  BY <1>StartRead, RowEdit DEF StartRead, HoldRow, Quiet, Final, rowVars
<1>StartVmAnswers. ASSUME NEW p \in Procs, StartVmAnswers(p) PROVE Quiet
  BY <1>StartVmAnswers, RowEdit DEF StartVmAnswers, Quiet, Final, rowVars
<1>StartVmFails. ASSUME NEW p \in Procs, StartVmFails(p) PROVE Quiet
  BY <1>StartVmFails, RowEdit DEF StartVmFails, Quiet, Final, rowVars
<1>StartWrite. ASSUME NEW p \in Procs, StartWrite(p) PROVE Quiet
  BY <1>StartWrite, RowEdit DEF StartWrite, Still, Quiet, Final, rowVars
<1>RebuildMissingVm. ASSUME NEW p \in Procs, RebuildMissingVm(p) PROVE Quiet
  BY <1>RebuildMissingVm, ReprovisionEffect
  DEF RebuildMissingVm, Reprovisioned, Statuses, Quiet, Final
<1>Crash. ASSUME NEW p \in Procs, Crash(p) PROVE Quiet
  BY <1>Crash, RowEdit DEF Crash, Quiet, Final, rowVars
<1>ExpireCreating. CASE ExpireCreating
  BY <1>ExpireCreating, RowEdit DEF ExpireCreating, Quiet, Final, rowVars
<1>Enroll. CASE Enroll
  BY <1>Enroll, RowEdit DEF Enroll, Quiet, Final, rowVars
<1>LabsCreates. ASSUME NEW l \in LabIds, LabsCreates(l) PROVE Quiet
  BY <1>LabsCreates, RowEdit DEF LabsCreates, Quiet, Final, rowVars
<1>LabsRefuses. ASSUME NEW l \in LabIds, LabsRefuses(l) PROVE Quiet
  BY <1>LabsRefuses, RowEdit DEF LabsRefuses, Quiet, Final, rowVars
<1>LabsDeletes. ASSUME NEW l \in LabIds, LabsDeletes(l) PROVE Quiet
  BY <1>LabsDeletes, RowEdit DEF LabsDeletes, Quiet, Final, rowVars
<1>GuestPowersOff. ASSUME NEW l \in LabIds, GuestPowersOff(l) PROVE Quiet
  BY <1>GuestPowersOff, RowEdit DEF GuestPowersOff, Quiet, Final, rowVars
<1>HostLosesVm. ASSUME NEW l \in LabIds, HostLosesVm(l) PROVE Quiet
  BY <1>HostLosesVm, RowEdit DEF HostLosesVm, Quiet, Final, rowVars
<1>unchanged. CASE UNCHANGED vars
  BY <1>unchanged DEF vars, Quiet
<1> QED
  BY <1>Create, <1>CreateRetry, <1>CreateInsert, <1>ScheduleRefused,
     <1>ScheduleProvision, <1>PostVm, <1>CreateVmFails, <1>CreateVmAnswers,
     <1>Attach, <1>Claim, <1>SweepProvision, <1>CleanDelete,
     <1>CleanConfirmed, <1>CleanFails, <1>CleanWrite, <1>Restart,
     <1>SweepReset, <1>ResetDeferred, <1>ResetDelete, <1>ResetConfirmed,
     <1>ResetFails, <1>ResetWrite, <1>Stop, <1>StopVmAnswers,
     <1>StopVmFails, <1>StopWrite, <1>MarkVmMissing, <1>Start, <1>StartRead,
     <1>StartVmAnswers, <1>StartVmFails, <1>StartWrite, <1>RebuildMissingVm,
     <1>Crash, <1>ExpireCreating, <1>Enroll, <1>LabsCreates, <1>LabsRefuses,
     <1>LabsDeletes, <1>GuestPowersOff, <1>HostLosesVm, <1>unchanged
  DEF Next, Step, CreateSteps, ProvisionSteps, CleanupSteps, ResetSteps,
      StopSteps, StartSteps, Labs

\* No step of any process revives a row that a restart marked RESETTING.
THEOREM ResettingStays == Spec => ResettingIsFinal
<1>1. SafetyInv /\ [Next]_vars => Quiet
  BY FinalStep DEF SafetyInv
<1>2. Quiet => [Final]_workspace
  BY DEF Quiet
<1> QED
  BY <1>1, <1>2, Safety, PTL DEF Spec, ResettingIsFinal, Final

=============================================================================
