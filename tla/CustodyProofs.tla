---------------------------- MODULE CustodyProofs ----------------------------
(***************************************************************************)
(* Theorems about Workspace that rest on what each process holds from its  *)
(* reads: a restart fences off the creations before it, no machine is ever *)
(* orphaned, and the service implements VmCustody.                         *)
(***************************************************************************)
EXTENDS WorkspaceProofs

-----------------------------------------------------------------------------
(* A restart fences off the creations before it *)

Waits(p) == pc[p] \in {"post", "posted", "attach"}

\* Nobody starts to wait, and the row does not start to be waited for.
FenceStays ==
    /\ enrollment'.generation = enrollment.generation
    /\ workspace'.status = "CREATING" =>
          /\ workspace.status = "CREATING" /\ workspace'.row = workspace.row
          /\ workspace'.generation = workspace.generation
    /\ \A q \in Procs : Waits(q)' =>
          /\ Waits(q) /\ job'[q].row = job[q].row /\ job'[q].egen = job[q].egen
          /\ job'[q].generation = job[q].generation

LEMMA FenceFrame == ASSUME WaitedForIsCurrent, FenceStays PROVE WaitedForIsCurrent'
  BY DEF WaitedForIsCurrent, FenceStays, Waits, StillThisProvision, Still

\* The row is waited for under a generation no process holds yet.
LEMMA FenceOfNewRow ==
  ASSUME TypeOK, HeldOK, NothingUnissued, NEW p \in Procs, ~Waits(p)',
         \A q \in Procs \ {p} : pc'[q] = pc[q] /\ job'[q] = job[q],
         \A q \in Procs \ {p} : Creator(q) =>
             \/ workspace'.row # job[q].row \/ workspace'.generation # job[q].generation
  PROVE  WaitedForIsCurrent'
  BY DEF WaitedForIsCurrent, Waits, StillThisProvision, Still, Creator

LEMMA FenceOfReprovision ==
  ASSUME TypeOK, HeldOK, NothingUnissued, NEW p \in Procs, NEW st, Reprovisioned(p, st)
  PROVE  WaitedForIsCurrent'
<1>1. ASSUME NEW q \in Procs \ {p}, Creator(q), workspace'.row = job[q].row
      PROVE  workspace'.generation # job[q].generation
  <2>1. Issued(Target(q)) /\ job[q].generation \in Int
    BY <1>1, BoundsAssumption DEF NothingUnissued, TypeOK, Jobs, Provisions
  <2>2. job[q].generation <= workspace.generation
    BY <1>1, <2>1 DEF Issued, Target, LabOf, Reprovisioned
  <2>3. workspace.generation \in Int /\ workspace'.generation = workspace.generation + 1
    BY BoundsAssumption DEF Reprovisioned, Rows, Provisions
  <2> QED
    BY <2>1, <2>2, <2>3
<1>2. ~Waits(p)' /\ \A q \in Procs \ {p} : pc'[q] = pc[q] /\ job'[q] = job[q]
  BY DEF Reprovisioned, Waits
<1> QED
  BY <1>1, <1>2, FenceOfNewRow

LEMMA FenceStep ==
  ASSUME TypeOK, HeldOK, NothingUnissued, WaitedForIsCurrent, [Next]_vars
  PROVE  WaitedForIsCurrent'
<1>Create. ASSUME NEW p \in Procs, Create(p) PROVE WaitedForIsCurrent'
  BY <1>Create, RowEdit, FenceFrame
  DEF Create, FenceStays, Waits, Goto, Hold, Done, Become, At, TypeOK, rowVars, procVars
<1>CreateRetry. ASSUME NEW p \in Procs, CreateRetry(p) PROVE WaitedForIsCurrent'
  <2>1. Reprovisioned(p, "ERROR") \/ (UNCHANGED workspace /\ Done(p))
    BY <1>CreateRetry, ReprovisionEffect DEF CreateRetry, Statuses
  <2>2. UNCHANGED enrollment
    BY <1>CreateRetry DEF CreateRetry
  <2>3. CASE Reprovisioned(p, "ERROR")
    BY <2>3, FenceOfReprovision
  <2>4. CASE UNCHANGED workspace /\ Done(p)
    BY <2>2, <2>4, ProcEffect, FenceFrame DEF FenceStays, Waits
  <2> QED
    BY <2>1, <2>3, <2>4
<1>CreateInsert. ASSUME NEW p \in Procs, CreateInsert(p) PROVE WaitedForIsCurrent'
  <2>1. /\ workspace'.row = nextRow
        /\ pc'[p] = "schedule" /\ \A q \in Procs \ {p} : pc'[q] = pc[q] /\ job'[q] = job[q]
    BY <1>CreateInsert DEF CreateInsert, NoRow, Goto, Hold, TypeOK
  <2>2. ASSUME NEW q \in Procs \ {p}, Creator(q) PROVE workspace'.row # job[q].row
    <3>1. Issued(Target(q)) /\ job[q].row \in RowIds
      BY <2>2 DEF NothingUnissued, HeldOK
    <3>2. job[q].row < nextRow /\ nextRow \in Int
      BY <3>1, BoundsAssumption DEF Issued, Target, LabOf, TypeOK
    <3> QED
      BY <2>1, <3>1, <3>2, BoundsAssumption DEF RowIds
  <2> QED
    BY <2>1, <2>2, FenceOfNewRow DEF Waits
<1>ScheduleRefused. ASSUME NEW p \in Procs, ScheduleRefused(p) PROVE WaitedForIsCurrent'
  BY <1>ScheduleRefused, RowEdit, FenceFrame
  DEF ScheduleRefused, StillThisProvision, Still, FenceStays, Waits, Goto, Hold, Done,
      Become, At, TypeOK, rowVars, procVars
<1>ScheduleProvision. ASSUME NEW p \in Procs, ScheduleProvision(p)
      PROVE WaitedForIsCurrent'
  <2>1. UNCHANGED <<enrollment, workspace>> /\ enrollment.generation = job[p].egen
    BY <1>ScheduleProvision DEF ScheduleProvision, EnrollmentMoved, rowVars
  <2>2. /\ \A q \in Procs \ {p} : pc'[q] = pc[q] /\ job'[q] = job[q]
        /\ job'[p].egen = job[p].egen \/ ~Waits(p)'
    BY <1>ScheduleProvision
    DEF ScheduleProvision, Goto, Hold, Done, TypeOK, Jobs, Waits
  <2> QED
    BY <2>1, <2>2 DEF WaitedForIsCurrent, Waits, StillThisProvision, Still
<1>PostVm. ASSUME NEW p \in Procs, PostVm(p) PROVE WaitedForIsCurrent'
  BY <1>PostVm, RowEdit, FenceFrame
  DEF PostVm, FenceStays, Waits, Goto, Hold, Done, Become, At, TypeOK, rowVars, procVars
<1>CreateVmFails. ASSUME NEW p \in Procs, CreateVmFails(p) PROVE WaitedForIsCurrent'
  BY <1>CreateVmFails, RowEdit, FenceFrame
  DEF CreateVmFails, StillThisProvision, Still, FenceStays, Waits, Goto, Hold, Done,
      Become, At, TypeOK, rowVars, procVars
<1>CreateVmAnswers. ASSUME NEW p \in Procs, CreateVmAnswers(p) PROVE WaitedForIsCurrent'
  BY <1>CreateVmAnswers, RowEdit, FenceFrame
  DEF CreateVmAnswers, FenceStays, Waits, Goto, Hold, Done, Become, At, TypeOK,
      rowVars, procVars
<1>Attach. ASSUME NEW p \in Procs, Attach(p) PROVE WaitedForIsCurrent'
  <2>1. Wins(p) \/ (UNCHANGED <<workspace, provision>> /\ Become(p, "claim"))
    BY <1>Attach, AttachEffect
  <2>2. UNCHANGED enrollment
    BY <1>Attach DEF Attach
  <2>3. CASE Wins(p)
    BY <2>3 DEF Wins, WaitedForIsCurrent, StillThisProvision, Still
  <2>4. CASE UNCHANGED workspace /\ Become(p, "claim")
    BY <2>2, <2>4, ProcEffect, FenceFrame DEF FenceStays, Waits, Labels
  <2> QED
    BY <2>1, <2>3, <2>4
<1>Claim. ASSUME NEW p \in Procs, Claim(p) PROVE WaitedForIsCurrent'
  BY <1>Claim, RowEdit, FenceFrame
  DEF Claim, Claimed, FenceStays, Waits, Goto, Hold, Done, Become, At, TypeOK, rowVars,
      procVars
<1>SweepProvision. ASSUME NEW p \in Procs, NEW l \in LabIds, SweepProvision(p, l)
      PROVE WaitedForIsCurrent'
  BY <1>SweepProvision, RowEdit, FenceFrame
  DEF SweepProvision, Claimed, FenceStays, Waits, Goto, Hold, Done, Become, At, TypeOK,
      rowVars, procVars
<1>CleanDelete. ASSUME NEW p \in Procs, CleanDelete(p) PROVE WaitedForIsCurrent'
  BY <1>CleanDelete, RowEdit, FenceFrame
  DEF CleanDelete, FenceStays, Waits, Goto, Hold, Done, Become, At, TypeOK, rowVars,
      procVars
<1>CleanConfirmed. ASSUME NEW p \in Procs, CleanConfirmed(p) PROVE WaitedForIsCurrent'
  BY <1>CleanConfirmed, RowEdit, FenceFrame
  DEF CleanConfirmed, FenceStays, Waits, Goto, Hold, Done, Become, At, TypeOK, rowVars,
      procVars
<1>CleanFails. ASSUME NEW p \in Procs, CleanFails(p) PROVE WaitedForIsCurrent'
  BY <1>CleanFails, RowEdit, FenceFrame
  DEF CleanFails, FenceStays, Waits, Goto, Hold, Done, Become, At, TypeOK, rowVars,
      procVars
<1>CleanWrite. ASSUME NEW p \in Procs, CleanWrite(p) PROVE WaitedForIsCurrent'
  BY <1>CleanWrite, RowEdit, FenceFrame
  DEF CleanWrite, FenceStays, Waits, Goto, Hold, Done, Become, At, TypeOK, rowVars,
      procVars
<1>Restart. ASSUME NEW p \in Procs, Restart(p) PROVE WaitedForIsCurrent'
  <2>1. workspace'.status # "CREATING"
    BY <1>Restart, RowEdit DEF Restart
  <2> QED
    BY <2>1 DEF WaitedForIsCurrent, StillThisProvision, Still
<1>SweepReset. ASSUME NEW p \in Procs, SweepReset(p) PROVE WaitedForIsCurrent'
  BY <1>SweepReset, RowEdit, FenceFrame
  DEF SweepReset, FenceStays, Waits, Goto, Hold, Done, Become, At, TypeOK, rowVars,
      procVars
<1>ResetDeferred. ASSUME NEW p \in Procs, ResetDeferred(p) PROVE WaitedForIsCurrent'
  BY <1>ResetDeferred, RowEdit, FenceFrame
  DEF ResetDeferred, FenceStays, Waits, Goto, Hold, Done, Become, At, TypeOK, rowVars,
      procVars
<1>ResetDelete. ASSUME NEW p \in Procs, ResetDelete(p) PROVE WaitedForIsCurrent'
  BY <1>ResetDelete, RowEdit, FenceFrame
  DEF ResetDelete, FenceStays, Waits, Goto, Hold, Done, Become, At, TypeOK, rowVars,
      procVars
<1>ResetConfirmed. ASSUME NEW p \in Procs, ResetConfirmed(p) PROVE WaitedForIsCurrent'
  BY <1>ResetConfirmed, RowEdit, FenceFrame
  DEF ResetConfirmed, FenceStays, Waits, Goto, Hold, Done, Become, At, TypeOK, rowVars,
      procVars
<1>ResetFails. ASSUME NEW p \in Procs, ResetFails(p) PROVE WaitedForIsCurrent'
  BY <1>ResetFails, RowEdit, FenceFrame
  DEF ResetFails, FenceStays, Waits, Goto, Hold, Done, Become, At, TypeOK, rowVars,
      procVars
<1>ResetWrite. ASSUME NEW p \in Procs, ResetWrite(p) PROVE WaitedForIsCurrent'
  BY <1>ResetWrite, NoRowValues, FenceFrame
  DEF ResetWrite, Still, FenceStays, Waits, Done, Goto, Hold, At, TypeOK
<1>Stop. ASSUME NEW p \in Procs, Stop(p) PROVE WaitedForIsCurrent'
  BY <1>Stop, RowEdit, FenceFrame
  DEF Stop, HoldRow, FenceStays, Waits, Goto, Hold, Done, Become, At, TypeOK, rowVars,
      procVars
<1>StopVmAnswers. ASSUME NEW p \in Procs, StopVmAnswers(p) PROVE WaitedForIsCurrent'
  BY <1>StopVmAnswers, RowEdit, FenceFrame
  DEF StopVmAnswers, FenceStays, Waits, Goto, Hold, Done, Become, At, TypeOK, rowVars,
      procVars
<1>StopVmFails. ASSUME NEW p \in Procs, StopVmFails(p) PROVE WaitedForIsCurrent'
  BY <1>StopVmFails, RowEdit, FenceFrame
  DEF StopVmFails, FenceStays, Waits, Goto, Hold, Done, Become, At, TypeOK, rowVars,
      procVars
<1>StopWrite. ASSUME NEW p \in Procs, StopWrite(p) PROVE WaitedForIsCurrent'
  BY <1>StopWrite, RowEdit, FenceFrame
  DEF StopWrite, Still, FenceStays, Waits, Goto, Hold, Done, Become, At, TypeOK,
      rowVars, procVars
<1>MarkVmMissing. ASSUME NEW p \in Procs, MarkVmMissing(p) PROVE WaitedForIsCurrent'
  BY <1>MarkVmMissing, RowEdit, FenceFrame
  DEF MarkVmMissing, Still, FenceStays, Waits, Goto, Hold, Done, Become, At, TypeOK,
      rowVars, procVars
<1>Start. ASSUME NEW p \in Procs, Start(p) PROVE WaitedForIsCurrent'
  BY <1>Start, RowEdit, FenceFrame
  DEF Start, FenceStays, Waits, Goto, Hold, Done, Become, At, TypeOK, rowVars, procVars
<1>StartRead. ASSUME NEW p \in Procs, StartRead(p) PROVE WaitedForIsCurrent'
  BY <1>StartRead, RowEdit, FenceFrame
  DEF StartRead, HoldRow, FenceStays, Waits, Goto, Hold, Done, Become, At, TypeOK,
      rowVars, procVars
<1>StartVmAnswers. ASSUME NEW p \in Procs, StartVmAnswers(p) PROVE WaitedForIsCurrent'
  BY <1>StartVmAnswers, RowEdit, FenceFrame
  DEF StartVmAnswers, FenceStays, Waits, Goto, Hold, Done, Become, At, TypeOK, rowVars,
      procVars
<1>StartVmFails. ASSUME NEW p \in Procs, StartVmFails(p) PROVE WaitedForIsCurrent'
  BY <1>StartVmFails, RowEdit, FenceFrame
  DEF StartVmFails, FenceStays, Waits, Goto, Hold, Done, Become, At, TypeOK, rowVars,
      procVars
<1>StartWrite. ASSUME NEW p \in Procs, StartWrite(p) PROVE WaitedForIsCurrent'
  BY <1>StartWrite, RowEdit, FenceFrame
  DEF StartWrite, Still, FenceStays, Waits, Goto, Hold, Done, Become, At, TypeOK,
      rowVars, procVars
<1>RebuildMissingVm. ASSUME NEW p \in Procs, RebuildMissingVm(p)
      PROVE WaitedForIsCurrent'
  <2>1. Reprovisioned(p, "STOPPED") \/ (UNCHANGED workspace /\ Done(p))
    BY <1>RebuildMissingVm, ReprovisionEffect DEF RebuildMissingVm, Statuses
  <2>2. UNCHANGED enrollment
    BY <1>RebuildMissingVm DEF RebuildMissingVm
  <2>3. CASE Reprovisioned(p, "STOPPED")
    BY <2>3, FenceOfReprovision
  <2>4. CASE UNCHANGED workspace /\ Done(p)
    BY <2>2, <2>4, ProcEffect, FenceFrame DEF FenceStays, Waits
  <2> QED
    BY <2>1, <2>3, <2>4
<1>Crash. ASSUME NEW p \in Procs, Crash(p) PROVE WaitedForIsCurrent'
  BY <1>Crash, RowEdit, FenceFrame
  DEF Crash, FenceStays, Waits, Goto, Hold, Done, Become, At, TypeOK, rowVars, procVars
<1>ExpireCreating. CASE ExpireCreating
  BY <1>ExpireCreating, RowEdit, FenceFrame
  DEF ExpireCreating, FenceStays, Waits, Goto, Hold, Done, Become, At, TypeOK, rowVars,
      procVars
<1>Enroll. CASE Enroll
  <2>1. enrollment'.generation = enrollment.generation
    BY <1>Enroll DEF Enroll, TypeOK
  <2> QED
    BY <1>Enroll, <2>1, FenceFrame DEF Enroll, FenceStays, Waits, rowVars, procVars
<1>LabsCreates. ASSUME NEW l \in LabIds, LabsCreates(l) PROVE WaitedForIsCurrent'
  BY <1>LabsCreates, RowEdit, FenceFrame
  DEF LabsCreates, FenceStays, Waits, Goto, Hold, Done, Become, At, TypeOK, rowVars,
      procVars
<1>LabsRefuses. ASSUME NEW l \in LabIds, LabsRefuses(l) PROVE WaitedForIsCurrent'
  BY <1>LabsRefuses, RowEdit, FenceFrame
  DEF LabsRefuses, FenceStays, Waits, Goto, Hold, Done, Become, At, TypeOK, rowVars,
      procVars
<1>LabsDeletes. ASSUME NEW l \in LabIds, LabsDeletes(l) PROVE WaitedForIsCurrent'
  BY <1>LabsDeletes, RowEdit, FenceFrame
  DEF LabsDeletes, FenceStays, Waits, Goto, Hold, Done, Become, At, TypeOK, rowVars,
      procVars
<1>GuestPowersOff. ASSUME NEW l \in LabIds, GuestPowersOff(l) PROVE WaitedForIsCurrent'
  BY <1>GuestPowersOff, RowEdit, FenceFrame
  DEF GuestPowersOff, FenceStays, Waits, Goto, Hold, Done, Become, At, TypeOK, rowVars,
      procVars
<1>HostLosesVm. ASSUME NEW l \in LabIds, HostLosesVm(l) PROVE WaitedForIsCurrent'
  BY <1>HostLosesVm, RowEdit, FenceFrame
  DEF HostLosesVm, FenceStays, Waits, Goto, Hold, Done, Become, At, TypeOK, rowVars,
      procVars
<1>unchanged. CASE UNCHANGED vars
  BY <1>unchanged, FenceFrame DEF vars, FenceStays, Waits
<1> QED
  BY <1>Create, <1>CreateRetry, <1>CreateInsert, <1>ScheduleRefused,
     <1>ScheduleProvision, <1>PostVm, <1>CreateVmFails, <1>CreateVmAnswers,
     <1>Attach, <1>Claim, <1>SweepProvision, <1>CleanDelete, <1>CleanConfirmed,
     <1>CleanFails, <1>CleanWrite, <1>Restart, <1>SweepReset, <1>ResetDeferred,
     <1>ResetDelete, <1>ResetConfirmed, <1>ResetFails, <1>ResetWrite, <1>Stop,
     <1>StopVmAnswers, <1>StopVmFails, <1>StopWrite, <1>MarkVmMissing,
     <1>Start, <1>StartRead, <1>StartVmAnswers, <1>StartVmFails, <1>StartWrite,
     <1>RebuildMissingVm, <1>Crash, <1>ExpireCreating, <1>Enroll,
     <1>LabsCreates, <1>LabsRefuses, <1>LabsDeletes, <1>GuestPowersOff,
     <1>HostLosesVm, <1>unchanged
  DEF Next, Step, CreateSteps, ProvisionSteps, CleanupSteps, ResetSteps,
      StopSteps, StartSteps, Labs

\* The inductive invariant of the fence: a creation that the row still waits
\* for was reserved in the present enrollment generation.
THEOREM WaitedFor == Spec => []WaitedForIsCurrent
<1>1. Init => WaitedForIsCurrent
  BY DEF Init, WaitedForIsCurrent
<1>2. SafetyInv /\ WaitedForIsCurrent /\ [Next]_vars => WaitedForIsCurrent'
  BY FenceStep DEF SafetyInv
<1> QED
  BY <1>1, <1>2, Safety, PTL DEF Spec

Fenced ==
    \A p \in Procs :
        (At(p, "attach") /\ pc'[p] = "idle" /\ workspace'.lab # workspace.lab)
            => job[p].egen = enrollment.generation

LEMMA FencedStep ==
  ASSUME TypeOK, HeldOK, WaitedForIsCurrent, [Next]_vars PROVE Fenced
<1>Create. ASSUME NEW p \in Procs, Create(p) PROVE Fenced
  BY <1>Create, RowEdit DEF Create, Fenced, rowVars, procVars
<1>CreateRetry. ASSUME NEW p \in Procs, CreateRetry(p) PROVE Fenced
  BY <1>CreateRetry, ReprovisionEffect DEF CreateRetry, Reprovisioned, Statuses, Fenced
<1>CreateInsert. ASSUME NEW p \in Procs, CreateInsert(p) PROVE Fenced
  <2>1. workspace'.lab = NoLab /\ workspace.lab = NoLab
    BY <1>CreateInsert, NoRowValues DEF CreateInsert, TypeOK, Rows, Statuses, NoRow
  <2> QED
    BY <2>1 DEF Fenced
<1>ScheduleRefused. ASSUME NEW p \in Procs, ScheduleRefused(p) PROVE Fenced
  BY <1>ScheduleRefused, RowEdit DEF ScheduleRefused, StillThisProvision, Still,
     Fenced, rowVars, procVars
<1>ScheduleProvision. ASSUME NEW p \in Procs, ScheduleProvision(p) PROVE Fenced
  BY <1>ScheduleProvision, RowEdit DEF ScheduleProvision, Fenced, rowVars, procVars
<1>PostVm. ASSUME NEW p \in Procs, PostVm(p) PROVE Fenced
  BY <1>PostVm, RowEdit DEF PostVm, Fenced, rowVars, procVars
<1>CreateVmFails. ASSUME NEW p \in Procs, CreateVmFails(p) PROVE Fenced
  BY <1>CreateVmFails, RowEdit DEF CreateVmFails, StillThisProvision, Still, Fenced,
     rowVars, procVars
<1>CreateVmAnswers. ASSUME NEW p \in Procs, CreateVmAnswers(p) PROVE Fenced
  BY <1>CreateVmAnswers, RowEdit DEF CreateVmAnswers, Fenced, rowVars, procVars
<1>Attach. ASSUME NEW p \in Procs, Attach(p) PROVE Fenced
  <2>1. Wins(p) \/ UNCHANGED workspace
    BY <1>Attach, AttachEffect
  <2>2. CASE Wins(p)
    <3>1. job[p].egen = enrollment.generation
      BY <1>Attach, <2>2 DEF Attach, At, Wins, WaitedForIsCurrent
    <3>2. \A q \in Procs \ {p} : pc'[q] = pc[q]
      BY <2>2, ProcEffect DEF Wins
    <3> QED
      BY <3>1, <3>2 DEF Fenced, At
  <2> QED
    BY <2>1, <2>2 DEF Fenced
<1>Claim. ASSUME NEW p \in Procs, Claim(p) PROVE Fenced
  BY <1>Claim, RowEdit DEF Claim, Claimed, Fenced, rowVars, procVars
<1>SweepProvision. ASSUME NEW p \in Procs, NEW l \in LabIds, SweepProvision(p, l)
      PROVE Fenced
  BY <1>SweepProvision, RowEdit DEF SweepProvision, Claimed, Fenced, rowVars, procVars
<1>CleanDelete. ASSUME NEW p \in Procs, CleanDelete(p) PROVE Fenced
  BY <1>CleanDelete, RowEdit DEF CleanDelete, Fenced, rowVars, procVars
<1>CleanConfirmed. ASSUME NEW p \in Procs, CleanConfirmed(p) PROVE Fenced
  BY <1>CleanConfirmed, RowEdit DEF CleanConfirmed, Fenced, rowVars, procVars
<1>CleanFails. ASSUME NEW p \in Procs, CleanFails(p) PROVE Fenced
  BY <1>CleanFails, RowEdit DEF CleanFails, Fenced, rowVars, procVars
<1>CleanWrite. ASSUME NEW p \in Procs, CleanWrite(p) PROVE Fenced
  BY <1>CleanWrite, RowEdit DEF CleanWrite, Fenced, rowVars, procVars
<1>Restart. ASSUME NEW p \in Procs, Restart(p) PROVE Fenced
  <2>1. workspace'.lab = workspace.lab
    <3>1. CASE workspace' = [workspace EXCEPT !.status = "RESETTING"]
      BY <3>1, RowEdit
    <3> QED
      BY <1>Restart, <3>1 DEF Restart
  <2> QED
    BY <2>1 DEF Fenced
<1>SweepReset. ASSUME NEW p \in Procs, SweepReset(p) PROVE Fenced
  BY <1>SweepReset, RowEdit DEF SweepReset, Fenced, rowVars, procVars
<1>ResetDeferred. ASSUME NEW p \in Procs, ResetDeferred(p) PROVE Fenced
  BY <1>ResetDeferred, RowEdit DEF ResetDeferred, Fenced, rowVars, procVars
<1>ResetDelete. ASSUME NEW p \in Procs, ResetDelete(p) PROVE Fenced
  BY <1>ResetDelete, RowEdit DEF ResetDelete, Fenced, rowVars, procVars
<1>ResetConfirmed. ASSUME NEW p \in Procs, ResetConfirmed(p) PROVE Fenced
  BY <1>ResetConfirmed, RowEdit DEF ResetConfirmed, Fenced, rowVars, procVars
<1>ResetFails. ASSUME NEW p \in Procs, ResetFails(p) PROVE Fenced
  BY <1>ResetFails, RowEdit DEF ResetFails, Fenced, rowVars, procVars
<1>ResetWrite. ASSUME NEW p \in Procs, ResetWrite(p) PROVE Fenced
  BY <1>ResetWrite, ProcEffect DEF ResetWrite, Fenced, At
<1>Stop. ASSUME NEW p \in Procs, Stop(p) PROVE Fenced
  BY <1>Stop, RowEdit DEF Stop, HoldRow, Fenced, rowVars, procVars
<1>StopVmAnswers. ASSUME NEW p \in Procs, StopVmAnswers(p) PROVE Fenced
  BY <1>StopVmAnswers, RowEdit DEF StopVmAnswers, Fenced, rowVars, procVars
<1>StopVmFails. ASSUME NEW p \in Procs, StopVmFails(p) PROVE Fenced
  BY <1>StopVmFails, RowEdit DEF StopVmFails, Fenced, rowVars, procVars
<1>StopWrite. ASSUME NEW p \in Procs, StopWrite(p) PROVE Fenced
  BY <1>StopWrite, RowEdit DEF StopWrite, Still, Fenced, rowVars, procVars
<1>MarkVmMissing. ASSUME NEW p \in Procs, MarkVmMissing(p) PROVE Fenced
  BY <1>MarkVmMissing, RowEdit DEF MarkVmMissing, Still, Fenced, rowVars, procVars
<1>Start. ASSUME NEW p \in Procs, Start(p) PROVE Fenced
  BY <1>Start, RowEdit DEF Start, Fenced, rowVars, procVars
<1>StartRead. ASSUME NEW p \in Procs, StartRead(p) PROVE Fenced
  BY <1>StartRead, RowEdit DEF StartRead, HoldRow, Fenced, rowVars, procVars
<1>StartVmAnswers. ASSUME NEW p \in Procs, StartVmAnswers(p) PROVE Fenced
  BY <1>StartVmAnswers, RowEdit DEF StartVmAnswers, Fenced, rowVars, procVars
<1>StartVmFails. ASSUME NEW p \in Procs, StartVmFails(p) PROVE Fenced
  BY <1>StartVmFails, RowEdit DEF StartVmFails, Fenced, rowVars, procVars
<1>StartWrite. ASSUME NEW p \in Procs, StartWrite(p) PROVE Fenced
  BY <1>StartWrite, RowEdit DEF StartWrite, Still, Fenced, rowVars, procVars
<1>RebuildMissingVm. ASSUME NEW p \in Procs, RebuildMissingVm(p) PROVE Fenced
  BY <1>RebuildMissingVm, ReprovisionEffect
  DEF RebuildMissingVm, Reprovisioned, Statuses, Fenced
<1>Crash. ASSUME NEW p \in Procs, Crash(p) PROVE Fenced
  BY <1>Crash, RowEdit DEF Crash, Fenced, rowVars, procVars
<1>ExpireCreating. CASE ExpireCreating
  BY <1>ExpireCreating, RowEdit DEF ExpireCreating, Fenced, rowVars, procVars
<1>Enroll. CASE Enroll
  BY <1>Enroll, RowEdit DEF Enroll, Fenced, rowVars, procVars
<1>LabsCreates. ASSUME NEW l \in LabIds, LabsCreates(l) PROVE Fenced
  BY <1>LabsCreates, RowEdit DEF LabsCreates, Fenced, rowVars, procVars
<1>LabsRefuses. ASSUME NEW l \in LabIds, LabsRefuses(l) PROVE Fenced
  BY <1>LabsRefuses, RowEdit DEF LabsRefuses, Fenced, rowVars, procVars
<1>LabsDeletes. ASSUME NEW l \in LabIds, LabsDeletes(l) PROVE Fenced
  BY <1>LabsDeletes, RowEdit DEF LabsDeletes, Fenced, rowVars, procVars
<1>GuestPowersOff. ASSUME NEW l \in LabIds, GuestPowersOff(l) PROVE Fenced
  BY <1>GuestPowersOff, RowEdit DEF GuestPowersOff, Fenced, rowVars, procVars
<1>HostLosesVm. ASSUME NEW l \in LabIds, HostLosesVm(l) PROVE Fenced
  BY <1>HostLosesVm, RowEdit DEF HostLosesVm, Fenced, rowVars, procVars
<1>unchanged. CASE UNCHANGED vars
  BY <1>unchanged DEF vars, Fenced
<1> QED
  BY <1>Create, <1>CreateRetry, <1>CreateInsert, <1>ScheduleRefused,
     <1>ScheduleProvision, <1>PostVm, <1>CreateVmFails, <1>CreateVmAnswers,
     <1>Attach, <1>Claim, <1>SweepProvision, <1>CleanDelete, <1>CleanConfirmed,
     <1>CleanFails, <1>CleanWrite, <1>Restart, <1>SweepReset, <1>ResetDeferred,
     <1>ResetDelete, <1>ResetConfirmed, <1>ResetFails, <1>ResetWrite, <1>Stop,
     <1>StopVmAnswers, <1>StopVmFails, <1>StopWrite, <1>MarkVmMissing,
     <1>Start, <1>StartRead, <1>StartVmAnswers, <1>StartVmFails, <1>StartWrite,
     <1>RebuildMissingVm, <1>Crash, <1>ExpireCreating, <1>Enroll,
     <1>LabsCreates, <1>LabsRefuses, <1>LabsDeletes, <1>GuestPowersOff,
     <1>HostLosesVm, <1>unchanged
  DEF Next, Step, CreateSteps, ProvisionSteps, CleanupSteps, ResetSteps,
      StopSteps, StartSteps, Labs

\* A restart fences off every creation before it: whoever attaches a machine
\* asked for it in the enrollment generation that is current when it does.
THEOREM RestartFences == Spec => RestartFencesProvisions
<1>1. SafetyInv /\ WaitedForIsCurrent /\ [Next]_vars => Fenced
  BY FencedStep DEF SafetyInv
<1> QED
  BY <1>1, Safety, WaitedFor, PTL DEF Spec, RestartFencesProvisions, Fenced

-----------------------------------------------------------------------------
(* What every step does to the machines and to the row *)

\* A machine is made once: by the POST that was in flight.
MachinesMove ==
    \A l \in LabIds :
        /\ post[l] = "created" => post'[l] = "created"
        /\ Exists(l)' => Exists(l) \/ post[l] = "inflight"

LEMMA MachineStep == ASSUME TypeOK, HeldOK, PostsAgree, [Next]_vars PROVE MachinesMove
<1>Create. ASSUME NEW p \in Procs, Create(p) PROVE MachinesMove
  BY <1>Create DEF Create, MachinesMove, Exists, labsVars
<1>CreateRetry. ASSUME NEW p \in Procs, CreateRetry(p) PROVE MachinesMove
  BY <1>CreateRetry DEF CreateRetry, MachinesMove, Exists, labsVars
<1>CreateInsert. ASSUME NEW p \in Procs, CreateInsert(p) PROVE MachinesMove
  BY <1>CreateInsert DEF CreateInsert, MachinesMove, Exists, labsVars
<1>ScheduleRefused. ASSUME NEW p \in Procs, ScheduleRefused(p) PROVE MachinesMove
  BY <1>ScheduleRefused DEF ScheduleRefused, MachinesMove, Exists, labsVars
<1>ScheduleProvision. ASSUME NEW p \in Procs, ScheduleProvision(p) PROVE MachinesMove
  BY <1>ScheduleProvision DEF ScheduleProvision, MachinesMove, Exists, labsVars
<1>PostVm. ASSUME NEW p \in Procs, PostVm(p) PROVE MachinesMove
  <2>1. post[job[p].lab] = "none" /\ post' = [post EXCEPT ![job[p].lab] = "inflight"]
        /\ UNCHANGED vm
    BY <1>PostVm DEF PostVm, PostsAgree, CallAgrees
  <2> QED
    BY <2>1 DEF MachinesMove, Exists, TypeOK
<1>CreateVmFails. ASSUME NEW p \in Procs, CreateVmFails(p) PROVE MachinesMove
  BY <1>CreateVmFails DEF CreateVmFails, MachinesMove, Exists, labsVars
<1>CreateVmAnswers. ASSUME NEW p \in Procs, CreateVmAnswers(p) PROVE MachinesMove
  BY <1>CreateVmAnswers DEF CreateVmAnswers, MachinesMove, Exists, labsVars
<1>Attach. ASSUME NEW p \in Procs, Attach(p) PROVE MachinesMove
  BY <1>Attach DEF Attach, MachinesMove, Exists, labsVars
<1>Claim. ASSUME NEW p \in Procs, Claim(p) PROVE MachinesMove
  BY <1>Claim DEF Claim, MachinesMove, Exists, labsVars
<1>SweepProvision. ASSUME NEW p \in Procs, NEW l \in LabIds, SweepProvision(p, l)
      PROVE MachinesMove
  BY <1>SweepProvision DEF SweepProvision, MachinesMove, Exists, labsVars
<1>CleanDelete. ASSUME NEW p \in Procs, CleanDelete(p) PROVE MachinesMove
  BY <1>CleanDelete DEF CleanDelete, MachinesMove, Exists, labsVars
<1>CleanConfirmed. ASSUME NEW p \in Procs, CleanConfirmed(p) PROVE MachinesMove
  BY <1>CleanConfirmed DEF CleanConfirmed, MachinesMove, Exists, labsVars
<1>CleanFails. ASSUME NEW p \in Procs, CleanFails(p) PROVE MachinesMove
  BY <1>CleanFails DEF CleanFails, MachinesMove, Exists, labsVars
<1>CleanWrite. ASSUME NEW p \in Procs, CleanWrite(p) PROVE MachinesMove
  BY <1>CleanWrite DEF CleanWrite, MachinesMove, Exists, labsVars
<1>Restart. ASSUME NEW p \in Procs, Restart(p) PROVE MachinesMove
  BY <1>Restart DEF Restart, MachinesMove, Exists, labsVars
<1>SweepReset. ASSUME NEW p \in Procs, SweepReset(p) PROVE MachinesMove
  BY <1>SweepReset DEF SweepReset, MachinesMove, Exists, labsVars
<1>ResetDeferred. ASSUME NEW p \in Procs, ResetDeferred(p) PROVE MachinesMove
  BY <1>ResetDeferred DEF ResetDeferred, MachinesMove, Exists, labsVars
<1>ResetDelete. ASSUME NEW p \in Procs, ResetDelete(p) PROVE MachinesMove
  BY <1>ResetDelete DEF ResetDelete, MachinesMove, Exists, labsVars
<1>ResetConfirmed. ASSUME NEW p \in Procs, ResetConfirmed(p) PROVE MachinesMove
  BY <1>ResetConfirmed DEF ResetConfirmed, MachinesMove, Exists, labsVars
<1>ResetFails. ASSUME NEW p \in Procs, ResetFails(p) PROVE MachinesMove
  BY <1>ResetFails DEF ResetFails, MachinesMove, Exists, labsVars
<1>ResetWrite. ASSUME NEW p \in Procs, ResetWrite(p) PROVE MachinesMove
  BY <1>ResetWrite DEF ResetWrite, MachinesMove, Exists, labsVars
<1>Stop. ASSUME NEW p \in Procs, Stop(p) PROVE MachinesMove
  BY <1>Stop DEF Stop, MachinesMove, Exists, labsVars
<1>StopVmAnswers. ASSUME NEW p \in Procs, StopVmAnswers(p) PROVE MachinesMove
  BY <1>StopVmAnswers DEF StopVmAnswers, MachinesMove, Exists, TypeOK
<1>StopVmFails. ASSUME NEW p \in Procs, StopVmFails(p) PROVE MachinesMove
  BY <1>StopVmFails DEF StopVmFails, MachinesMove, Exists, TypeOK
<1>StopWrite. ASSUME NEW p \in Procs, StopWrite(p) PROVE MachinesMove
  BY <1>StopWrite DEF StopWrite, MachinesMove, Exists, labsVars
<1>MarkVmMissing. ASSUME NEW p \in Procs, MarkVmMissing(p) PROVE MachinesMove
  BY <1>MarkVmMissing DEF MarkVmMissing, MachinesMove, Exists, labsVars
<1>Start. ASSUME NEW p \in Procs, Start(p) PROVE MachinesMove
  BY <1>Start DEF Start, MachinesMove, Exists, labsVars
<1>StartRead. ASSUME NEW p \in Procs, StartRead(p) PROVE MachinesMove
  BY <1>StartRead DEF StartRead, MachinesMove, Exists, labsVars
<1>StartVmAnswers. ASSUME NEW p \in Procs, StartVmAnswers(p) PROVE MachinesMove
  BY <1>StartVmAnswers DEF StartVmAnswers, MachinesMove, Exists, TypeOK
<1>StartVmFails. ASSUME NEW p \in Procs, StartVmFails(p) PROVE MachinesMove
  BY <1>StartVmFails DEF StartVmFails, MachinesMove, Exists, TypeOK
<1>StartWrite. ASSUME NEW p \in Procs, StartWrite(p) PROVE MachinesMove
  BY <1>StartWrite DEF StartWrite, MachinesMove, Exists, labsVars
<1>RebuildMissingVm. ASSUME NEW p \in Procs, RebuildMissingVm(p) PROVE MachinesMove
  BY <1>RebuildMissingVm DEF RebuildMissingVm, MachinesMove, Exists, labsVars
<1>Crash. ASSUME NEW p \in Procs, Crash(p) PROVE MachinesMove
  BY <1>Crash DEF Crash, MachinesMove, Exists, labsVars
<1>ExpireCreating. CASE ExpireCreating
  BY <1>ExpireCreating DEF ExpireCreating, MachinesMove, Exists, labsVars
<1>Enroll. CASE Enroll
  BY <1>Enroll DEF Enroll, MachinesMove, Exists, labsVars
<1>LabsCreates. ASSUME NEW l \in LabIds, LabsCreates(l) PROVE MachinesMove
  BY <1>LabsCreates DEF LabsCreates, MachinesMove, Exists, TypeOK
<1>LabsRefuses. ASSUME NEW l \in LabIds, LabsRefuses(l) PROVE MachinesMove
  BY <1>LabsRefuses DEF LabsRefuses, MachinesMove, Exists, TypeOK
<1>LabsDeletes. ASSUME NEW l \in LabIds, LabsDeletes(l) PROVE MachinesMove
  BY <1>LabsDeletes DEF LabsDeletes, MachinesMove, Exists, TypeOK
<1>GuestPowersOff. ASSUME NEW l \in LabIds, GuestPowersOff(l) PROVE MachinesMove
  BY <1>GuestPowersOff DEF GuestPowersOff, MachinesMove, Exists, TypeOK
<1>HostLosesVm. ASSUME NEW l \in LabIds, HostLosesVm(l) PROVE MachinesMove
  BY <1>HostLosesVm DEF HostLosesVm, MachinesMove, Exists, TypeOK
<1>unchanged. CASE UNCHANGED vars
  BY <1>unchanged DEF vars, MachinesMove, Exists
<1> QED
  BY <1>Create, <1>CreateRetry, <1>CreateInsert, <1>ScheduleRefused,
     <1>ScheduleProvision, <1>PostVm, <1>CreateVmFails, <1>CreateVmAnswers,
     <1>Attach, <1>Claim, <1>SweepProvision, <1>CleanDelete, <1>CleanConfirmed,
     <1>CleanFails, <1>CleanWrite, <1>Restart, <1>SweepReset, <1>ResetDeferred,
     <1>ResetDelete, <1>ResetConfirmed, <1>ResetFails, <1>ResetWrite, <1>Stop,
     <1>StopVmAnswers, <1>StopVmFails, <1>StopWrite, <1>MarkVmMissing,
     <1>Start, <1>StartRead, <1>StartVmAnswers, <1>StartVmFails, <1>StartWrite,
     <1>RebuildMissingVm, <1>Crash, <1>ExpireCreating, <1>Enroll,
     <1>LabsCreates, <1>LabsRefuses, <1>LabsDeletes, <1>GuestPowersOff,
     <1>HostLosesVm, <1>unchanged
  DEF Next, Step, CreateSteps, ProvisionSteps, CleanupSteps, ResetSteps,
      StopSteps, StartSteps, Labs

\* A row keeps its id and its machine from the time it has one, and a row
\* given up stays so; another row has an id never used before.
RowMovesOn ==
    /\ nextRow <= nextRow'
    /\ \/ workspace'.row = 0 \/ workspace'.row >= nextRow
       \/ /\ workspace'.row = workspace.row
          /\ workspace.status = "RESETTING" => workspace'.status = "RESETTING"
          /\ workspace.status \in {"RUNNING", "STOPPED", "RESETTING"} =>
                /\ workspace'.status \in {"RUNNING", "STOPPED", "RESETTING"}
                /\ workspace'.lab = workspace.lab

LEMMA NextRowIsInt == ASSUME TypeOK PROVE nextRow \in Int /\ nextRow > 0
  BY BoundsAssumption DEF TypeOK

LEMMA RowStands == ASSUME TypeOK, UNCHANGED rowVars PROVE RowMovesOn
  BY NextRowIsInt DEF RowMovesOn, rowVars

LEMMA RowStep ==
  ASSUME TypeOK, HeldOK, HeldRowsAgree, [Next]_vars PROVE RowMovesOn
<1>Create. ASSUME NEW p \in Procs, Create(p) PROVE RowMovesOn
  BY <1>Create, RowStands DEF Create
<1>CreateRetry. ASSUME NEW p \in Procs, CreateRetry(p) PROVE RowMovesOn
  <2>1. Reprovisioned(p, "ERROR") \/ UNCHANGED workspace
    BY <1>CreateRetry, ReprovisionEffect DEF CreateRetry, Statuses
  <2> QED
    BY <1>CreateRetry, <2>1, RowStands, NextRowIsInt
    DEF CreateRetry, Reprovisioned, RowMovesOn, rowVars
<1>CreateInsert. ASSUME NEW p \in Procs, CreateInsert(p) PROVE RowMovesOn
  <2>1. workspace'.row = nextRow /\ nextRow' = nextRow + 1
    BY <1>CreateInsert DEF CreateInsert, NoRow
  <2> QED
    BY <2>1, NextRowIsInt DEF RowMovesOn
<1>ScheduleRefused. ASSUME NEW p \in Procs, ScheduleRefused(p) PROVE RowMovesOn
  BY <1>ScheduleRefused, RowEdit, NextRowIsInt
  DEF ScheduleRefused, StillThisProvision, Still, RowMovesOn, TypeOK, Rows, NoRow
<1>ScheduleProvision. ASSUME NEW p \in Procs, ScheduleProvision(p) PROVE RowMovesOn
  BY <1>ScheduleProvision, RowStands DEF ScheduleProvision
<1>PostVm. ASSUME NEW p \in Procs, PostVm(p) PROVE RowMovesOn
  BY <1>PostVm, RowStands DEF PostVm
<1>CreateVmFails. ASSUME NEW p \in Procs, CreateVmFails(p) PROVE RowMovesOn
  BY <1>CreateVmFails, RowEdit, NextRowIsInt
  DEF CreateVmFails, StillThisProvision, Still, RowMovesOn, TypeOK, Rows, NoRow
<1>CreateVmAnswers. ASSUME NEW p \in Procs, CreateVmAnswers(p) PROVE RowMovesOn
  BY <1>CreateVmAnswers, RowStands DEF CreateVmAnswers
<1>Attach. ASSUME NEW p \in Procs, Attach(p) PROVE RowMovesOn
  <2>1. Wins(p) \/ UNCHANGED workspace
    BY <1>Attach, AttachEffect
  <2> QED
    BY <1>Attach, <2>1, NextRowIsInt
    DEF Attach, Wins, StillThisProvision, Still, RowMovesOn
<1>Claim. ASSUME NEW p \in Procs, Claim(p) PROVE RowMovesOn
  BY <1>Claim, RowStands DEF Claim
<1>SweepProvision. ASSUME NEW p \in Procs, NEW l \in LabIds, SweepProvision(p, l)
      PROVE RowMovesOn
  BY <1>SweepProvision, RowStands DEF SweepProvision
<1>CleanDelete. ASSUME NEW p \in Procs, CleanDelete(p) PROVE RowMovesOn
  BY <1>CleanDelete, RowStands DEF CleanDelete
<1>CleanConfirmed. ASSUME NEW p \in Procs, CleanConfirmed(p) PROVE RowMovesOn
  BY <1>CleanConfirmed, RowStands DEF CleanConfirmed
<1>CleanFails. ASSUME NEW p \in Procs, CleanFails(p) PROVE RowMovesOn
  BY <1>CleanFails, RowStands DEF CleanFails
<1>CleanWrite. ASSUME NEW p \in Procs, CleanWrite(p) PROVE RowMovesOn
  BY <1>CleanWrite, RowStands DEF CleanWrite
<1>Restart. ASSUME NEW p \in Procs, Restart(p) PROVE RowMovesOn
  BY <1>Restart, RowEdit, NextRowIsInt
  DEF Restart, RowMovesOn, TypeOK, Rows, NoRow
<1>SweepReset. ASSUME NEW p \in Procs, SweepReset(p) PROVE RowMovesOn
  BY <1>SweepReset, RowStands DEF SweepReset
<1>ResetDeferred. ASSUME NEW p \in Procs, ResetDeferred(p) PROVE RowMovesOn
  BY <1>ResetDeferred, RowStands DEF ResetDeferred
<1>ResetDelete. ASSUME NEW p \in Procs, ResetDelete(p) PROVE RowMovesOn
  BY <1>ResetDelete, RowStands DEF ResetDelete
<1>ResetConfirmed. ASSUME NEW p \in Procs, ResetConfirmed(p) PROVE RowMovesOn
  BY <1>ResetConfirmed, RowStands DEF ResetConfirmed
<1>ResetFails. ASSUME NEW p \in Procs, ResetFails(p) PROVE RowMovesOn
  BY <1>ResetFails, RowStands DEF ResetFails
<1>ResetWrite. ASSUME NEW p \in Procs, ResetWrite(p) PROVE RowMovesOn
  <2>1. workspace'.row = 0 \/ UNCHANGED workspace
    BY <1>ResetWrite, NoRowValues DEF ResetWrite
  <2> QED
    BY <1>ResetWrite, <2>1, NextRowIsInt DEF ResetWrite, RowMovesOn
<1>Stop. ASSUME NEW p \in Procs, Stop(p) PROVE RowMovesOn
  BY <1>Stop, RowStands DEF Stop
<1>StopVmAnswers. ASSUME NEW p \in Procs, StopVmAnswers(p) PROVE RowMovesOn
  BY <1>StopVmAnswers, RowStands DEF StopVmAnswers
<1>StopVmFails. ASSUME NEW p \in Procs, StopVmFails(p) PROVE RowMovesOn
  BY <1>StopVmFails, RowStands DEF StopVmFails
<1>StopWrite. ASSUME NEW p \in Procs, StopWrite(p) PROVE RowMovesOn
  BY <1>StopWrite, RowEdit, NextRowIsInt
  DEF StopWrite, Still, RowMovesOn, TypeOK, Rows, NoRow
<1>MarkVmMissing. ASSUME NEW p \in Procs, MarkVmMissing(p) PROVE RowMovesOn
  <2>1. UNCHANGED rowVars
    BY <1>MarkVmMissing
    DEF MarkVmMissing, Still, At, HeldRowsAgree, HeldRowAgrees, rowVars
  <2> QED
    BY <2>1, RowStands
<1>Start. ASSUME NEW p \in Procs, Start(p) PROVE RowMovesOn
  BY <1>Start, RowStands DEF Start
<1>StartRead. ASSUME NEW p \in Procs, StartRead(p) PROVE RowMovesOn
  BY <1>StartRead, RowStands DEF StartRead
<1>StartVmAnswers. ASSUME NEW p \in Procs, StartVmAnswers(p) PROVE RowMovesOn
  BY <1>StartVmAnswers, RowStands DEF StartVmAnswers
<1>StartVmFails. ASSUME NEW p \in Procs, StartVmFails(p) PROVE RowMovesOn
  BY <1>StartVmFails, RowStands DEF StartVmFails
<1>StartWrite. ASSUME NEW p \in Procs, StartWrite(p) PROVE RowMovesOn
  BY <1>StartWrite, RowEdit, NextRowIsInt
  DEF StartWrite, Still, RowMovesOn, TypeOK, Rows, NoRow
<1>RebuildMissingVm. ASSUME NEW p \in Procs, RebuildMissingVm(p) PROVE RowMovesOn
  <2>1. Reprovisioned(p, "STOPPED") \/ UNCHANGED workspace
    BY <1>RebuildMissingVm, ReprovisionEffect DEF RebuildMissingVm, Statuses
  <2>2. workspace.row = job[p].row => workspace.status = "RESETTING"
    BY <1>RebuildMissingVm DEF RebuildMissingVm, At, HeldRowsAgree, HeldRowAgrees
  <2>3. UNCHANGED rowVars
    BY <1>RebuildMissingVm, <2>1, <2>2 DEF RebuildMissingVm, Reprovisioned, rowVars
  <2> QED
    BY <2>3, RowStands
<1>Crash. ASSUME NEW p \in Procs, Crash(p) PROVE RowMovesOn
  BY <1>Crash, RowStands DEF Crash
<1>ExpireCreating. CASE ExpireCreating
  BY <1>ExpireCreating, RowEdit, NextRowIsInt
  DEF ExpireCreating, RowMovesOn, TypeOK, Rows, NoRow
<1>Enroll. CASE Enroll
  BY <1>Enroll, RowStands DEF Enroll
<1>LabsCreates. ASSUME NEW l \in LabIds, LabsCreates(l) PROVE RowMovesOn
  BY <1>LabsCreates, RowStands DEF LabsCreates
<1>LabsRefuses. ASSUME NEW l \in LabIds, LabsRefuses(l) PROVE RowMovesOn
  BY <1>LabsRefuses, RowStands DEF LabsRefuses
<1>LabsDeletes. ASSUME NEW l \in LabIds, LabsDeletes(l) PROVE RowMovesOn
  BY <1>LabsDeletes, RowStands DEF LabsDeletes
<1>GuestPowersOff. ASSUME NEW l \in LabIds, GuestPowersOff(l) PROVE RowMovesOn
  BY <1>GuestPowersOff, RowStands DEF GuestPowersOff
<1>HostLosesVm. ASSUME NEW l \in LabIds, HostLosesVm(l) PROVE RowMovesOn
  BY <1>HostLosesVm, RowStands DEF HostLosesVm
<1>unchanged. CASE UNCHANGED vars
  BY <1>unchanged, RowStands DEF vars, rowVars
<1> QED
  BY <1>Create, <1>CreateRetry, <1>CreateInsert, <1>ScheduleRefused,
     <1>ScheduleProvision, <1>PostVm, <1>CreateVmFails, <1>CreateVmAnswers,
     <1>Attach, <1>Claim, <1>SweepProvision, <1>CleanDelete, <1>CleanConfirmed,
     <1>CleanFails, <1>CleanWrite, <1>Restart, <1>SweepReset, <1>ResetDeferred,
     <1>ResetDelete, <1>ResetConfirmed, <1>ResetFails, <1>ResetWrite, <1>Stop,
     <1>StopVmAnswers, <1>StopVmFails, <1>StopWrite, <1>MarkVmMissing,
     <1>Start, <1>StartRead, <1>StartVmAnswers, <1>StartVmFails, <1>StartWrite,
     <1>RebuildMissingVm, <1>Crash, <1>ExpireCreating, <1>Enroll,
     <1>LabsCreates, <1>LabsRefuses, <1>LabsDeletes, <1>GuestPowersOff,
     <1>HostLosesVm, <1>unchanged
  DEF Next, Step, CreateSteps, ProvisionSteps, CleanupSteps, ResetSteps,
      StopSteps, StartSteps, Labs

-----------------------------------------------------------------------------
(* The requests to Labs are accounted for *)

\* Nobody but its creator touches a request that was not sent yet.
Unsent(l) ==
    post[l] = "none" =>
        /\ post'[l] = "none"
        /\ Reserved(l) /\ ~provision[l].settled => Reserved(l)' /\ ~provision'[l].settled

LEMMA CallStays ==
  ASSUME TypeOK, HeldOK, OneCreatorEach, MachinesMove, NEW q \in Procs, CallAgrees(q),
         pc'[q] = pc[q], job'[q] = job[q],
         \A l \in LabIds : Unsent(l) \/ \E p \in Procs \ {q} : Creator(p) /\ Target(p) = l
  PROVE  CallAgrees(q)'
<1>1. ASSUME At(q, "schedule") PROVE post'[Target(q)] = "none"
  <2>1. Creator(q) /\ Target(q) \in LabIds /\ post[Target(q)] = "none"
    BY <1>1, CreatorTarget DEF At, Creator, CallAgrees
  <2>2. Unsent(Target(q))
    BY <2>1 DEF OneCreatorEach
  <2> QED
    BY <2>1, <2>2 DEF Unsent
<1>2. ASSUME At(q, "post")
      PROVE  post'[job[q].lab] = "none" /\ Reserved(job[q].lab)'
             /\ ~provision'[job[q].lab].settled
  <2>1. Creator(q) /\ Target(q) \in LabIds /\ job[q].lab = Target(q)
    BY <1>2, CreatorTarget DEF At, Creator, OneCreatorEach
  <2>2. Unsent(job[q].lab)
    BY <2>1 DEF OneCreatorEach
  <2> QED
    BY <1>2, <2>2 DEF Unsent, CallAgrees
<1>3. pc[q] \in {"attach", "cleanCheck", "cleanWrite"} => job[q].lab \in LabIds
  BY DEF HeldOK
<1>4. Target(q)' = Target(q) /\ \A la : At(q, la)' = At(q, la)
  BY DEF Target, LabOf, At
<1>5. Reserved(job[q].lab)' <=> provision'[job[q].lab].status # "NONE"
  BY DEF Reserved
<1>6. At(q, "attach")' => post'[job'[q].lab] = "created"
  BY <1>3, <1>4 DEF CallAgrees, MachinesMove, At
<1>7. pc'[q] \in {"cleanCheck", "cleanWrite"} /\ job'[q].settled =>
          post'[job'[q].lab] = "created"
  BY <1>3, <1>4 DEF CallAgrees, MachinesMove, At
<1>8. At(q, "cleanWrite")' /\ job'[q].settled => ~Exists(job[q].lab)'
  BY <1>3, <1>4 DEF CallAgrees, MachinesMove, At
<1> QED
  BY <1>1, <1>2, <1>4, <1>6, <1>7, <1>8 DEF CallAgrees, Exists, Reserved

\* No creation becomes welcome.
CreationStays ==
    /\ workspace'.status = "CREATING" =>
          /\ workspace.status = "CREATING" /\ workspace'.row = workspace.row
          /\ workspace'.generation = workspace.generation
    /\ \A l \in LabIds : provision'[l].status = "PENDING" =>
          provision[l].status = "PENDING"
    /\ \A q \in Procs : pc'[q] = "schedule" => pc[q] = "schedule" /\ job'[q] = job[q]

LEMMA AttachableStays ==
  ASSUME CreationStays PROVE \A l \in LabIds : Attachable(l)' => Attachable(l)
  BY DEF CreationStays, Attachable, Welcome, LabOf, Target, At

\* A step that leaves the requests, the machines and the records alone.
LEMMA PostsFrame ==
  ASSUME TypeOK, HeldOK, OneCreatorEach, PostsAgree, UNCHANGED <<post, provision>>,
         \A l \in LabIds : Exists(l)' <=> Exists(l), CreationStays,
         \A q \in Procs :
            \/ pc'[q] = pc[q] /\ job'[q] = job[q]
            \/ pc'[q] \notin {"schedule", "post", "attach", "cleanCheck", "cleanWrite"}
  PROVE  PostsAgree'
<1>1. MachinesMove
  BY DEF MachinesMove
<1>2. \A l \in LabIds : Unsent(l)
  BY DEF Unsent, Reserved
<1>3. \A l \in LabIds : PostIsAccountedFor(l)'
  BY AttachableStays DEF PostsAgree, PostIsAccountedFor, Reserved
<1>4. ASSUME NEW q \in Procs PROVE CallAgrees(q)'
  <2>1. CASE pc'[q] = pc[q] /\ job'[q] = job[q]
    BY <1>1, <1>2, <2>1, CallStays DEF PostsAgree
  <2>2. CASE pc'[q] \notin {"schedule", "post", "attach", "cleanCheck", "cleanWrite"}
    BY <2>2 DEF CallAgrees, At
  <2> QED
    BY <2>1, <2>2
<1> QED
  BY <1>3, <1>4 DEF PostsAgree

\* A step of p: the others' calls stay as they are.
LEMMA PostsOfStep ==
  ASSUME TypeOK, HeldOK, OneCreatorEach, PostsAgree, MachinesMove, NEW p \in Procs,
         \A q \in Procs \ {p} : pc'[q] = pc[q] /\ job'[q] = job[q],
         \A l \in LabIds : Unsent(l) \/ (Creator(p) /\ Target(p) = l),
         \A l \in LabIds : PostIsAccountedFor(l)',
         CallAgrees(p)'
  PROVE  PostsAgree'
<1>1. ASSUME NEW q \in Procs \ {p} PROVE CallAgrees(q)'
  <2>1. \A l \in LabIds : Unsent(l) \/ \E r \in Procs \ {q} : Creator(r) /\ Target(r) = l
    OBVIOUS
  <2> QED
    BY <2>1, CallStays DEF PostsAgree
<1> QED
  BY <1>1 DEF PostsAgree

\* A creation that starts asks for a machine nobody asked for before.
LEMMA PostsOfNewRow ==
  ASSUME TypeOK, HeldOK, NothingUnissued, OneCreatorEach, PostsAgree, NEW p \in Procs,
         NEW t \in LabIds, ~Issued(t), pc'[p] = "schedule", Target(p)' = t,
         \A q \in Procs \ {p} : pc'[q] = pc[q] /\ job'[q] = job[q],
         LabOf(workspace'.row, workspace'.generation) = t,
         UNCHANGED <<provision, post, vm>>
  PROVE  PostsAgree'
<1>1. post[t] = "none"
  BY DEF NothingUnissued
<1>2. MachinesMove /\ \A l \in LabIds : Unsent(l)
  BY DEF MachinesMove, Unsent, Exists, Reserved
<1>3. \A l : Attachable(l)' => l = t
  BY DEF Attachable, Welcome
<1>4. \A l \in LabIds : PostIsAccountedFor(l)'
  BY <1>1, <1>3 DEF PostsAgree, PostIsAccountedFor, Reserved, Exists
<1>5. CallAgrees(p)'
  BY <1>1 DEF CallAgrees, At
<1> QED
  BY <1>2, <1>4, <1>5, PostsOfStep

LEMMA PostsOfReprovision ==
  ASSUME TypeOK, HeldOK, NothingUnissued, OneCreatorEach, PostsAgree, NEW p \in Procs,
         NEW st, Reprovisioned(p, st), UNCHANGED <<provision, post, vm>>
  PROVE  PostsAgree'
<1> DEFINE t == LabOf(workspace.row, workspace.generation + 1)
<1>1. t \in LabIds
  BY LabTypes DEF Reprovisioned, Rows
<1>2. ~Issued(t)
  BY BoundsAssumption DEF Reprovisioned, Issued, LabOf, Rows, Provisions
<1>3. Target(p)' = t /\ LabOf(workspace'.row, workspace'.generation) = t
  BY DEF Reprovisioned, Target
<1> HIDE DEF t
<1> QED
  BY <1>1, <1>2, <1>3, PostsOfNewRow DEF Reprovisioned

\* A step of Labs.
LEMMA PostsOfLabs ==
  ASSUME TypeOK, HeldOK, OneCreatorEach, PostsAgree, MachinesMove, UNCHANGED procVars,
         \A l \in LabIds : Unsent(l), \A l \in LabIds : PostIsAccountedFor(l)'
  PROVE  PostsAgree'
<1>1. ASSUME NEW q \in Procs PROVE CallAgrees(q)'
  <2>1. pc'[q] = pc[q] /\ job'[q] = job[q]
    BY DEF procVars
  <2> QED
    BY <2>1, CallStays DEF PostsAgree
<1> QED
  BY <1>1 DEF PostsAgree

LEMMA PostsOfClaim ==
  ASSUME TypeOK, HeldOK, OneCreatorEach, PostsAgree, MachinesMove, NEW p \in Procs,
         NEW t \in LabIds, Reserved(t), provision' = Claimed(t), pc'[p] = "cleanDelete",
         \A q \in Procs \ {p} : pc'[q] = pc[q] /\ job'[q] = job[q],
         UNCHANGED <<workspace, post, vm>>
  PROVE  PostsAgree'
<1>1. /\ provision'[t].status = "CLEANUP" /\ provision'[t].settled = provision[t].settled
      /\ \A l \in LabIds \ {t} : provision'[l] = provision[l]
  BY ClaimedEffect
<1>2. \A l \in LabIds : Unsent(l)
  BY <1>1 DEF Unsent, Reserved
<1>3. CreationStays
  BY <1>1 DEF CreationStays
<1>4. \A l \in LabIds : PostIsAccountedFor(l)'
  BY <1>1, <1>3, AttachableStays DEF PostsAgree, PostIsAccountedFor, Reserved, Exists
<1>5. CallAgrees(p)'
  BY DEF CallAgrees, At
<1> QED
  BY <1>2, <1>4, <1>5, PostsOfStep

LEMMA PostsStep ==
  ASSUME ~HostMayLoseVms, TypeOK, HeldOK, NothingUnissued, OneCreatorEach,
         AttachedIsExclusive, PostsAgree, [Next]_vars
  PROVE  PostsAgree'
<1>moves. MachinesMove
  BY MachineStep
<1> USE DEF At
<1>Create. ASSUME NEW p \in Procs, Create(p) PROVE PostsAgree'
  BY <1>Create, RowEdit, PostsFrame
  DEF Create, CreationStays, Exists, Goto, Hold, Done, Become, TypeOK,
      rowVars, labsVars, procVars
<1>CreateRetry. ASSUME NEW p \in Procs, CreateRetry(p) PROVE PostsAgree'
  <2>1. Reprovisioned(p, "ERROR") \/ (UNCHANGED workspace /\ Done(p))
    BY <1>CreateRetry, ReprovisionEffect DEF CreateRetry, Statuses
  <2>2. UNCHANGED <<provision, post, vm>>
    BY <1>CreateRetry DEF CreateRetry, labsVars
  <2>3. CASE Reprovisioned(p, "ERROR")
    BY <2>2, <2>3, PostsOfReprovision
  <2>4. CASE UNCHANGED workspace /\ Done(p)
    BY <2>2, <2>4, ProcEffect, PostsFrame DEF CreationStays, Exists
  <2> QED
    BY <2>1, <2>3, <2>4
<1>CreateInsert. ASSUME NEW p \in Procs, CreateInsert(p) PROVE PostsAgree'
  <2> DEFINE t == LabOf(nextRow, 0)
  <2>1. t \in LabIds /\ ~Issued(t)
    BY <1>CreateInsert, LabTypes, Successors, Zeros, NextRowIsInt
    DEF CreateInsert, Issued, LabOf, TypeOK
  <2>2. workspace'.row = nextRow /\ workspace'.generation = 0
    BY <1>CreateInsert DEF CreateInsert, NoRow
  <2>3. pc'[p] = "schedule" /\ job'[p].row = nextRow /\ job'[p].generation = 0
        /\ \A q \in Procs \ {p} : pc'[q] = pc[q] /\ job'[q] = job[q]
    BY <1>CreateInsert DEF CreateInsert, Goto, Hold, TypeOK, Jobs
  <2>4. UNCHANGED <<provision, post, vm>> /\ Target(p)' = t
    BY <1>CreateInsert, <2>3 DEF CreateInsert, labsVars, Target
  <2>5. LabOf(workspace'.row, workspace'.generation) = t
    BY <2>2
  <2> HIDE DEF t
  <2> QED
    BY <2>1, <2>3, <2>4, <2>5, PostsOfNewRow
<1>ScheduleRefused. ASSUME NEW p \in Procs, ScheduleRefused(p) PROVE PostsAgree'
  BY <1>ScheduleRefused, RowEdit, PostsFrame
  DEF ScheduleRefused, StillThisProvision, Still, CreationStays, Exists, Goto, Hold,
      Done, Become, TypeOK,
      rowVars, labsVars, procVars
<1>ScheduleProvision. ASSUME NEW p \in Procs, ScheduleProvision(p) PROVE PostsAgree'
  <2>1. Scheduled(p) \/ (UNCHANGED provision /\ Done(p))
    BY <1>ScheduleProvision, ScheduleEffect
  <2>2. At(p, "schedule") /\ Creator(p) /\ UNCHANGED <<workspace, post, vm>>
    BY <1>ScheduleProvision DEF ScheduleProvision, Creator, labsVars, rowVars
  <2>3. CASE Scheduled(p)
    <3> DEFINE t == Target(p)
    <3>1. post[t] = "none" /\ t \in LabIds
      BY <2>2, <2>3 DEF PostsAgree, CallAgrees, Scheduled
    <3>2. \A l \in LabIds \ {t} : provision'[l] = provision[l]
      BY <2>3 DEF Scheduled
    <3>3. \A l \in LabIds : Unsent(l) \/ (Creator(p) /\ Target(p) = l)
      BY <2>2, <3>2 DEF Unsent, Reserved
    <3>4. \A l \in LabIds : Attachable(l)' => Attachable(l)
      <4>1. \A q \in Procs : pc'[q] = "schedule" => pc[q] = "schedule" /\ job'[q] = job[q]
        BY <2>3 DEF Scheduled
      <4>2. Attachable(t) \/ ~Welcome(t)
        BY <2>2 DEF Attachable
      <4> QED
        BY <2>2, <3>2, <4>1, <4>2 DEF Attachable, Welcome, LabOf, Target
    <3>5. \A l \in LabIds : PostIsAccountedFor(l)'
      <4>1. \A l \in LabIds : l = t => PostIsAccountedFor(l)'
        BY <2>2, <2>3, <3>1 DEF PostsAgree, PostIsAccountedFor, Exists, Scheduled
      <4> QED
        BY <2>2, <3>2, <3>4, <4>1 DEF PostsAgree, PostIsAccountedFor, Reserved, Exists
    <3>6. CallAgrees(p)'
      BY <2>2, <2>3, <3>1 DEF CallAgrees, Scheduled, Reserved
    <3> QED
      BY <1>moves, <2>3, <3>3, <3>5, <3>6, PostsOfStep DEF Scheduled
  <2>4. CASE UNCHANGED provision /\ Done(p)
    BY <2>2, <2>4, ProcEffect, PostsFrame DEF CreationStays, Exists
  <2> QED
    BY <2>1, <2>3, <2>4
<1>PostVm. ASSUME NEW p \in Procs, PostVm(p) PROVE PostsAgree'
  <2> DEFINE t == job[p].lab
  <2>1. /\ t \in LabIds /\ Creator(p) /\ Target(p) = t
        /\ post[t] = "none" /\ Reserved(t) /\ ~provision[t].settled /\ ~Exists(t)
    BY <1>PostVm
    DEF PostVm, HeldOK, Creator, OneCreatorEach, PostsAgree, CallAgrees,
        PostIsAccountedFor
  <2>2. /\ post'[t] = "inflight" /\ \A l \in LabIds \ {t} : post'[l] = post[l]
        /\ UNCHANGED <<workspace, provision, vm>> /\ Become(p, "posted")
    BY <1>PostVm, <2>1 DEF PostVm, TypeOK, rowVars
  <2>3. pc'[p] = "posted" /\ job' = job /\ \A q \in Procs \ {p} : pc'[q] = pc[q]
    BY <2>2, ProcEffect DEF Labels
  <2>4. \A l \in LabIds : Unsent(l) \/ (Creator(p) /\ Target(p) = l)
    BY <2>1, <2>2 DEF Unsent, Reserved
  <2>5. \A l \in LabIds : PostIsAccountedFor(l)'
    BY <2>1, <2>2, <2>3, AttachableStays
    DEF PostsAgree, PostIsAccountedFor, Reserved, Exists, CreationStays
  <2>6. CallAgrees(p)'
    BY <2>3 DEF CallAgrees
  <2> HIDE DEF t
  <2> QED
    BY <1>moves, <2>3, <2>4, <2>5, <2>6, PostsOfStep
<1>CreateVmFails. ASSUME NEW p \in Procs, CreateVmFails(p) PROVE PostsAgree'
  BY <1>CreateVmFails, RowEdit, PostsFrame
  DEF CreateVmFails, StillThisProvision, Still, CreationStays, Exists, Goto, Hold,
      Done, Become, TypeOK,
      rowVars, labsVars, procVars
<1>CreateVmAnswers. ASSUME NEW p \in Procs, CreateVmAnswers(p) PROVE PostsAgree'
  <2> DEFINE t == job[p].lab
  <2>1. t \in LabIds /\ post[t] = "created"
    BY <1>CreateVmAnswers DEF CreateVmAnswers, HeldOK
  <2>2. /\ UNCHANGED <<workspace, post, vm>> /\ Become(p, "attach")
        /\ \A l \in LabIds \ {t} : provision'[l] = provision[l]
        /\ provision'[t].status = provision[t].status
    BY <1>CreateVmAnswers, <2>1
    DEF CreateVmAnswers, TypeOK, ProvisionRows, NoProvision, rowVars, labsVars
  <2>3. pc'[p] = "attach" /\ job' = job /\ \A q \in Procs \ {p} : pc'[q] = pc[q]
    BY <2>2, ProcEffect DEF Labels
  <2>4. \A l \in LabIds : Unsent(l)
    BY <2>1, <2>2 DEF Unsent, Reserved
  <2>5. \A l \in LabIds : PostIsAccountedFor(l)'
    BY <2>1, <2>2, <2>3, AttachableStays
    DEF PostsAgree, PostIsAccountedFor, Reserved, Exists, CreationStays
  <2>6. CallAgrees(p)'
    BY <2>1, <2>2, <2>3 DEF CallAgrees
  <2> HIDE DEF t
  <2> QED
    BY <1>moves, <2>3, <2>4, <2>5, <2>6, PostsOfStep
<1>Attach. ASSUME NEW p \in Procs, Attach(p) PROVE PostsAgree'
  <2> DEFINE t == job[p].lab
  <2>1. Wins(p) \/ (UNCHANGED <<workspace, provision>> /\ Become(p, "claim"))
    BY <1>Attach, AttachEffect
  <2>2. UNCHANGED <<post, vm>> /\ t \in LabIds /\ post[t] = "created"
    BY <1>Attach DEF Attach, labsVars, HeldOK, PostsAgree, CallAgrees
  <2>3. CASE Wins(p)
    <3>1. pc'[p] = "idle" /\ \A q \in Procs \ {p} : pc'[q] = pc[q] /\ job'[q] = job[q]
      BY <2>3, ProcEffect DEF Wins
    <3>2. \A l \in LabIds : Unsent(l)
      BY <2>2, <2>3 DEF Wins, Unsent, Reserved
    <3>3. \A l \in LabIds : PostIsAccountedFor(l)'
      BY <2>2, <2>3
      DEF Wins, PostsAgree, PostIsAccountedFor, Attachable, Welcome, Reserved, Exists,
          NoProvision
    <3>4. CallAgrees(p)'
      BY <3>1 DEF CallAgrees
    <3> QED
      BY <1>moves, <3>1, <3>2, <3>3, <3>4, PostsOfStep
  <2>4. CASE UNCHANGED <<workspace, provision>> /\ Become(p, "claim")
    BY <2>2, <2>4, ProcEffect, PostsFrame DEF CreationStays, Exists, Labels
  <2> QED
    BY <2>1, <2>3, <2>4
<1>Claim. ASSUME NEW p \in Procs, Claim(p) PROVE PostsAgree'
  <2> DEFINE t == job[p].lab
  <2>1. t \in LabIds
    BY <1>Claim DEF Claim, HeldOK
  <2>2. UNCHANGED <<workspace, post, vm>>
    BY <1>Claim DEF Claim, labsVars, rowVars
  <2>3. CASE Reserved(t) /\ provision' = Claimed(t) /\ Become(p, "cleanDelete")
    <3>1. pc'[p] = "cleanDelete" /\ job' = job /\ \A q \in Procs \ {p} : pc'[q] = pc[q]
      BY <2>3, ProcEffect DEF Labels
    <3> HIDE DEF t
    <3> QED
      BY <1>moves, <2>1, <2>2, <2>3, <3>1, PostsOfClaim
  <2>4. CASE UNCHANGED provision /\ Done(p)
    BY <2>2, <2>4, ProcEffect, PostsFrame DEF CreationStays, Exists
  <2> QED
    BY <1>Claim, <2>3, <2>4 DEF Claim
<1>SweepProvision. ASSUME NEW p \in Procs, NEW l \in LabIds, SweepProvision(p, l)
      PROVE PostsAgree'
  <2>1. /\ UNCHANGED <<workspace, post, vm>> /\ Reserved(l) /\ provision' = Claimed(l)
        /\ pc'[p] = "cleanDelete" /\ \A q \in Procs \ {p} : pc'[q] = pc[q] /\ job'[q] = job[q]
    BY <1>SweepProvision DEF SweepProvision, labsVars, rowVars, Goto, Hold, TypeOK
  <2> QED
    BY <1>moves, <2>1, PostsOfClaim
<1>CleanDelete. ASSUME NEW p \in Procs, CleanDelete(p) PROVE PostsAgree'
  <2> DEFINE t == job[p].lab
  <2>1. t \in LabIds /\ job[p] \in Jobs
    BY <1>CleanDelete DEF CleanDelete, HeldOK, TypeOK
  <2>2. /\ UNCHANGED <<workspace, provision, post, vm>>
        /\ pc'[p] = "cleanCheck" /\ job'[p].lab = t /\ job'[p].settled = provision[t].settled
        /\ \A q \in Procs \ {p} : pc'[q] = pc[q] /\ job'[q] = job[q]
    BY <1>CleanDelete, <2>1 DEF CleanDelete, Goto, Hold, TypeOK, Jobs, rowVars
  <2>3. \A l \in LabIds : Unsent(l) /\ PostIsAccountedFor(l)'
    BY <2>2, AttachableStays
    DEF Unsent, PostsAgree, PostIsAccountedFor, Reserved, Exists, CreationStays
  <2>4. CallAgrees(p)'
    BY <2>1, <2>2 DEF CallAgrees, PostsAgree, PostIsAccountedFor
  <2> HIDE DEF t
  <2> QED
    BY <1>moves, <2>2, <2>3, <2>4, PostsOfStep
<1>CleanConfirmed. ASSUME NEW p \in Procs, CleanConfirmed(p) PROVE PostsAgree'
  <2>1. /\ UNCHANGED <<workspace, provision, post, vm, job>> /\ ~Exists(job[p].lab)
        /\ pc[p] = "cleanCheck"
        /\ pc'[p] = "cleanWrite" /\ \A q \in Procs \ {p} : pc'[q] = pc[q]
    BY <1>CleanConfirmed DEF CleanConfirmed, Become, Goto, TypeOK, rowVars, labsVars
  <2>2. \A l \in LabIds : Unsent(l) /\ PostIsAccountedFor(l)'
    BY <2>1, AttachableStays
    DEF Unsent, PostsAgree, PostIsAccountedFor, Reserved, Exists, CreationStays
  <2>3. CallAgrees(p)'
    BY <2>1 DEF CallAgrees, PostsAgree, Exists
  <2> QED
    BY <1>moves, <2>1, <2>2, <2>3, PostsOfStep
<1>CleanFails. ASSUME NEW p \in Procs, CleanFails(p) PROVE PostsAgree'
  BY <1>CleanFails, RowEdit, PostsFrame
  DEF CleanFails, CreationStays, Exists, Goto, Hold, Done, Become, TypeOK,
      rowVars, labsVars, procVars
<1>CleanWrite. ASSUME NEW p \in Procs, CleanWrite(p) PROVE PostsAgree'
  <2> DEFINE t == job[p].lab
  <2>1. UNCHANGED <<workspace, post, vm>> /\ Done(p)
    BY <1>CleanWrite DEF CleanWrite, labsVars, rowVars
  <2>2. pc'[p] = "idle" /\ \A q \in Procs \ {p} : pc'[q] = pc[q] /\ job'[q] = job[q]
    BY <2>1, ProcEffect
  <2>3. CASE UNCHANGED provision
    BY <2>1, <2>2, <2>3, PostsFrame DEF CreationStays, Exists
  <2>4. CASE job[p].settled /\ provision' = [provision EXCEPT ![t] = NoProvision]
    <3>1. post[t] = "created" /\ t \in LabIds
      BY <1>CleanWrite, <2>4 DEF CleanWrite, PostsAgree, CallAgrees, HeldOK
    <3>2. provision'[t] = NoProvision /\ \A l \in LabIds \ {t} : provision'[l] = provision[l]
      BY <2>4, <3>1 DEF TypeOK
    <3>3. \A l \in LabIds : Unsent(l)
      BY <2>1, <3>1, <3>2 DEF Unsent, Reserved
    <3>4. CreationStays
      BY <2>1, <2>2, <3>2 DEF CreationStays, NoProvision
    <3>5. \A l \in LabIds : PostIsAccountedFor(l)'
      BY <2>1, <3>1, <3>2, <3>4, AttachableStays
      DEF PostsAgree, PostIsAccountedFor, Reserved, Exists, NoProvision
    <3>6. CallAgrees(p)'
      BY <2>2 DEF CallAgrees
    <3> HIDE DEF t
    <3> QED
      BY <1>moves, <2>2, <3>3, <3>5, <3>6, PostsOfStep
  <2> QED
    BY <1>CleanWrite, <2>3, <2>4 DEF CleanWrite
<1>Restart. ASSUME NEW p \in Procs, Restart(p) PROVE PostsAgree'
  BY <1>Restart, RowEdit, PostsFrame
  DEF Restart, CreationStays, Exists, Goto, Hold, Done, Become, TypeOK,
      rowVars, labsVars, procVars
<1>SweepReset. ASSUME NEW p \in Procs, SweepReset(p) PROVE PostsAgree'
  BY <1>SweepReset, RowEdit, PostsFrame
  DEF SweepReset, CreationStays, Exists, Goto, Hold, Done, Become, TypeOK,
      rowVars, labsVars, procVars
<1>ResetDeferred. ASSUME NEW p \in Procs, ResetDeferred(p) PROVE PostsAgree'
  BY <1>ResetDeferred, RowEdit, PostsFrame
  DEF ResetDeferred, CreationStays, Exists, Goto, Hold, Done, Become, TypeOK,
      rowVars, labsVars, procVars
<1>ResetDelete. ASSUME NEW p \in Procs, ResetDelete(p) PROVE PostsAgree'
  BY <1>ResetDelete, RowEdit, PostsFrame
  DEF ResetDelete, CreationStays, Exists, Goto, Hold, Done, Become, TypeOK,
      rowVars, labsVars, procVars
<1>ResetConfirmed. ASSUME NEW p \in Procs, ResetConfirmed(p) PROVE PostsAgree'
  BY <1>ResetConfirmed, RowEdit, PostsFrame
  DEF ResetConfirmed, CreationStays, Exists, Goto, Hold, Done, Become, TypeOK,
      rowVars, labsVars, procVars
<1>ResetFails. ASSUME NEW p \in Procs, ResetFails(p) PROVE PostsAgree'
  BY <1>ResetFails, RowEdit, PostsFrame
  DEF ResetFails, CreationStays, Exists, Goto, Hold, Done, Become, TypeOK,
      rowVars, labsVars, procVars
<1>ResetWrite. ASSUME NEW p \in Procs, ResetWrite(p) PROVE PostsAgree'
  BY <1>ResetWrite, NoRowValues, PostsFrame
  DEF ResetWrite, Still, CreationStays, Exists, Goto, Hold, Done, TypeOK, labsVars
<1>Stop. ASSUME NEW p \in Procs, Stop(p) PROVE PostsAgree'
  BY <1>Stop, RowEdit, PostsFrame
  DEF Stop, HoldRow, CreationStays, Exists, Goto, Hold, Done, Become, TypeOK,
      rowVars, labsVars, procVars
<1>StopVmAnswers. ASSUME NEW p \in Procs, StopVmAnswers(p) PROVE PostsAgree'
  <2>1. UNCHANGED <<workspace, provision, post>> /\ \A l \in LabIds : Exists(l)' <=> Exists(l)
    BY <1>StopVmAnswers DEF StopVmAnswers, rowVars, Exists, TypeOK
  <2>2. /\ pc'[p] = "stopWrite"
        /\ \A q \in Procs \ {p} : pc'[q] = pc[q] /\ job'[q] = job[q]
    BY <1>StopVmAnswers DEF StopVmAnswers, Done, Become, Goto, Hold, TypeOK
  <2> QED
    BY <2>1, <2>2, PostsFrame DEF CreationStays
<1>StopVmFails. ASSUME NEW p \in Procs, StopVmFails(p) PROVE PostsAgree'
  <2>1. UNCHANGED <<workspace, provision, post>> /\ \A l \in LabIds : Exists(l)' <=> Exists(l)
    BY <1>StopVmFails DEF StopVmFails, rowVars, Exists, TypeOK
  <2>2. /\ pc'[p] \in {"stopMissing", "stopWrite", "idle"}
        /\ \A q \in Procs \ {p} : pc'[q] = pc[q] /\ job'[q] = job[q]
    BY <1>StopVmFails DEF StopVmFails, Done, Become, Goto, Hold, TypeOK
  <2> QED
    BY <2>1, <2>2, PostsFrame DEF CreationStays
<1>StopWrite. ASSUME NEW p \in Procs, StopWrite(p) PROVE PostsAgree'
  BY <1>StopWrite, RowEdit, PostsFrame
  DEF StopWrite, Still, CreationStays, Exists, Goto, Hold, Done, Become, TypeOK,
      rowVars, labsVars, procVars
<1>MarkVmMissing. ASSUME NEW p \in Procs, MarkVmMissing(p) PROVE PostsAgree'
  BY <1>MarkVmMissing, RowEdit, PostsFrame
  DEF MarkVmMissing, Still, CreationStays, Exists, Goto, Hold, Done, Become, TypeOK,
      rowVars, labsVars, procVars
<1>Start. ASSUME NEW p \in Procs, Start(p) PROVE PostsAgree'
  BY <1>Start, RowEdit, PostsFrame
  DEF Start, CreationStays, Exists, Goto, Hold, Done, Become, TypeOK,
      rowVars, labsVars, procVars
<1>StartRead. ASSUME NEW p \in Procs, StartRead(p) PROVE PostsAgree'
  BY <1>StartRead, RowEdit, PostsFrame
  DEF StartRead, HoldRow, CreationStays, Exists, Goto, Hold, Done, Become, TypeOK,
      rowVars, labsVars, procVars
<1>StartVmAnswers. ASSUME NEW p \in Procs, StartVmAnswers(p) PROVE PostsAgree'
  <2>1. UNCHANGED <<workspace, provision, post>> /\ \A l \in LabIds : Exists(l)' <=> Exists(l)
    BY <1>StartVmAnswers DEF StartVmAnswers, rowVars, Exists, TypeOK
  <2>2. /\ pc'[p] = "startWrite"
        /\ \A q \in Procs \ {p} : pc'[q] = pc[q] /\ job'[q] = job[q]
    BY <1>StartVmAnswers DEF StartVmAnswers, Done, Become, Goto, Hold, TypeOK
  <2> QED
    BY <2>1, <2>2, PostsFrame DEF CreationStays
<1>StartVmFails. ASSUME NEW p \in Procs, StartVmFails(p) PROVE PostsAgree'
  <2>1. UNCHANGED <<workspace, provision, post>> /\ \A l \in LabIds : Exists(l)' <=> Exists(l)
    BY <1>StartVmFails DEF StartVmFails, rowVars, Exists, TypeOK
  <2>2. /\ pc'[p] \in {"rebuild", "idle"}
        /\ \A q \in Procs \ {p} : pc'[q] = pc[q] /\ job'[q] = job[q]
    BY <1>StartVmFails DEF StartVmFails, Done, Become, Goto, Hold, TypeOK
  <2> QED
    BY <2>1, <2>2, PostsFrame DEF CreationStays
<1>StartWrite. ASSUME NEW p \in Procs, StartWrite(p) PROVE PostsAgree'
  BY <1>StartWrite, RowEdit, PostsFrame
  DEF StartWrite, Still, CreationStays, Exists, Goto, Hold, Done, Become, TypeOK,
      rowVars, labsVars, procVars
<1>RebuildMissingVm. ASSUME NEW p \in Procs, RebuildMissingVm(p) PROVE PostsAgree'
  <2>1. Reprovisioned(p, "STOPPED") \/ (UNCHANGED workspace /\ Done(p))
    BY <1>RebuildMissingVm, ReprovisionEffect DEF RebuildMissingVm, Statuses
  <2>2. UNCHANGED <<provision, post, vm>>
    BY <1>RebuildMissingVm DEF RebuildMissingVm, labsVars
  <2>3. CASE Reprovisioned(p, "STOPPED")
    BY <2>2, <2>3, PostsOfReprovision
  <2>4. CASE UNCHANGED workspace /\ Done(p)
    BY <2>2, <2>4, ProcEffect, PostsFrame DEF CreationStays, Exists
  <2> QED
    BY <2>1, <2>3, <2>4
<1>Crash. ASSUME NEW p \in Procs, Crash(p) PROVE PostsAgree'
  BY <1>Crash, RowEdit, PostsFrame
  DEF Crash, CreationStays, Exists, Goto, Hold, Done, Become, TypeOK,
      rowVars, labsVars, procVars
<1>ExpireCreating. CASE ExpireCreating
  BY <1>ExpireCreating, RowEdit, PostsFrame
  DEF ExpireCreating, CreationStays, Exists, Goto, Hold, Done, Become, TypeOK,
      rowVars, labsVars, procVars
<1>Enroll. CASE Enroll
  BY <1>Enroll, RowEdit, PostsFrame
  DEF Enroll, CreationStays, Exists, Goto, Hold, Done, Become, TypeOK,
      rowVars, labsVars, procVars
<1>LabsCreates. ASSUME NEW l \in LabIds, LabsCreates(l) PROVE PostsAgree'
  <2>1. /\ UNCHANGED <<workspace, provision, pc, job>> /\ post[l] = "inflight"
        /\ \A k \in LabIds \ {l} : post'[k] = post[k] /\ vm'[k] = vm[k]
        /\ post'[l] = "created" /\ vm'[l] = "on"
    BY <1>LabsCreates DEF LabsCreates, rowVars, procVars, TypeOK
  <2>2. \A k \in LabIds : Unsent(k) /\ PostIsAccountedFor(k)'
    BY <2>1, AttachableStays
    DEF Unsent, PostsAgree, PostIsAccountedFor, Reserved, Exists, CreationStays
  <2> QED
    BY <1>moves, <2>1, <2>2, PostsOfLabs DEF procVars
<1>LabsRefuses. ASSUME NEW l \in LabIds, LabsRefuses(l) PROVE PostsAgree'
  <2>1. /\ UNCHANGED <<workspace, provision, pc, job>> /\ post[l] = "inflight"
        /\ \A k \in LabIds \ {l} : post'[k] = post[k] /\ vm'[k] = vm[k]
        /\ post'[l] = "refused" /\ vm'[l] = vm[l]
    BY <1>LabsRefuses DEF LabsRefuses, rowVars, procVars, TypeOK
  <2>2. \A k \in LabIds : Unsent(k) /\ PostIsAccountedFor(k)'
    BY <2>1, AttachableStays
    DEF Unsent, PostsAgree, PostIsAccountedFor, Reserved, Exists, CreationStays
  <2> QED
    BY <1>moves, <2>1, <2>2, PostsOfLabs DEF procVars
<1>LabsDeletes. ASSUME NEW l \in LabIds, LabsDeletes(l) PROVE PostsAgree'
  <2>1. /\ UNCHANGED <<workspace, provision, post, pc, job>> /\ l \in deletes
        /\ vm'[l] = "missing" /\ \A k \in LabIds \ {l} : vm'[k] = vm[k]
    BY <1>LabsDeletes DEF LabsDeletes, rowVars, procVars, TypeOK
  <2>2. \A k \in LabIds : Attachable(k)' => Attachable(k)
    BY <2>1, AttachableStays DEF CreationStays
  <2>3. ~Attachable(l)
    BY <2>1 DEF AttachedIsExclusive
  <2>4. \A k \in LabIds : Unsent(k) /\ PostIsAccountedFor(k)'
    BY <2>1, <2>2, <2>3 DEF Unsent, PostsAgree, PostIsAccountedFor, Reserved, Exists
  <2> QED
    BY <1>moves, <2>1, <2>4, PostsOfLabs DEF procVars
<1>GuestPowersOff. ASSUME NEW l \in LabIds, GuestPowersOff(l) PROVE PostsAgree'
  BY <1>GuestPowersOff, PostsFrame
  DEF GuestPowersOff, CreationStays, Exists, rowVars, procVars, TypeOK
<1>HostLosesVm. ASSUME NEW l \in LabIds, HostLosesVm(l) PROVE PostsAgree'
  BY <1>HostLosesVm DEF HostLosesVm
<1>unchanged. CASE UNCHANGED vars
  BY <1>unchanged, PostsFrame DEF vars, CreationStays, Exists
<1> QED
  BY <1>Create, <1>CreateRetry, <1>CreateInsert, <1>ScheduleRefused,
     <1>ScheduleProvision, <1>PostVm, <1>CreateVmFails, <1>CreateVmAnswers,
     <1>Attach, <1>Claim, <1>SweepProvision, <1>CleanDelete, <1>CleanConfirmed,
     <1>CleanFails, <1>CleanWrite, <1>Restart, <1>SweepReset, <1>ResetDeferred,
     <1>ResetDelete, <1>ResetConfirmed, <1>ResetFails, <1>ResetWrite, <1>Stop,
     <1>StopVmAnswers, <1>StopVmFails, <1>StopWrite, <1>MarkVmMissing,
     <1>Start, <1>StartRead, <1>StartVmAnswers, <1>StartVmFails, <1>StartWrite,
     <1>RebuildMissingVm, <1>Crash, <1>ExpireCreating, <1>Enroll,
     <1>LabsCreates, <1>LabsRefuses, <1>LabsDeletes, <1>GuestPowersOff,
     <1>HostLosesVm, <1>unchanged
  DEF Next, Step, CreateSteps, ProvisionSteps, CleanupSteps, ResetSteps,
      StopSteps, StartSteps, Labs

-----------------------------------------------------------------------------
(* The row keeps its machine *)

LEMMA MachineOfFrame ==
  ASSUME TypeOK, HeldOK, RowKeepsItsMachine, MachinesMove,
         workspace'.lab = workspace.lab,
         workspace'.status \in {"CREATING", "ERROR"} =>
             workspace.status \in {"CREATING", "ERROR"},
         workspace'.status \in {"RUNNING", "STOPPED"} =>
             workspace.status \in {"RUNNING", "STOPPED"} /\ Exists(workspace.lab)'
  PROVE  RowKeepsItsMachine'
<1>1. workspace.lab # NoLab => workspace.lab \in LabIds
  BY RowLab
<1>2. Exists(workspace.lab)' <=> vm'[workspace'.lab] # "missing"
  BY DEF Exists
<1> QED
  BY <1>1, <1>2 DEF RowKeepsItsMachine, MachinesMove, Exists

LEMMA MachineOfRowStep ==
  ASSUME ~HostMayLoseVms, TypeOK, HeldOK, OneCreatorEach, AttachedIsExclusive, PostsAgree,
         RowKeepsItsMachine, HeldRowsAgree, [Next]_vars
  PROVE  RowKeepsItsMachine'
<1>moves. MachinesMove
  BY MachineStep
<1>lab. workspace.status \in {"RUNNING", "STOPPED"} =>
           workspace.lab \in LabIds /\ Exists(workspace.lab)
  BY DEF HeldOK, RowKeepsItsMachine
<1>Create. ASSUME NEW p \in Procs, Create(p) PROVE RowKeepsItsMachine'
  BY <1>Create, <1>lab, <1>moves, MachineOfFrame, RowEdit
  DEF Create, Exists, TypeOK, rowVars, labsVars
<1>CreateRetry. ASSUME NEW p \in Procs, CreateRetry(p) PROVE RowKeepsItsMachine'
  <2>1. Reprovisioned(p, "ERROR") \/ UNCHANGED workspace
    BY <1>CreateRetry, ReprovisionEffect DEF CreateRetry, Statuses
  <2> QED
    BY <1>CreateRetry, <1>lab, <1>moves, <2>1, MachineOfFrame
    DEF CreateRetry, Reprovisioned, labsVars, Exists
<1>CreateInsert. ASSUME NEW p \in Procs, CreateInsert(p) PROVE RowKeepsItsMachine'
  <2>1. workspace'.lab = NoLab /\ workspace'.status = "CREATING"
    BY <1>CreateInsert DEF CreateInsert, NoRow
  <2> QED
    BY <2>1 DEF RowKeepsItsMachine
<1>ScheduleRefused. ASSUME NEW p \in Procs, ScheduleRefused(p) PROVE RowKeepsItsMachine'
  BY <1>ScheduleRefused, <1>lab, <1>moves, MachineOfFrame, RowEdit
  DEF ScheduleRefused, StillThisProvision, Still, Exists, TypeOK, rowVars, labsVars
<1>ScheduleProvision. ASSUME NEW p \in Procs, ScheduleProvision(p)
      PROVE RowKeepsItsMachine'
  BY <1>ScheduleProvision, <1>lab, <1>moves, MachineOfFrame, RowEdit
  DEF ScheduleProvision, Exists, TypeOK, rowVars, labsVars
<1>PostVm. ASSUME NEW p \in Procs, PostVm(p) PROVE RowKeepsItsMachine'
  BY <1>PostVm, <1>lab, <1>moves, MachineOfFrame, RowEdit
  DEF PostVm, Exists, TypeOK, rowVars, labsVars
<1>CreateVmFails. ASSUME NEW p \in Procs, CreateVmFails(p) PROVE RowKeepsItsMachine'
  BY <1>CreateVmFails, <1>lab, <1>moves, MachineOfFrame, RowEdit
  DEF CreateVmFails, StillThisProvision, Still, Exists, TypeOK, rowVars, labsVars
<1>CreateVmAnswers. ASSUME NEW p \in Procs, CreateVmAnswers(p) PROVE RowKeepsItsMachine'
  BY <1>CreateVmAnswers, <1>lab, <1>moves, MachineOfFrame, RowEdit
  DEF CreateVmAnswers, Exists, TypeOK, rowVars, labsVars
<1>Attach. ASSUME NEW p \in Procs, Attach(p) PROVE RowKeepsItsMachine'
  <2>1. Wins(p) \/ UNCHANGED workspace
    BY <1>Attach, AttachEffect
  <2>2. CASE Wins(p)
    <3>1. post[job[p].lab] = "created" /\ job[p].lab = Target(p)
      BY <1>Attach DEF Attach, At, PostsAgree, CallAgrees, OneCreatorEach, Creator
    <3>2. Attachable(job[p].lab)
      BY <2>2, <3>1 DEF Wins, Attachable, Welcome, StillThisProvision, Still, Target
    <3>3. Exists(job[p].lab)
      BY <2>2, <3>1, <3>2 DEF Wins, PostsAgree, PostIsAccountedFor
    <3> QED
      BY <1>Attach, <2>2, <3>1, <3>3 DEF Attach, labsVars, Wins, RowKeepsItsMachine,
         Exists
  <2>3. CASE UNCHANGED workspace
    BY <1>Attach, <1>lab, <1>moves, <2>3, MachineOfFrame DEF Attach, labsVars, Exists
  <2> QED
    BY <2>1, <2>2, <2>3
<1>Claim. ASSUME NEW p \in Procs, Claim(p) PROVE RowKeepsItsMachine'
  BY <1>Claim, <1>lab, <1>moves, MachineOfFrame, RowEdit
  DEF Claim, Claimed, Exists, TypeOK, rowVars, labsVars
<1>SweepProvision. ASSUME NEW p \in Procs, NEW l \in LabIds, SweepProvision(p, l)
      PROVE RowKeepsItsMachine'
  BY <1>SweepProvision, <1>lab, <1>moves, MachineOfFrame, RowEdit
  DEF SweepProvision, Claimed, Exists, TypeOK, rowVars, labsVars
<1>CleanDelete. ASSUME NEW p \in Procs, CleanDelete(p) PROVE RowKeepsItsMachine'
  BY <1>CleanDelete, <1>lab, <1>moves, MachineOfFrame, RowEdit
  DEF CleanDelete, Exists, TypeOK, rowVars, labsVars
<1>CleanConfirmed. ASSUME NEW p \in Procs, CleanConfirmed(p) PROVE RowKeepsItsMachine'
  BY <1>CleanConfirmed, <1>lab, <1>moves, MachineOfFrame, RowEdit
  DEF CleanConfirmed, Exists, TypeOK, rowVars, labsVars
<1>CleanFails. ASSUME NEW p \in Procs, CleanFails(p) PROVE RowKeepsItsMachine'
  BY <1>CleanFails, <1>lab, <1>moves, MachineOfFrame, RowEdit
  DEF CleanFails, Exists, TypeOK, rowVars, labsVars
<1>CleanWrite. ASSUME NEW p \in Procs, CleanWrite(p) PROVE RowKeepsItsMachine'
  BY <1>CleanWrite, <1>lab, <1>moves, MachineOfFrame, RowEdit
  DEF CleanWrite, Exists, TypeOK, rowVars, labsVars
<1>Restart. ASSUME NEW p \in Procs, Restart(p) PROVE RowKeepsItsMachine'
  <2>1. UNCHANGED workspace \/ workspace' = [workspace EXCEPT !.status = "RESETTING"]
    BY <1>Restart DEF Restart
  <2>2. UNCHANGED vm
    BY <1>Restart DEF Restart, labsVars
  <2>3. CASE UNCHANGED workspace
    BY <1>lab, <1>moves, <2>2, <2>3, MachineOfFrame DEF Exists
  <2>4. CASE workspace' = [workspace EXCEPT !.status = "RESETTING"]
    <3>1. workspace'.status = "RESETTING" /\ workspace'.lab = workspace.lab
      BY <2>4, RowEdit
    <3> QED
      BY <1>moves, <3>1, MachineOfFrame
  <2> QED
    BY <2>1, <2>3, <2>4
<1>SweepReset. ASSUME NEW p \in Procs, SweepReset(p) PROVE RowKeepsItsMachine'
  BY <1>SweepReset, <1>lab, <1>moves, MachineOfFrame, RowEdit
  DEF SweepReset, Exists, TypeOK, rowVars, labsVars
<1>ResetDeferred. ASSUME NEW p \in Procs, ResetDeferred(p) PROVE RowKeepsItsMachine'
  BY <1>ResetDeferred, <1>lab, <1>moves, MachineOfFrame, RowEdit
  DEF ResetDeferred, Exists, TypeOK, rowVars, labsVars
<1>ResetDelete. ASSUME NEW p \in Procs, ResetDelete(p) PROVE RowKeepsItsMachine'
  BY <1>ResetDelete, <1>lab, <1>moves, MachineOfFrame, RowEdit
  DEF ResetDelete, Exists, TypeOK, rowVars, labsVars
<1>ResetConfirmed. ASSUME NEW p \in Procs, ResetConfirmed(p) PROVE RowKeepsItsMachine'
  BY <1>ResetConfirmed, <1>lab, <1>moves, MachineOfFrame, RowEdit
  DEF ResetConfirmed, Exists, TypeOK, rowVars, labsVars
<1>ResetFails. ASSUME NEW p \in Procs, ResetFails(p) PROVE RowKeepsItsMachine'
  BY <1>ResetFails, <1>lab, <1>moves, MachineOfFrame, RowEdit
  DEF ResetFails, Exists, TypeOK, rowVars, labsVars
<1>ResetWrite. ASSUME NEW p \in Procs, ResetWrite(p) PROVE RowKeepsItsMachine'
  <2>1. workspace' = NoRow \/ UNCHANGED workspace
    BY <1>ResetWrite DEF ResetWrite
  <2> QED
    BY <1>ResetWrite, <1>lab, <1>moves, <2>1, MachineOfFrame, NoRowValues
    DEF ResetWrite, labsVars, Exists, RowKeepsItsMachine
<1>Stop. ASSUME NEW p \in Procs, Stop(p) PROVE RowKeepsItsMachine'
  BY <1>Stop, <1>lab, <1>moves, MachineOfFrame, RowEdit
  DEF Stop, HoldRow, Exists, TypeOK, rowVars, labsVars
<1>StopVmAnswers. ASSUME NEW p \in Procs, StopVmAnswers(p) PROVE RowKeepsItsMachine'
  BY <1>StopVmAnswers, <1>lab, <1>moves, MachineOfFrame, RowEdit
  DEF StopVmAnswers, Exists, TypeOK, rowVars, labsVars
<1>StopVmFails. ASSUME NEW p \in Procs, StopVmFails(p) PROVE RowKeepsItsMachine'
  BY <1>StopVmFails, <1>lab, <1>moves, MachineOfFrame, RowEdit
  DEF StopVmFails, Exists, TypeOK, rowVars, labsVars
<1>StopWrite. ASSUME NEW p \in Procs, StopWrite(p) PROVE RowKeepsItsMachine'
  BY <1>StopWrite, <1>lab, <1>moves, MachineOfFrame, RowEdit
  DEF StopWrite, Still, Exists, TypeOK, rowVars, labsVars
<1>MarkVmMissing. ASSUME NEW p \in Procs, MarkVmMissing(p) PROVE RowKeepsItsMachine'
  <2>1. UNCHANGED workspace
    BY <1>MarkVmMissing DEF MarkVmMissing, Still, At, HeldRowsAgree, HeldRowAgrees
  <2> QED
    BY <1>MarkVmMissing, <1>lab, <1>moves, <2>1, MachineOfFrame
    DEF MarkVmMissing, labsVars, Exists
<1>Start. ASSUME NEW p \in Procs, Start(p) PROVE RowKeepsItsMachine'
  BY <1>Start, <1>lab, <1>moves, MachineOfFrame, RowEdit
  DEF Start, Exists, TypeOK, rowVars, labsVars
<1>StartRead. ASSUME NEW p \in Procs, StartRead(p) PROVE RowKeepsItsMachine'
  BY <1>StartRead, <1>lab, <1>moves, MachineOfFrame, RowEdit
  DEF StartRead, HoldRow, Exists, TypeOK, rowVars, labsVars
<1>StartVmAnswers. ASSUME NEW p \in Procs, StartVmAnswers(p) PROVE RowKeepsItsMachine'
  BY <1>StartVmAnswers, <1>lab, <1>moves, MachineOfFrame, RowEdit
  DEF StartVmAnswers, Exists, TypeOK, rowVars, labsVars
<1>StartVmFails. ASSUME NEW p \in Procs, StartVmFails(p) PROVE RowKeepsItsMachine'
  BY <1>StartVmFails, <1>lab, <1>moves, MachineOfFrame, RowEdit
  DEF StartVmFails, Exists, TypeOK, rowVars, labsVars
<1>StartWrite. ASSUME NEW p \in Procs, StartWrite(p) PROVE RowKeepsItsMachine'
  BY <1>StartWrite, <1>lab, <1>moves, MachineOfFrame, RowEdit
  DEF StartWrite, Still, Exists, TypeOK, rowVars, labsVars
<1>RebuildMissingVm. ASSUME NEW p \in Procs, RebuildMissingVm(p)
      PROVE RowKeepsItsMachine'
  <2>1. Reprovisioned(p, "STOPPED") \/ UNCHANGED workspace
    BY <1>RebuildMissingVm, ReprovisionEffect DEF RebuildMissingVm, Statuses
  <2>2. workspace.row = job[p].row => workspace.status = "RESETTING"
    BY <1>RebuildMissingVm DEF RebuildMissingVm, At, HeldRowsAgree, HeldRowAgrees
  <2>3. UNCHANGED workspace
    BY <1>RebuildMissingVm, <2>1, <2>2 DEF RebuildMissingVm, Reprovisioned
  <2> QED
    BY <1>RebuildMissingVm, <1>lab, <1>moves, <2>3, MachineOfFrame
    DEF RebuildMissingVm, labsVars, Exists
<1>Crash. ASSUME NEW p \in Procs, Crash(p) PROVE RowKeepsItsMachine'
  BY <1>Crash, <1>lab, <1>moves, MachineOfFrame, RowEdit
  DEF Crash, Exists, TypeOK, rowVars, labsVars
<1>ExpireCreating. CASE ExpireCreating
  BY <1>ExpireCreating, <1>lab, <1>moves, MachineOfFrame, RowEdit
  DEF ExpireCreating, Exists, TypeOK, rowVars, labsVars
<1>Enroll. CASE Enroll
  BY <1>Enroll, <1>lab, <1>moves, MachineOfFrame, RowEdit
  DEF Enroll, Exists, TypeOK, rowVars, labsVars
<1>LabsCreates. ASSUME NEW l \in LabIds, LabsCreates(l) PROVE RowKeepsItsMachine'
  BY <1>LabsCreates, <1>lab, <1>moves, MachineOfFrame, RowEdit
  DEF LabsCreates, Exists, TypeOK, rowVars, labsVars
<1>LabsRefuses. ASSUME NEW l \in LabIds, LabsRefuses(l) PROVE RowKeepsItsMachine'
  BY <1>LabsRefuses, <1>lab, <1>moves, MachineOfFrame, RowEdit
  DEF LabsRefuses, Exists, TypeOK, rowVars, labsVars
<1>LabsDeletes. ASSUME NEW l \in LabIds, LabsDeletes(l) PROVE RowKeepsItsMachine'
  <2>1. ~Attached(l) /\ UNCHANGED workspace
    BY <1>LabsDeletes DEF LabsDeletes, AttachedIsExclusive, rowVars
  <2> QED
    BY <1>LabsDeletes, <1>lab, <1>moves, <2>1, MachineOfFrame
    DEF LabsDeletes, Attached, Exists, TypeOK
<1>GuestPowersOff. ASSUME NEW l \in LabIds, GuestPowersOff(l) PROVE RowKeepsItsMachine'
  BY <1>GuestPowersOff, <1>lab, <1>moves, MachineOfFrame, RowEdit
  DEF GuestPowersOff, Exists, TypeOK, rowVars, labsVars
<1>HostLosesVm. ASSUME NEW l \in LabIds, HostLosesVm(l) PROVE RowKeepsItsMachine'
  BY <1>HostLosesVm DEF HostLosesVm
<1>unchanged. CASE UNCHANGED vars
  BY <1>unchanged, <1>lab, <1>moves, MachineOfFrame DEF vars, Exists
<1> QED
  BY <1>Create, <1>CreateRetry, <1>CreateInsert, <1>ScheduleRefused,
     <1>ScheduleProvision, <1>PostVm, <1>CreateVmFails, <1>CreateVmAnswers,
     <1>Attach, <1>Claim, <1>SweepProvision, <1>CleanDelete, <1>CleanConfirmed,
     <1>CleanFails, <1>CleanWrite, <1>Restart, <1>SweepReset, <1>ResetDeferred,
     <1>ResetDelete, <1>ResetConfirmed, <1>ResetFails, <1>ResetWrite, <1>Stop,
     <1>StopVmAnswers, <1>StopVmFails, <1>StopWrite, <1>MarkVmMissing,
     <1>Start, <1>StartRead, <1>StartVmAnswers, <1>StartVmFails, <1>StartWrite,
     <1>RebuildMissingVm, <1>Crash, <1>ExpireCreating, <1>Enroll,
     <1>LabsCreates, <1>LabsRefuses, <1>LabsDeletes, <1>GuestPowersOff,
     <1>HostLosesVm, <1>unchanged
  DEF Next, Step, CreateSteps, ProvisionSteps, CleanupSteps, ResetSteps,
      StopSteps, StartSteps, Labs

-----------------------------------------------------------------------------
(* A row found again has the same machine *)

LEMMA HeldRowStays ==
  ASSUME TypeOK, TypeOK', RowMovesOn, MachinesMove, RowKeepsItsMachine,
         NEW q \in Procs, HeldRowAgrees(q), pc'[q] = pc[q], job'[q] = job[q]
  PROVE  HeldRowAgrees(q)'
<1>1. nextRow \in Int /\ nextRow' \in Int /\ job[q].row \in Int /\ workspace'.row \in Int
  BY BoundsAssumption DEF TypeOK, Jobs, Rows, NoRow, RowIds
<1>2. job'[q].row < nextRow'
  BY <1>1 DEF HeldRowAgrees, RowMovesOn
<1>3. CASE workspace'.row # job[q].row \/ job[q].row = 0
  BY <1>2, <1>3 DEF HeldRowAgrees, At
<1>4. CASE workspace'.row = job[q].row /\ job[q].row # 0
  <2>1. /\ workspace'.row = workspace.row
        /\ workspace.status = "RESETTING" => workspace'.status = "RESETTING"
        /\ workspace.status \in {"RUNNING", "STOPPED", "RESETTING"} =>
              /\ workspace'.status \in {"RUNNING", "STOPPED", "RESETTING"}
              /\ workspace'.lab = workspace.lab
    BY <1>1, <1>4 DEF RowMovesOn, HeldRowAgrees
  <2>2. ASSUME At(q, "resetWrite"), workspace'.lab # NoLab
      PROVE vm'[workspace'.lab] = "missing"
    <3>1. workspace.status = "RESETTING" /\ workspace'.lab = workspace.lab
      BY <1>4, <2>1, <2>2 DEF HeldRowAgrees, At
    <3>2. workspace.lab \in LabIds /\ ~Exists(workspace.lab) /\ post[workspace.lab] = "created"
      BY <1>4, <2>1, <2>2, <3>1, RowLab DEF HeldRowAgrees, RowKeepsItsMachine
    <3> QED
      BY <3>1, <3>2 DEF MachinesMove, Exists
  <2>3. At(q, "resetWrite")' => At(q, "resetWrite")
    BY DEF At
  <2> QED
    BY <1>2, <1>4, <2>1, <2>2, <2>3 DEF HeldRowAgrees, Exists, At
<1> QED
  BY <1>3, <1>4

LEMMA HeldRowsOfStep ==
  ASSUME TypeOK, TypeOK', RowMovesOn, MachinesMove, RowKeepsItsMachine, HeldRowsAgree,
         NEW p \in Procs, \A q \in Procs \ {p} : pc'[q] = pc[q] /\ job'[q] = job[q],
         HeldRowAgrees(p)'
  PROVE  HeldRowsAgree'
  BY HeldRowStays DEF HeldRowsAgree

\* A process that holds no row of its own choice for later.
LEMMA HeldRowsOfOther ==
  ASSUME TypeOK, TypeOK', RowMovesOn, MachinesMove, RowKeepsItsMachine, HeldRowsAgree,
         NEW p \in Procs, \A q \in Procs \ {p} : pc'[q] = pc[q] /\ job'[q] = job[q],
         pc'[p] \notin {"resetCheck", "resetWrite", "stop", "stopWrite", "stopMissing",
                        "start", "startWrite", "rebuild"},
         job'[p].row \in {0, job[p].row} \/ job'[p].row < nextRow'
  PROVE  HeldRowsAgree'
<1>1. job'[p].row < nextRow'
  BY BoundsAssumption
  DEF HeldRowsAgree, HeldRowAgrees, RowMovesOn, TypeOK, Jobs, RowIds
<1> QED
  BY <1>1, HeldRowsOfStep DEF HeldRowAgrees, At

LEMMA HeldRowsStep ==
  ASSUME TypeOK, HeldOK, NothingUnissued, PostsAgree, RowKeepsItsMachine, HeldRowsAgree,
         [Next]_vars
  PROVE  HeldRowsAgree'
<1>type. TypeOK'
  BY TypeStep
<1>moves. MachinesMove /\ RowMovesOn
  BY MachineStep, RowStep
<1> USE NoJobValues
<1>Create. ASSUME NEW p \in Procs, Create(p) PROVE HeldRowsAgree'
  BY <1>Create, <1>type, <1>moves, HeldRowsOfOther
  DEF Create, Goto, Hold, Done, Become, TypeOK, Jobs, NoJob
<1>CreateRetry. ASSUME NEW p \in Procs, CreateRetry(p) PROVE HeldRowsAgree'
  <2>1. Reprovisioned(p, "ERROR") \/ (UNCHANGED workspace /\ Done(p))
    BY <1>CreateRetry, ReprovisionEffect DEF CreateRetry, Statuses
  <2>2. workspace.row < nextRow /\ nextRow' = nextRow
    BY <1>CreateRetry DEF CreateRetry, NothingUnissued
  <2>3. CASE Reprovisioned(p, "ERROR")
    BY <1>type, <1>moves, <2>2, <2>3, HeldRowsOfOther DEF Reprovisioned
  <2>4. CASE Done(p)
    BY <1>type, <1>moves, <2>4, ProcEffect, HeldRowsOfOther
  <2> QED
    BY <2>1, <2>3, <2>4
<1>CreateInsert. ASSUME NEW p \in Procs, CreateInsert(p) PROVE HeldRowsAgree'
  <2>1. /\ pc'[p] = "schedule" /\ job'[p].row = nextRow /\ nextRow' = nextRow + 1
        /\ \A q \in Procs \ {p} : pc'[q] = pc[q] /\ job'[q] = job[q]
    BY <1>CreateInsert DEF CreateInsert, Goto, Hold, TypeOK, Jobs
  <2>2. job'[p].row < nextRow'
    BY <2>1, NextRowIsInt
  <2> QED
    BY <1>type, <1>moves, <2>1, <2>2, HeldRowsOfOther
<1>ScheduleRefused. ASSUME NEW p \in Procs, ScheduleRefused(p) PROVE HeldRowsAgree'
  BY <1>ScheduleRefused, <1>type, <1>moves, HeldRowsOfOther
  DEF ScheduleRefused, Goto, Hold, Done, Become, TypeOK, Jobs, NoJob
<1>ScheduleProvision. ASSUME NEW p \in Procs, ScheduleProvision(p) PROVE HeldRowsAgree'
  <2>1. Scheduled(p) \/ Done(p)
    BY <1>ScheduleProvision, ScheduleEffect
  <2> QED
    BY <1>type, <1>moves, <2>1, ProcEffect, HeldRowsOfOther DEF Scheduled
<1>PostVm. ASSUME NEW p \in Procs, PostVm(p) PROVE HeldRowsAgree'
  BY <1>PostVm, <1>type, <1>moves, HeldRowsOfOther
  DEF PostVm, Goto, Hold, Done, Become, TypeOK, Jobs, NoJob
<1>CreateVmFails. ASSUME NEW p \in Procs, CreateVmFails(p) PROVE HeldRowsAgree'
  BY <1>CreateVmFails, <1>type, <1>moves, HeldRowsOfOther
  DEF CreateVmFails, Goto, Hold, Done, Become, TypeOK, Jobs, NoJob
<1>CreateVmAnswers. ASSUME NEW p \in Procs, CreateVmAnswers(p) PROVE HeldRowsAgree'
  BY <1>CreateVmAnswers, <1>type, <1>moves, HeldRowsOfOther
  DEF CreateVmAnswers, Goto, Hold, Done, Become, TypeOK, Jobs, NoJob
<1>Attach. ASSUME NEW p \in Procs, Attach(p) PROVE HeldRowsAgree'
  <2>1. Done(p) \/ Become(p, "claim")
    BY <1>Attach DEF Attach
  <2> QED
    BY <1>type, <1>moves, <2>1, ProcEffect, HeldRowsOfOther DEF Labels
<1>Claim. ASSUME NEW p \in Procs, Claim(p) PROVE HeldRowsAgree'
  BY <1>Claim, <1>type, <1>moves, HeldRowsOfOther
  DEF Claim, Goto, Hold, Done, Become, TypeOK, Jobs, NoJob
<1>SweepProvision. ASSUME NEW p \in Procs, NEW l \in LabIds, SweepProvision(p, l)
      PROVE HeldRowsAgree'
  BY <1>SweepProvision, <1>type, <1>moves, HeldRowsOfOther
  DEF SweepProvision, Goto, Hold, Done, Become, TypeOK, Jobs, NoJob
<1>CleanDelete. ASSUME NEW p \in Procs, CleanDelete(p) PROVE HeldRowsAgree'
  BY <1>CleanDelete, <1>type, <1>moves, HeldRowsOfOther
  DEF CleanDelete, Goto, Hold, Done, Become, TypeOK, Jobs, NoJob
<1>CleanConfirmed. ASSUME NEW p \in Procs, CleanConfirmed(p) PROVE HeldRowsAgree'
  BY <1>CleanConfirmed, <1>type, <1>moves, HeldRowsOfOther
  DEF CleanConfirmed, Goto, Hold, Done, Become, TypeOK, Jobs, NoJob
<1>CleanFails. ASSUME NEW p \in Procs, CleanFails(p) PROVE HeldRowsAgree'
  BY <1>CleanFails, <1>type, <1>moves, HeldRowsOfOther
  DEF CleanFails, Goto, Hold, Done, Become, TypeOK, Jobs, NoJob
<1>CleanWrite. ASSUME NEW p \in Procs, CleanWrite(p) PROVE HeldRowsAgree'
  BY <1>CleanWrite, <1>type, <1>moves, HeldRowsOfOther
  DEF CleanWrite, Goto, Hold, Done, Become, TypeOK, Jobs, NoJob
<1>Restart. ASSUME NEW p \in Procs, Restart(p) PROVE HeldRowsAgree'
  <2>1. UNCHANGED procVars \/ Become(p, "reset")
    BY <1>Restart DEF Restart
  <2>2. CASE UNCHANGED procVars
    BY <1>type, <1>moves, <2>2, HeldRowStays DEF HeldRowsAgree, procVars
  <2>3. CASE Become(p, "reset")
    BY <1>type, <1>moves, <2>3, ProcEffect, HeldRowsOfOther DEF Labels
  <2> QED
    BY <2>1, <2>2, <2>3
<1>SweepReset. ASSUME NEW p \in Procs, SweepReset(p) PROVE HeldRowsAgree'
  BY <1>SweepReset, <1>type, <1>moves, HeldRowsOfOther
  DEF SweepReset, Goto, Hold, Done, Become, TypeOK, Jobs, NoJob
<1>ResetDeferred. ASSUME NEW p \in Procs, ResetDeferred(p) PROVE HeldRowsAgree'
  BY <1>ResetDeferred, <1>type, <1>moves, HeldRowsOfOther
  DEF ResetDeferred, Goto, Hold, Done, Become, TypeOK, Jobs, NoJob
<1>ResetDelete. ASSUME NEW p \in Procs, ResetDelete(p) PROVE HeldRowsAgree'
  <2>1. workspace.row \in RowIds
    BY <1>ResetDelete DEF ResetDelete, TypeOK, NoRow, Rows
  <2>2. /\ pc'[p] = "resetCheck" /\ job'[p].row = workspace.row
        /\ workspace.lab # NoLab => job'[p].lab = workspace.lab
        /\ \A q \in Procs \ {p} : pc'[q] = pc[q] /\ job'[q] = job[q]
        /\ UNCHANGED rowVars /\ workspace.status = "RESETTING"
    BY <1>ResetDelete DEF ResetDelete, Goto, Hold, TypeOK, NoJob
  <2>3. HeldRowAgrees(p)'
    BY <2>1, <2>2, BoundsAssumption
    DEF HeldRowAgrees, At, NothingUnissued, rowVars, RowIds
  <2> QED
    BY <1>type, <1>moves, <2>2, <2>3, HeldRowsOfStep
<1>ResetConfirmed. ASSUME NEW p \in Procs, ResetConfirmed(p) PROVE HeldRowsAgree'
  <2>1. /\ UNCHANGED <<workspace, nextRow, vm, job>> /\ ~Exists(job[p].lab)
        /\ pc[p] = "resetCheck" /\ pc'[p] = "resetWrite"
        /\ \A q \in Procs \ {p} : pc'[q] = pc[q]
    BY <1>ResetConfirmed DEF ResetConfirmed, Become, Goto, At, TypeOK, rowVars, labsVars
  <2>2. HeldRowAgrees(p)
    BY DEF HeldRowsAgree
  <2>3. HeldRowAgrees(p)'
    BY <2>1, <2>2 DEF HeldRowAgrees, At, Exists
  <2> QED
    BY <1>type, <1>moves, <2>1, <2>3, HeldRowsOfStep
<1>ResetFails. ASSUME NEW p \in Procs, ResetFails(p) PROVE HeldRowsAgree'
  BY <1>ResetFails, <1>type, <1>moves, HeldRowsOfOther
  DEF ResetFails, Goto, Hold, Done, Become, TypeOK, Jobs, NoJob
<1>ResetWrite. ASSUME NEW p \in Procs, ResetWrite(p) PROVE HeldRowsAgree'
  BY <1>ResetWrite, <1>type, <1>moves, HeldRowsOfOther
  DEF ResetWrite, Goto, Hold, Done, Become, TypeOK, Jobs, NoJob
<1>Stop. ASSUME NEW p \in Procs, Stop(p) PROVE HeldRowsAgree'
  <2>1. workspace.row # 0 /\ UNCHANGED rowVars /\ workspace.status = "RUNNING"
    BY <1>Stop, BoundsAssumption DEF Stop, TypeOK, NoRow, Rows, RowIds
  <2>2. /\ pc'[p] = "stop" /\ job'[p].row = workspace.row /\ job'[p].lab = workspace.lab
        /\ \A q \in Procs \ {p} : pc'[q] = pc[q] /\ job'[q] = job[q]
    BY <1>Stop, HoldRowEffect DEF Stop, Labels
  <2>3. HeldRowAgrees(p)'
    BY <2>1, <2>2 DEF HeldRowAgrees, At, NothingUnissued, rowVars
  <2> QED
    BY <1>type, <1>moves, <2>2, <2>3, HeldRowsOfStep
<1>StopVmAnswers. ASSUME NEW p \in Procs, StopVmAnswers(p) PROVE HeldRowsAgree'
  <2>1. /\ UNCHANGED <<workspace, nextRow, job>> /\ pc[p] = "stop" /\ pc'[p] = "stopWrite"
        /\ \A q \in Procs \ {p} : pc'[q] = pc[q]
    BY <1>StopVmAnswers DEF StopVmAnswers, Become, Goto, At, TypeOK, rowVars
  <2>2. HeldRowAgrees(p)'
    BY <2>1 DEF HeldRowsAgree, HeldRowAgrees, At
  <2> QED
    BY <1>type, <1>moves, <2>1, <2>2, HeldRowsOfStep
<1>StopVmFails. ASSUME NEW p \in Procs, StopVmFails(p) PROVE HeldRowsAgree'
  <2>1. UNCHANGED <<workspace, nextRow>> /\ pc[p] = "stop"
    BY <1>StopVmFails DEF StopVmFails, At, rowVars
  <2>2. CASE Done(p)
    BY <1>type, <1>moves, <2>2, ProcEffect, HeldRowsOfOther
  <2>3. CASE vm'[job[p].lab] = "missing" /\ Become(p, "stopMissing")
    <3>1. ~Exists(job[p].lab)
      BY <1>StopVmFails, <2>3, <2>1 DEF StopVmFails, Exists, HeldOK, TypeOK
    <3>2. job[p].row = workspace.row => workspace.status = "RESETTING"
      BY <2>1, <3>1 DEF HeldRowsAgree, HeldRowAgrees, RowKeepsItsMachine
    <3>3. pc'[p] = "stopMissing" /\ job' = job /\ \A q \in Procs \ {p} : pc'[q] = pc[q]
      BY <2>3, ProcEffect DEF Labels
    <3>4. HeldRowAgrees(p)'
      BY <2>1, <3>2, <3>3 DEF HeldRowsAgree, HeldRowAgrees, At
    <3> QED
      BY <1>type, <1>moves, <3>3, <3>4, HeldRowsOfStep
  <2>4. CASE Become(p, "stopWrite")
    <3>1. pc'[p] = "stopWrite" /\ job' = job /\ \A q \in Procs \ {p} : pc'[q] = pc[q]
      BY <2>4, ProcEffect DEF Labels
    <3>2. HeldRowAgrees(p)'
      BY <2>1, <3>1 DEF HeldRowsAgree, HeldRowAgrees, At
    <3> QED
      BY <1>type, <1>moves, <3>1, <3>2, HeldRowsOfStep
  <2> QED
    BY <1>StopVmFails, <2>2, <2>3, <2>4 DEF StopVmFails
<1>StopWrite. ASSUME NEW p \in Procs, StopWrite(p) PROVE HeldRowsAgree'
  BY <1>StopWrite, <1>type, <1>moves, HeldRowsOfOther
  DEF StopWrite, Goto, Hold, Done, Become, TypeOK, Jobs, NoJob
<1>MarkVmMissing. ASSUME NEW p \in Procs, MarkVmMissing(p) PROVE HeldRowsAgree'
  BY <1>MarkVmMissing, <1>type, <1>moves, HeldRowsOfOther
  DEF MarkVmMissing, Goto, Hold, Done, Become, TypeOK, Jobs, NoJob
<1>Start. ASSUME NEW p \in Procs, Start(p) PROVE HeldRowsAgree'
  BY <1>Start, <1>type, <1>moves, HeldRowsOfOther
  DEF Start, Goto, Hold, Done, Become, TypeOK, Jobs, NoJob
<1>StartRead. ASSUME NEW p \in Procs, StartRead(p) PROVE HeldRowsAgree'
  <2>1. CASE workspace.status = "STOPPED"
    <3>1. workspace.row # 0 /\ UNCHANGED rowVars
      BY <1>StartRead, <2>1, BoundsAssumption DEF StartRead, TypeOK, NoRow, Rows, RowIds
    <3>2. /\ pc'[p] = "start" /\ job'[p].row = workspace.row /\ job'[p].lab = workspace.lab
          /\ \A q \in Procs \ {p} : pc'[q] = pc[q] /\ job'[q] = job[q]
      BY <1>StartRead, <2>1, HoldRowEffect DEF StartRead, Labels
    <3>3. HeldRowAgrees(p)'
      BY <2>1, <3>1, <3>2 DEF HeldRowAgrees, At, NothingUnissued, rowVars
    <3> QED
      BY <1>type, <1>moves, <3>2, <3>3, HeldRowsOfStep
  <2>2. CASE Done(p)
    BY <1>type, <1>moves, <2>2, ProcEffect, HeldRowsOfOther
  <2> QED
    BY <1>StartRead, <2>1, <2>2 DEF StartRead
<1>StartVmAnswers. ASSUME NEW p \in Procs, StartVmAnswers(p) PROVE HeldRowsAgree'
  <2>1. /\ UNCHANGED <<workspace, nextRow, job>> /\ pc[p] = "start" /\ pc'[p] = "startWrite"
        /\ \A q \in Procs \ {p} : pc'[q] = pc[q]
    BY <1>StartVmAnswers DEF StartVmAnswers, Become, Goto, At, TypeOK, rowVars
  <2>2. HeldRowAgrees(p)'
    BY <2>1 DEF HeldRowsAgree, HeldRowAgrees, At
  <2> QED
    BY <1>type, <1>moves, <2>1, <2>2, HeldRowsOfStep
<1>StartVmFails. ASSUME NEW p \in Procs, StartVmFails(p) PROVE HeldRowsAgree'
  <2>1. UNCHANGED <<workspace, nextRow>> /\ pc[p] = "start"
    BY <1>StartVmFails DEF StartVmFails, At, rowVars
  <2>2. CASE Done(p)
    BY <1>type, <1>moves, <2>2, ProcEffect, HeldRowsOfOther
  <2>3. CASE vm'[job[p].lab] = "missing" /\ Become(p, "rebuild")
    <3>1. ~Exists(job[p].lab)
      BY <1>StartVmFails, <2>3, <2>1 DEF StartVmFails, Exists, HeldOK, TypeOK
    <3>2. job[p].row = workspace.row => workspace.status = "RESETTING"
      BY <2>1, <3>1 DEF HeldRowsAgree, HeldRowAgrees, RowKeepsItsMachine
    <3>3. pc'[p] = "rebuild" /\ job' = job /\ \A q \in Procs \ {p} : pc'[q] = pc[q]
      BY <2>3, ProcEffect DEF Labels
    <3>4. HeldRowAgrees(p)'
      BY <2>1, <3>2, <3>3 DEF HeldRowsAgree, HeldRowAgrees, At
    <3> QED
      BY <1>type, <1>moves, <3>3, <3>4, HeldRowsOfStep
  <2> QED
    BY <1>StartVmFails, <2>2, <2>3 DEF StartVmFails
<1>StartWrite. ASSUME NEW p \in Procs, StartWrite(p) PROVE HeldRowsAgree'
  BY <1>StartWrite, <1>type, <1>moves, HeldRowsOfOther
  DEF StartWrite, Goto, Hold, Done, Become, TypeOK, Jobs, NoJob
<1>RebuildMissingVm. ASSUME NEW p \in Procs, RebuildMissingVm(p) PROVE HeldRowsAgree'
  <2>1. Reprovisioned(p, "STOPPED") \/ (UNCHANGED workspace /\ Done(p))
    BY <1>RebuildMissingVm, ReprovisionEffect DEF RebuildMissingVm, Statuses
  <2>2. workspace.row < nextRow /\ nextRow' = nextRow
    BY <1>RebuildMissingVm DEF RebuildMissingVm, NothingUnissued
  <2>3. CASE Reprovisioned(p, "STOPPED")
    BY <1>type, <1>moves, <2>2, <2>3, HeldRowsOfOther DEF Reprovisioned
  <2>4. CASE Done(p)
    BY <1>type, <1>moves, <2>4, ProcEffect, HeldRowsOfOther
  <2> QED
    BY <2>1, <2>3, <2>4
<1>Crash. ASSUME NEW p \in Procs, Crash(p) PROVE HeldRowsAgree'
  BY <1>Crash, <1>type, <1>moves, HeldRowsOfOther
  DEF Crash, Goto, Hold, Done, Become, TypeOK, Jobs, NoJob
<1>ExpireCreating. CASE ExpireCreating
  BY <1>ExpireCreating, <1>type, <1>moves, HeldRowStays DEF ExpireCreating,
     HeldRowsAgree, procVars
<1>Enroll. CASE Enroll
  BY <1>Enroll, <1>type, <1>moves, HeldRowStays DEF Enroll, HeldRowsAgree, procVars
<1>LabsCreates. ASSUME NEW l \in LabIds, LabsCreates(l) PROVE HeldRowsAgree'
  BY <1>LabsCreates, <1>type, <1>moves, HeldRowStays DEF LabsCreates, HeldRowsAgree,
     procVars
<1>LabsRefuses. ASSUME NEW l \in LabIds, LabsRefuses(l) PROVE HeldRowsAgree'
  BY <1>LabsRefuses, <1>type, <1>moves, HeldRowStays DEF LabsRefuses, HeldRowsAgree,
     procVars
<1>LabsDeletes. ASSUME NEW l \in LabIds, LabsDeletes(l) PROVE HeldRowsAgree'
  BY <1>LabsDeletes, <1>type, <1>moves, HeldRowStays DEF LabsDeletes, HeldRowsAgree,
     procVars
<1>GuestPowersOff. ASSUME NEW l \in LabIds, GuestPowersOff(l) PROVE HeldRowsAgree'
  BY <1>GuestPowersOff, <1>type, <1>moves, HeldRowStays DEF GuestPowersOff,
     HeldRowsAgree, procVars
<1>HostLosesVm. ASSUME NEW l \in LabIds, HostLosesVm(l) PROVE HeldRowsAgree'
  BY <1>HostLosesVm, <1>type, <1>moves, HeldRowStays DEF HostLosesVm, HeldRowsAgree,
     procVars
<1>unchanged. CASE UNCHANGED vars
  BY <1>unchanged, <1>type, <1>moves, HeldRowStays DEF vars, HeldRowsAgree
<1> QED
  BY <1>Create, <1>CreateRetry, <1>CreateInsert, <1>ScheduleRefused,
     <1>ScheduleProvision, <1>PostVm, <1>CreateVmFails, <1>CreateVmAnswers,
     <1>Attach, <1>Claim, <1>SweepProvision, <1>CleanDelete, <1>CleanConfirmed,
     <1>CleanFails, <1>CleanWrite, <1>Restart, <1>SweepReset, <1>ResetDeferred,
     <1>ResetDelete, <1>ResetConfirmed, <1>ResetFails, <1>ResetWrite, <1>Stop,
     <1>StopVmAnswers, <1>StopVmFails, <1>StopWrite, <1>MarkVmMissing,
     <1>Start, <1>StartRead, <1>StartVmAnswers, <1>StartVmFails, <1>StartWrite,
     <1>RebuildMissingVm, <1>Crash, <1>ExpireCreating, <1>Enroll,
     <1>LabsCreates, <1>LabsRefuses, <1>LabsDeletes, <1>GuestPowersOff,
     <1>HostLosesVm, <1>unchanged
  DEF Next, Step, CreateSteps, ProvisionSteps, CleanupSteps, ResetSteps,
      StopSteps, StartSteps, Labs

-----------------------------------------------------------------------------
(* No machine is orphaned *)

LEMMA OrphanFrame ==
  ASSUME TypeOK, NoOrphanVm, MachinesMove,
         \A l \in LabIds : post'[l] = "inflight" => post[l] = "inflight",
         \A l \in LabIds : Reserved(l) => Reserved(l)',
         workspace'.lab = workspace.lab \/ workspace.lab = NoLab
  PROVE  NoOrphanVm'
  BY NoLabOutside DEF NoOrphanVm, MachinesMove

LEMMA OrphanStep ==
  ASSUME TypeOK, HeldOK, NoOrphanVm, PostsAgree, RowKeepsItsMachine, HeldRowsAgree,
         [Next]_vars
  PROVE  NoOrphanVm'
<1>moves. MachinesMove
  BY MachineStep
<1>Create. ASSUME NEW p \in Procs, Create(p) PROVE NoOrphanVm'
  BY <1>Create, <1>moves, OrphanFrame, RowEdit
  DEF Create, Reserved, TypeOK, rowVars, labsVars
<1>CreateRetry. ASSUME NEW p \in Procs, CreateRetry(p) PROVE NoOrphanVm'
  <2>1. Reprovisioned(p, "ERROR") \/ UNCHANGED workspace
    BY <1>CreateRetry, ReprovisionEffect DEF CreateRetry, Statuses
  <2> QED
    BY <1>CreateRetry, <1>moves, <2>1, OrphanFrame DEF CreateRetry, Reprovisioned,
       labsVars, Reserved
<1>CreateInsert. ASSUME NEW p \in Procs, CreateInsert(p) PROVE NoOrphanVm'
  <2>1. workspace.lab = NoLab
    BY <1>CreateInsert, NoRowValues DEF CreateInsert, TypeOK, Rows, Statuses
  <2> QED
    BY <1>CreateInsert, <1>moves, <2>1, OrphanFrame DEF CreateInsert, labsVars, Reserved
<1>ScheduleRefused. ASSUME NEW p \in Procs, ScheduleRefused(p) PROVE NoOrphanVm'
  BY <1>ScheduleRefused, <1>moves, OrphanFrame, RowEdit
  DEF ScheduleRefused, StillThisProvision, Still, Reserved, TypeOK, rowVars, labsVars
<1>ScheduleProvision. ASSUME NEW p \in Procs, ScheduleProvision(p) PROVE NoOrphanVm'
  <2>1. Scheduled(p) \/ UNCHANGED provision
    BY <1>ScheduleProvision, ScheduleEffect
  <2>2. \A l \in LabIds : Reserved(l) => Reserved(l)'
    BY <2>1 DEF Scheduled, Reserved
  <2> QED
    BY <1>ScheduleProvision, <1>moves, <2>2, OrphanFrame
    DEF ScheduleProvision, labsVars, rowVars
<1>PostVm. ASSUME NEW p \in Procs, PostVm(p) PROVE NoOrphanVm'
  <2> DEFINE t == job[p].lab
  <2>1. t \in LabIds /\ Reserved(t)
    BY <1>PostVm DEF PostVm, At, HeldOK, PostsAgree, CallAgrees
  <2>2. UNCHANGED <<workspace, provision, vm>> /\ post' = [post EXCEPT ![t] = "inflight"]
    BY <1>PostVm DEF PostVm, rowVars
  <2> QED
    BY <2>1, <2>2 DEF NoOrphanVm, Reserved, Exists, TypeOK
<1>CreateVmFails. ASSUME NEW p \in Procs, CreateVmFails(p) PROVE NoOrphanVm'
  BY <1>CreateVmFails, <1>moves, OrphanFrame, RowEdit
  DEF CreateVmFails, StillThisProvision, Still, Reserved, TypeOK, rowVars, labsVars
<1>CreateVmAnswers. ASSUME NEW p \in Procs, CreateVmAnswers(p) PROVE NoOrphanVm'
  <2>1. \A k \in LabIds : Reserved(k) => Reserved(k)'
    BY <1>CreateVmAnswers DEF CreateVmAnswers, At, HeldOK, Reserved, TypeOK,
       ProvisionRows
  <2> QED
    BY <1>CreateVmAnswers, <1>moves, <2>1, OrphanFrame DEF CreateVmAnswers, labsVars,
       rowVars
<1>Attach. ASSUME NEW p \in Procs, Attach(p) PROVE NoOrphanVm'
  <2>1. Wins(p) \/ UNCHANGED <<workspace, provision>>
    BY <1>Attach, AttachEffect
  <2>2. CASE Wins(p)
    <3>1. workspace.lab = NoLab
      BY <2>2 DEF Wins, StillThisProvision, Still, RowKeepsItsMachine
    <3> QED
      BY <1>Attach, <2>2, <3>1, NoLabOutside DEF Attach, Wins, NoOrphanVm, Reserved,
         Exists, labsVars
  <2>3. CASE UNCHANGED <<workspace, provision>>
    BY <1>Attach, <1>moves, <2>3, OrphanFrame DEF Attach, labsVars, Reserved
  <2> QED
    BY <2>1, <2>2, <2>3
<1>Claim. ASSUME NEW p \in Procs, Claim(p) PROVE NoOrphanVm'
  <2>1. \A k \in LabIds : Reserved(k) => Reserved(k)'
    BY <1>Claim, ClaimedEffect DEF Claim, At, HeldOK, Reserved
  <2> QED
    BY <1>Claim, <1>moves, <2>1, OrphanFrame DEF Claim, labsVars, rowVars
<1>SweepProvision. ASSUME NEW p \in Procs, NEW l \in LabIds, SweepProvision(p, l)
      PROVE NoOrphanVm'
  <2>1. \A k \in LabIds : Reserved(k) => Reserved(k)'
    BY <1>SweepProvision, ClaimedEffect DEF SweepProvision, At, HeldOK, Reserved
  <2> QED
    BY <1>SweepProvision, <1>moves, <2>1, OrphanFrame DEF SweepProvision, labsVars,
       rowVars
<1>CleanDelete. ASSUME NEW p \in Procs, CleanDelete(p) PROVE NoOrphanVm'
  BY <1>CleanDelete, <1>moves, OrphanFrame, RowEdit
  DEF CleanDelete, Reserved, TypeOK, rowVars, labsVars
<1>CleanConfirmed. ASSUME NEW p \in Procs, CleanConfirmed(p) PROVE NoOrphanVm'
  BY <1>CleanConfirmed, <1>moves, OrphanFrame, RowEdit
  DEF CleanConfirmed, Reserved, TypeOK, rowVars, labsVars
<1>CleanFails. ASSUME NEW p \in Procs, CleanFails(p) PROVE NoOrphanVm'
  BY <1>CleanFails, <1>moves, OrphanFrame, RowEdit
  DEF CleanFails, Reserved, TypeOK, rowVars, labsVars
<1>CleanWrite. ASSUME NEW p \in Procs, CleanWrite(p) PROVE NoOrphanVm'
  <2> DEFINE t == job[p].lab
  <2>1. UNCHANGED <<workspace, post, vm>>
    BY <1>CleanWrite DEF CleanWrite, labsVars, rowVars
  <2>2. CASE UNCHANGED provision
    BY <1>moves, <2>1, <2>2, OrphanFrame DEF Reserved
  <2>3. CASE job[p].settled /\ provision' = [provision EXCEPT ![t] = NoProvision]
    <3>1. post[t] = "created" /\ ~Exists(t)
      BY <1>CleanWrite, <2>3 DEF CleanWrite, At, PostsAgree, CallAgrees
    <3> QED
      BY <2>1, <2>3, <3>1 DEF NoOrphanVm, Reserved, Exists, TypeOK
  <2> QED
    BY <1>CleanWrite, <2>2, <2>3 DEF CleanWrite
<1>Restart. ASSUME NEW p \in Procs, Restart(p) PROVE NoOrphanVm'
  <2>1. UNCHANGED workspace \/ workspace' = [workspace EXCEPT !.status = "RESETTING"]
    BY <1>Restart DEF Restart
  <2>2. UNCHANGED <<provision, post>>
    BY <1>Restart DEF Restart, labsVars
  <2> QED
    BY <1>moves, <2>1, <2>2, OrphanFrame, RowEdit DEF Reserved
<1>SweepReset. ASSUME NEW p \in Procs, SweepReset(p) PROVE NoOrphanVm'
  BY <1>SweepReset, <1>moves, OrphanFrame, RowEdit
  DEF SweepReset, Reserved, TypeOK, rowVars, labsVars
<1>ResetDeferred. ASSUME NEW p \in Procs, ResetDeferred(p) PROVE NoOrphanVm'
  BY <1>ResetDeferred, <1>moves, OrphanFrame, RowEdit
  DEF ResetDeferred, Reserved, TypeOK, rowVars, labsVars
<1>ResetDelete. ASSUME NEW p \in Procs, ResetDelete(p) PROVE NoOrphanVm'
  BY <1>ResetDelete, <1>moves, OrphanFrame, RowEdit
  DEF ResetDelete, Reserved, TypeOK, rowVars, labsVars
<1>ResetConfirmed. ASSUME NEW p \in Procs, ResetConfirmed(p) PROVE NoOrphanVm'
  BY <1>ResetConfirmed, <1>moves, OrphanFrame, RowEdit
  DEF ResetConfirmed, Reserved, TypeOK, rowVars, labsVars
<1>ResetFails. ASSUME NEW p \in Procs, ResetFails(p) PROVE NoOrphanVm'
  BY <1>ResetFails, <1>moves, OrphanFrame, RowEdit
  DEF ResetFails, Reserved, TypeOK, rowVars, labsVars
<1>ResetWrite. ASSUME NEW p \in Procs, ResetWrite(p) PROVE NoOrphanVm'
  <2>1. UNCHANGED <<provision, post, vm>>
    BY <1>ResetWrite DEF ResetWrite, labsVars
  <2>2. CASE UNCHANGED workspace
    BY <1>moves, <2>1, <2>2, OrphanFrame DEF Reserved
  <2>3. CASE Still(p, "RESETTING")
    <3>1. workspace.lab # NoLab => ~Exists(workspace.lab) /\ post[workspace.lab] = "created"
      BY <1>ResetWrite, <2>3
      DEF ResetWrite, Still, HeldRowsAgree, HeldRowAgrees, RowKeepsItsMachine
    <3> QED
      BY <2>1, <3>1, NoLabOutside DEF NoOrphanVm, Reserved, Exists
  <2> QED
    BY <1>ResetWrite, <2>2, <2>3 DEF ResetWrite
<1>Stop. ASSUME NEW p \in Procs, Stop(p) PROVE NoOrphanVm'
  BY <1>Stop, <1>moves, OrphanFrame, RowEdit
  DEF Stop, HoldRow, Reserved, TypeOK, rowVars, labsVars
<1>StopVmAnswers. ASSUME NEW p \in Procs, StopVmAnswers(p) PROVE NoOrphanVm'
  BY <1>StopVmAnswers, <1>moves, OrphanFrame, RowEdit
  DEF StopVmAnswers, Reserved, TypeOK, rowVars, labsVars
<1>StopVmFails. ASSUME NEW p \in Procs, StopVmFails(p) PROVE NoOrphanVm'
  BY <1>StopVmFails, <1>moves, OrphanFrame, RowEdit
  DEF StopVmFails, Reserved, TypeOK, rowVars, labsVars
<1>StopWrite. ASSUME NEW p \in Procs, StopWrite(p) PROVE NoOrphanVm'
  BY <1>StopWrite, <1>moves, OrphanFrame, RowEdit
  DEF StopWrite, Still, Reserved, TypeOK, rowVars, labsVars
<1>MarkVmMissing. ASSUME NEW p \in Procs, MarkVmMissing(p) PROVE NoOrphanVm'
  BY <1>MarkVmMissing, <1>moves, OrphanFrame, RowEdit
  DEF MarkVmMissing, Still, Reserved, TypeOK, rowVars, labsVars
<1>Start. ASSUME NEW p \in Procs, Start(p) PROVE NoOrphanVm'
  BY <1>Start, <1>moves, OrphanFrame, RowEdit
  DEF Start, Reserved, TypeOK, rowVars, labsVars
<1>StartRead. ASSUME NEW p \in Procs, StartRead(p) PROVE NoOrphanVm'
  BY <1>StartRead, <1>moves, OrphanFrame, RowEdit
  DEF StartRead, HoldRow, Reserved, TypeOK, rowVars, labsVars
<1>StartVmAnswers. ASSUME NEW p \in Procs, StartVmAnswers(p) PROVE NoOrphanVm'
  BY <1>StartVmAnswers, <1>moves, OrphanFrame, RowEdit
  DEF StartVmAnswers, Reserved, TypeOK, rowVars, labsVars
<1>StartVmFails. ASSUME NEW p \in Procs, StartVmFails(p) PROVE NoOrphanVm'
  BY <1>StartVmFails, <1>moves, OrphanFrame, RowEdit
  DEF StartVmFails, Reserved, TypeOK, rowVars, labsVars
<1>StartWrite. ASSUME NEW p \in Procs, StartWrite(p) PROVE NoOrphanVm'
  BY <1>StartWrite, <1>moves, OrphanFrame, RowEdit
  DEF StartWrite, Still, Reserved, TypeOK, rowVars, labsVars
<1>RebuildMissingVm. ASSUME NEW p \in Procs, RebuildMissingVm(p) PROVE NoOrphanVm'
  <2>1. Reprovisioned(p, "STOPPED") \/ UNCHANGED workspace
    BY <1>RebuildMissingVm, ReprovisionEffect DEF RebuildMissingVm, Statuses
  <2> QED
    BY <1>RebuildMissingVm, <1>moves, <2>1, OrphanFrame DEF RebuildMissingVm,
       Reprovisioned, labsVars, Reserved
<1>Crash. ASSUME NEW p \in Procs, Crash(p) PROVE NoOrphanVm'
  BY <1>Crash, <1>moves, OrphanFrame, RowEdit
  DEF Crash, Reserved, TypeOK, rowVars, labsVars
<1>ExpireCreating. CASE ExpireCreating
  BY <1>ExpireCreating, <1>moves, OrphanFrame, RowEdit
  DEF ExpireCreating, Reserved, TypeOK, rowVars, labsVars
<1>Enroll. CASE Enroll
  BY <1>Enroll, <1>moves, OrphanFrame, RowEdit
  DEF Enroll, Reserved, TypeOK, rowVars, labsVars
<1>LabsCreates. ASSUME NEW l \in LabIds, LabsCreates(l) PROVE NoOrphanVm'
  BY <1>LabsCreates, <1>moves, OrphanFrame, RowEdit
  DEF LabsCreates, Reserved, TypeOK, rowVars, labsVars
<1>LabsRefuses. ASSUME NEW l \in LabIds, LabsRefuses(l) PROVE NoOrphanVm'
  BY <1>LabsRefuses, <1>moves, OrphanFrame, RowEdit
  DEF LabsRefuses, Reserved, TypeOK, rowVars, labsVars
<1>LabsDeletes. ASSUME NEW l \in LabIds, LabsDeletes(l) PROVE NoOrphanVm'
  BY <1>LabsDeletes, <1>moves, OrphanFrame, RowEdit
  DEF LabsDeletes, Reserved, TypeOK, rowVars, labsVars
<1>GuestPowersOff. ASSUME NEW l \in LabIds, GuestPowersOff(l) PROVE NoOrphanVm'
  BY <1>GuestPowersOff, <1>moves, OrphanFrame, RowEdit
  DEF GuestPowersOff, Reserved, TypeOK, rowVars, labsVars
<1>HostLosesVm. ASSUME NEW l \in LabIds, HostLosesVm(l) PROVE NoOrphanVm'
  BY <1>HostLosesVm, <1>moves, OrphanFrame, RowEdit
  DEF HostLosesVm, Reserved, TypeOK, rowVars, labsVars
<1>unchanged. CASE UNCHANGED vars
  BY <1>unchanged, <1>moves, OrphanFrame DEF vars, Reserved
<1> QED
  BY <1>Create, <1>CreateRetry, <1>CreateInsert, <1>ScheduleRefused,
     <1>ScheduleProvision, <1>PostVm, <1>CreateVmFails, <1>CreateVmAnswers,
     <1>Attach, <1>Claim, <1>SweepProvision, <1>CleanDelete, <1>CleanConfirmed,
     <1>CleanFails, <1>CleanWrite, <1>Restart, <1>SweepReset, <1>ResetDeferred,
     <1>ResetDelete, <1>ResetConfirmed, <1>ResetFails, <1>ResetWrite, <1>Stop,
     <1>StopVmAnswers, <1>StopVmFails, <1>StopWrite, <1>MarkVmMissing,
     <1>Start, <1>StartRead, <1>StartVmAnswers, <1>StartVmFails, <1>StartWrite,
     <1>RebuildMissingVm, <1>Crash, <1>ExpireCreating, <1>Enroll,
     <1>LabsCreates, <1>LabsRefuses, <1>LabsDeletes, <1>GuestPowersOff,
     <1>HostLosesVm, <1>unchanged
  DEF Next, Step, CreateSteps, ProvisionSteps, CleanupSteps, ResetSteps,
      StopSteps, StartSteps, Labs

LEMMA CustodyInit == Init => CustodyInv
<1> SUFFICES ASSUME Init PROVE CustodyInv
  OBVIOUS
<1>1. SafetyInv /\ TypeOK
  BY InitSafe DEF SafetyInv
<1>2. \A l \in LabIds : ~Exists(l) /\ post[l] = "none" /\ ~provision[l].settled
  BY DEF Init, Exists, NoProvision
<1>3. NoOrphanVm
  BY <1>2 DEF NoOrphanVm
<1>4. PostsAgree
  BY <1>2 DEF Init, PostsAgree, PostIsAccountedFor, CallAgrees, At
<1>5. RowKeepsItsMachine
  BY NoRowValues DEF Init, RowKeepsItsMachine
<1>6. HeldRowsAgree
  BY NoJobValues DEF Init, HeldRowsAgree, HeldRowAgrees, At
<1> QED
  BY <1>1, <1>3, <1>4, <1>5, <1>6 DEF CustodyInv

LEMMA CustodyInvStep == ~HostMayLoseVms /\ CustodyInv /\ [Next]_vars => CustodyInv'
<1> SUFFICES ASSUME ~HostMayLoseVms, CustodyInv, [Next]_vars PROVE CustodyInv'
  OBVIOUS
<1>1. SafetyInv'
  BY SafetyStep DEF CustodyInv
<1>2. NoOrphanVm'
  BY OrphanStep DEF CustodyInv, SafetyInv
<1>3. PostsAgree'
  BY PostsStep DEF CustodyInv, SafetyInv
<1>4. RowKeepsItsMachine'
  BY MachineOfRowStep DEF CustodyInv, SafetyInv
<1>5. HeldRowsAgree'
  BY HeldRowsStep DEF CustodyInv, SafetyInv
<1> QED
  BY <1>1, <1>2, <1>3, <1>4, <1>5 DEF CustodyInv

\* The inductive invariant of custody, where the host loses no machine: every
\* request to Labs is accounted for, the row keeps its machine, and whoever
\* finds its row again finds the same machine.
THEOREM CustodyHolds == ASSUME ~HostMayLoseVms PROVE Spec => []CustodyInv
<1>1. Init => CustodyInv
  BY CustodyInit
<1>2. CustodyInv /\ [Next]_vars => CustodyInv'
  BY CustodyInvStep
<1> QED
  BY <1>1, <1>2, PTL DEF Spec

\* Where the host loses no machine, every machine Labs has, or may still make,
\* is named by the workspace row or by a clean-up record.
THEOREM NoOrphan == ASSUME ~HostMayLoseVms PROVE Spec => []NoOrphanVm
<1>1. CustodyInv => NoOrphanVm
  BY DEF CustodyInv
<1> QED
  BY <1>1, CustodyHolds, PTL

-----------------------------------------------------------------------------
(* The service implements VmCustody *)

LEMMA CustodyOf == \A l \in LabIds : custody[l] =
    IF workspace.lab = l /\ workspace.status # "RESETTING" THEN "attached"
    ELSE IF provision[l].status = "PENDING" /\ Welcome(l) THEN "pending"
    ELSE IF Reserved(l) \/ workspace.lab = l THEN "condemned"
    ELSE IF post[l] = "none" THEN "unborn" ELSE "gone"
  BY DEF custody

LEMMA CustodyOfNext == \A l \in LabIds : custody'[l] =
    IF workspace'.lab = l /\ workspace'.status # "RESETTING" THEN "attached"
    ELSE IF provision'[l].status = "PENDING" /\ Welcome(l)' THEN "pending"
    ELSE IF Reserved(l)' \/ workspace'.lab = l THEN "condemned"
    ELSE IF post'[l] = "none" THEN "unborn" ELSE "gone"
  BY DEF custody

LEMMA CustodyIsFunction ==
    /\ custody = [l \in LabIds |-> custody[l]]
    /\ custody' = [l \in LabIds |-> custody'[l]]
  BY DEF custody

ExistenceStays == \A l \in LabIds : Exists(l)' <=> Exists(l)

LEMMA ExistenceSame ==
  ASSUME ExistenceStays
  PROVE  [l \in LabIds |-> Exists(l)]' = [l \in LabIds |-> Exists(l)]
<1> DEFINE e == [l \in LabIds |-> Exists(l)]
           f == [l \in LabIds |-> Exists(l)']
<1>1. \A l \in LabIds : Exists(l) = Exists(l)'
  BY DEF ExistenceStays, Exists
<1> QED
  BY <1>1

CustodyStep == [Custody!Next]_(Custody!vars)

LEMMA CustodyStutter ==
  ASSUME \A l \in LabIds : custody'[l] = custody[l], ExistenceStays PROVE CustodyStep
<1>1. custody' = custody
  BY CustodyIsFunction
<1> QED
  BY <1>1, ExistenceSame DEF CustodyStep, Custody!vars

LEMMA OneMove ==
  ASSUME NEW m \in LabIds, NEW c, custody'[m] = c,
         \A l \in LabIds \ {m} : custody'[l] = custody[l]
  PROVE  custody' = [custody EXCEPT ![m] = c]
  BY CustodyIsFunction

\* The changes of custody that the abstract machine allows.
Allowed(m) ==
    \/ custody[m] = "unborn" /\ custody'[m] = "pending"
    \/ custody[m] = "pending" /\ custody'[m] = "attached" /\ Exists(m)
    \/ custody[m] \in {"pending", "attached"} /\ custody'[m] = "condemned"
    \/ custody[m] = "condemned" /\ custody'[m] = "gone" /\ ~Exists(m)
    \/ custody'[m] = custody[m]

LEMMA CustodyMoves ==
  ASSUME NEW m \in LabIds, Allowed(m), ExistenceStays,
         \A l \in LabIds \ {m} : custody'[l] = custody[l]
  PROVE  CustodyStep
<1> DEFINE e == [l \in LabIds |-> Exists(l)]
<1>1. e' = e
  BY ExistenceSame
<1>2. e[m] = Exists(m)
  OBVIOUS
<1>3. CASE custody'[m] = custody[m]
  BY <1>3, CustodyStutter
<1>4. custody' = [custody EXCEPT ![m] = custody'[m]]
  BY OneMove
<1> HIDE DEF e
<1>5. CASE custody[m] = "unborn" /\ custody'[m] = "pending"
  <2>1. Custody!Reserve(m)
    BY <1>1, <1>4, <1>5 DEF Custody!Reserve, Custody!Move, e
  <2> QED
    BY <2>1 DEF CustodyStep, Custody!Next
<1>6. CASE custody[m] = "pending" /\ custody'[m] = "attached" /\ Exists(m)
  <2>1. Custody!Attach(m)
    BY <1>1, <1>2, <1>4, <1>6 DEF Custody!Attach, Custody!Move, e
  <2> QED
    BY <2>1 DEF CustodyStep, Custody!Next
<1>7. CASE custody[m] \in {"pending", "attached"} /\ custody'[m] = "condemned"
  <2>1. Custody!Condemn(m)
    BY <1>1, <1>4, <1>7 DEF Custody!Condemn, Custody!Move, e
  <2> QED
    BY <2>1 DEF CustodyStep, Custody!Next
<1>8. CASE custody[m] = "condemned" /\ custody'[m] = "gone" /\ ~Exists(m)
  <2>1. Custody!Release(m)
    BY <1>1, <1>2, <1>4, <1>8 DEF Custody!Release, Custody!Move, e
  <2> QED
    BY <2>1 DEF CustodyStep, Custody!Next
<1> QED
  BY <1>3, <1>5, <1>6, <1>7, <1>8 DEF Allowed

\* Custody sees of the row its machine, whether it was given up, and the
\* creation it waits for; of the records their status.
LEMMA CustodyFrame ==
  ASSUME workspace'.lab = workspace.lab,
         workspace.lab \in LabIds =>
            (workspace'.status = "RESETTING" <=> workspace.status = "RESETTING"),
         \A l \in LabIds : provision'[l].status = provision[l].status,
         \A l \in LabIds : provision[l].status = "PENDING" => (Welcome(l)' <=> Welcome(l)),
         \A l \in LabIds : (post'[l] = "none" <=> post[l] = "none") \/ Reserved(l),
         ExistenceStays
  PROVE  CustodyStep
<1>1. ASSUME NEW l \in LabIds PROVE custody'[l] = custody[l]
  <2>1. Reserved(l)' <=> Reserved(l)
    BY DEF Reserved
  <2>2. provision[l].status = "PENDING" => Reserved(l)
    BY DEF Reserved
  <2> QED
    BY <2>1, <2>2, CustodyOf, CustodyOfNext
<1> QED
  BY <1>1, CustodyStutter

LEMMA CustodyUntouched ==
  ASSUME UNCHANGED <<workspace, provision, post>>, ExistenceStays PROVE CustodyStep
<1>1. \A l : Welcome(l)' <=> Welcome(l)
  BY DEF Welcome
<1> QED
  BY <1>1, CustodyFrame

\* A row that starts to wait waits for a machine nobody asked for before.
LEMMA CustodyOfNewRow ==
  ASSUME TypeOK, NothingUnissued, NEW t \in LabIds, ~Issued(t),
         LabOf(workspace'.row, workspace'.generation) = t,
         workspace.status \notin {"CREATING", "RESETTING"}, workspace'.status = "CREATING",
         workspace'.lab = workspace.lab, UNCHANGED <<provision, post, vm>>
  PROVE  CustodyStep
<1>1. ASSUME NEW l \in LabIds, provision[l].status = "PENDING"
      PROVE ~Welcome(l)' /\ ~Welcome(l)
  <2>1. Issued(l)
    BY <1>1 DEF NothingUnissued, Reserved
  <2> QED
    BY <2>1 DEF Welcome
<1> QED
  BY <1>1, CustodyFrame DEF ExistenceStays, Exists

\* The row gives up what it waits for, or its machine.
LEMMA CustodyOfGivenUp ==
  ASSUME TypeOK, HeldOK, RowKeepsItsMachine, NEW st \in {"ERROR", "RESETTING"},
         workspace.status # "NONE", workspace' = [workspace EXCEPT !.status = st],
         st = "ERROR" => workspace.status = "CREATING",
         UNCHANGED <<provision, post, vm>>
  PROVE  CustodyStep
<1>1. workspace \in Rows /\ workspace'.lab = workspace.lab /\ workspace'.status = st
  BY RowOrNone, RowEdit
<1>2. ExistenceStays /\ \A l : Reserved(l)' <=> Reserved(l)
  BY DEF ExistenceStays, Exists, Reserved
<1>3. \A l : ~Welcome(l)'
  BY <1>1 DEF Welcome
<1>4. CASE workspace.status = "CREATING"
  <2> DEFINE t == LabOf(workspace.row, workspace.generation)
  <2>1. t \in LabIds /\ workspace.lab = NoLab
    BY <1>1, <1>4, LabTypes DEF Rows, RowKeepsItsMachine
  <2>2. \A l : Welcome(l) => l = t
    BY DEF Welcome
  <2> HIDE DEF t
  <2>3. \A l \in LabIds \ {t} : custody'[l] = custody[l]
    BY <1>1, <1>2, <1>3, <2>1, <2>2, CustodyOf, CustodyOfNext, NoLabOutside
  <2>4. provision[t].status = "PENDING" => Reserved(t)
    BY DEF Reserved
  <2>5. Allowed(t)
    BY <1>1, <1>2, <1>3, <2>1, <2>4, CustodyOf, CustodyOfNext, NoLabOutside DEF Allowed
  <2> QED
    BY <1>2, <2>1, <2>3, <2>5, CustodyMoves
<1>5. CASE workspace.status \in {"RUNNING", "STOPPED"}
  <2>1. workspace.lab \in LabIds /\ st = "RESETTING" /\ \A l : ~Welcome(l)
    BY <1>5 DEF HeldOK, Welcome
  <2>2. \A l \in LabIds : l # workspace.lab => custody'[l] = custody[l]
    BY <1>1, <1>2, <1>3, <2>1, CustodyOf, CustodyOfNext
  <2>3. \A l \in LabIds : l = workspace.lab => Allowed(l)
    BY <1>1, <1>2, <1>3, <1>5, <2>1, CustodyOf, CustodyOfNext DEF Allowed
  <2> QED
    BY <1>2, <2>1, <2>2, <2>3, CustodyMoves
<1>6. CASE workspace.status \in {"ERROR", "RESETTING"}
  <2>1. workspace.status = "ERROR" => workspace.lab \notin LabIds
    BY NoLabOutside DEF RowKeepsItsMachine
  <2>2. st = "RESETTING" /\ \A l : ~Welcome(l)
    BY <1>6 DEF Welcome
  <2> QED
    BY <1>1, <1>2, <1>3, <1>6, <2>1, <2>2, CustodyFrame
<1> QED
  BY <1>1, <1>4, <1>5, <1>6 DEF Rows, Statuses

LEMMA CustodyOfClaim ==
  ASSUME TypeOK, NEW t \in LabIds, Reserved(t), provision' = Claimed(t),
         UNCHANGED <<workspace, post, vm>>
  PROVE  CustodyStep
<1>1. /\ provision'[t].status = "CLEANUP"
      /\ \A l \in LabIds \ {t} : provision'[l] = provision[l]
  BY ClaimedEffect
<1>2. /\ \A l : Welcome(l)' <=> Welcome(l)
      /\ \A l \in LabIds \ {t} : Reserved(l)' <=> Reserved(l)
      /\ \A l \in LabIds : l = t => Reserved(l)'
      /\ ExistenceStays
  BY <1>1 DEF Welcome, Reserved, ExistenceStays, Exists
<1>3. \A l \in LabIds \ {t} : custody'[l] = custody[l]
  BY <1>1, <1>2, CustodyOf, CustodyOfNext
<1>4. Allowed(t)
  BY <1>1, <1>2, CustodyOf, CustodyOfNext DEF Allowed
<1> QED
  BY <1>2, <1>3, <1>4, CustodyMoves

LEMMA ImplementsStep ==
  ASSUME ~HostMayLoseVms, CustodyInv, [Next]_vars PROVE CustodyStep
<1>inv. /\ TypeOK /\ HeldOK /\ NothingUnissued /\ OneCreatorEach /\ AttachedIsExclusive
        /\ NoOrphanVm /\ PostsAgree /\ RowKeepsItsMachine /\ HeldRowsAgree
  BY DEF CustodyInv, SafetyInv
<1>Create. ASSUME NEW p \in Procs, Create(p) PROVE CustodyStep
  BY <1>Create, CustodyUntouched
  DEF Create, ExistenceStays, Exists, rowVars, labsVars
<1>CreateRetry. ASSUME NEW p \in Procs, CreateRetry(p) PROVE CustodyStep
  <2>1. Reprovisioned(p, "ERROR") \/ UNCHANGED workspace
    BY <1>CreateRetry, <1>inv, ReprovisionEffect DEF CreateRetry, Statuses
  <2>2. UNCHANGED <<provision, post, vm>>
    BY <1>CreateRetry DEF CreateRetry, labsVars
  <2>3. CASE Reprovisioned(p, "ERROR")
    <3> DEFINE t == LabOf(workspace.row, workspace.generation + 1)
    <3>1. t \in LabIds /\ ~Issued(t)
      BY <1>inv, <2>3, LabTypes, BoundsAssumption
      DEF Reprovisioned, Issued, LabOf, Rows, Provisions
    <3>2. LabOf(workspace'.row, workspace'.generation) = t
      BY <2>3 DEF Reprovisioned
    <3> HIDE DEF t
    <3> QED
      BY <1>inv, <2>2, <2>3, <3>1, <3>2, CustodyOfNewRow DEF Reprovisioned
  <2> QED
    BY <2>1, <2>2, <2>3, CustodyUntouched DEF ExistenceStays, Exists
<1>CreateInsert. ASSUME NEW p \in Procs, CreateInsert(p) PROVE CustodyStep
  <2> DEFINE t == LabOf(nextRow, 0)
  <2>1. t \in LabIds /\ ~Issued(t)
    BY <1>CreateInsert, <1>inv, LabTypes, Successors, Zeros, NextRowIsInt
    DEF CreateInsert, Issued, LabOf, TypeOK
  <2>2. workspace'.lab = NoLab /\ workspace'.status = "CREATING" /\ workspace.lab = NoLab
        /\ LabOf(workspace'.row, workspace'.generation) = t
    BY <1>CreateInsert, <1>inv, NoRowValues DEF CreateInsert, TypeOK, Rows, Statuses,
       NoRow
  <2>3. UNCHANGED <<provision, post, vm>> /\ workspace.status = "NONE"
    BY <1>CreateInsert DEF CreateInsert, labsVars
  <2> HIDE DEF t
  <2> QED
    BY <1>inv, <2>1, <2>2, <2>3, CustodyOfNewRow
<1>ScheduleRefused. ASSUME NEW p \in Procs, ScheduleRefused(p) PROVE CustodyStep
  <2>1. UNCHANGED <<provision, post, vm>>
    BY <1>ScheduleRefused DEF ScheduleRefused, labsVars
  <2>2. CASE UNCHANGED workspace
    BY <2>1, <2>2, CustodyUntouched DEF ExistenceStays, Exists
  <2>3. CASE StillThisProvision(p)
    <3>1. Creator(p) /\ ~Reserved(Target(p)) /\ workspace.lab = NoLab
      BY <1>ScheduleRefused, <1>inv, <2>3
      DEF ScheduleRefused, At, Creator, OneCreatorEach, RowKeepsItsMachine,
          StillThisProvision, Still
    <3>2. workspace'.lab = workspace.lab /\ workspace'.status = "RESETTING"
      BY <1>ScheduleRefused, <1>inv, <2>3
      DEF ScheduleRefused, TypeOK, Rows, NoRow
    <3>3. \A l \in LabIds : provision[l].status = "PENDING" => ~Welcome(l)' /\ ~Welcome(l)
      BY <2>3, <3>1, <3>2 DEF Welcome, StillThisProvision, Still, Target, Reserved
    <3> QED
      BY <2>1, <3>1, <3>2, <3>3, NoLabOutside, CustodyFrame DEF ExistenceStays, Exists
  <2> QED
    BY <1>ScheduleRefused, <2>2, <2>3 DEF ScheduleRefused
<1>ScheduleProvision. ASSUME NEW p \in Procs, ScheduleProvision(p) PROVE CustodyStep
  <2>1. Scheduled(p) \/ UNCHANGED provision
    BY <1>ScheduleProvision, <1>inv, ScheduleEffect
  <2>2. UNCHANGED <<workspace, post, vm>> /\ At(p, "schedule")
    BY <1>ScheduleProvision DEF ScheduleProvision, labsVars, rowVars
  <2>3. ExistenceStays /\ \A l : Welcome(l)' <=> Welcome(l)
    BY <2>2 DEF ExistenceStays, Exists, Welcome
  <2>4. CASE Scheduled(p)
    <3>1. PICK t \in LabIds : t = Target(p)
      BY <2>4 DEF Scheduled
    <3>2. /\ ~Reserved(t) /\ post[t] = "none" /\ workspace.lab # t
          /\ Welcome(t) /\ provision'[t].status = "PENDING"
          /\ \A l \in LabIds \ {t} : provision'[l] = provision[l]
      BY <1>inv, <2>2, <2>4, <3>1, NoLabOutside
      DEF Scheduled, PostsAgree, CallAgrees, RowKeepsItsMachine, Welcome,
          StillThisProvision, Still, Target
    <3>3. \A l \in LabIds \ {t} : custody'[l] = custody[l]
      BY <2>2, <2>3, <3>2, CustodyOf, CustodyOfNext DEF Reserved
    <3>4. Allowed(t)
      BY <2>2, <2>3, <3>2, CustodyOf, CustodyOfNext DEF Allowed, Reserved
    <3> QED
      BY <2>3, <3>3, <3>4, CustodyMoves
  <2> QED
    BY <2>1, <2>2, <2>3, <2>4, CustodyUntouched
<1>PostVm. ASSUME NEW p \in Procs, PostVm(p) PROVE CustodyStep
  <2>1. job[p].lab \in LabIds /\ Reserved(job[p].lab)
    BY <1>PostVm, <1>inv DEF PostVm, At, HeldOK, PostsAgree, CallAgrees
  <2>2. UNCHANGED <<workspace, provision, vm>>
        /\ \A l \in LabIds : l # job[p].lab => post'[l] = post[l]
    BY <1>PostVm, <1>inv DEF PostVm, rowVars, TypeOK
  <2> QED
    BY <2>1, <2>2, CustodyFrame DEF ExistenceStays, Exists, Welcome
<1>CreateVmFails. ASSUME NEW p \in Procs, CreateVmFails(p) PROVE CustodyStep
  <2>1. UNCHANGED <<provision, post, vm>>
    BY <1>CreateVmFails DEF CreateVmFails, labsVars
  <2>2. CASE UNCHANGED workspace
    BY <2>1, <2>2, CustodyUntouched DEF ExistenceStays, Exists
  <2>3. CASE StillThisProvision(p) /\ workspace' = [workspace EXCEPT !.status = "ERROR"]
    BY <1>inv, <2>1, <2>3, CustodyOfGivenUp DEF StillThisProvision, Still
  <2> QED
    BY <1>CreateVmFails, <2>2, <2>3 DEF CreateVmFails
<1>CreateVmAnswers. ASSUME NEW p \in Procs, CreateVmAnswers(p) PROVE CustodyStep
  <2>1. UNCHANGED <<workspace, post, vm>>
        /\ \A l \in LabIds : provision'[l].status = provision[l].status
    BY <1>CreateVmAnswers, <1>inv
    DEF CreateVmAnswers, At, HeldOK, TypeOK, ProvisionRows, NoProvision, rowVars,
        labsVars
  <2> QED
    BY <2>1, CustodyFrame DEF ExistenceStays, Exists, Welcome
<1>Attach. ASSUME NEW p \in Procs, Attach(p) PROVE CustodyStep
  <2>1. Wins(p) \/ UNCHANGED <<workspace, provision>>
    BY <1>Attach, <1>inv, AttachEffect
  <2>2. UNCHANGED <<post, vm>> /\ ExistenceStays
    BY <1>Attach DEF Attach, labsVars, ExistenceStays, Exists
  <2>3. CASE Wins(p)
    <3>1. PICK t \in LabIds : t = job[p].lab
      BY <2>3 DEF Wins
    <3>2. t = Target(p) /\ post[t] = "created" /\ provision[t].status = "PENDING"
      BY <1>Attach, <1>inv, <2>3, <3>1
      DEF Attach, At, Wins, OneCreatorEach, Creator, PostsAgree, CallAgrees
    <3>3. /\ Welcome(t) /\ \A l : Welcome(l) => l = t
          /\ \A l : ~Welcome(l)'
          /\ workspace.lab = NoLab /\ workspace'.lab = t /\ workspace'.status = "RUNNING"
          /\ \A l \in LabIds \ {t} : provision'[l] = provision[l]
      BY <1>inv, <2>3, <3>1, <3>2
      DEF Wins, Welcome, StillThisProvision, Still, Target, LabOf, RowKeepsItsMachine
    <3>4. Exists(t)
      BY <1>inv, <3>2, <3>3 DEF PostsAgree, PostIsAccountedFor, Attachable
    <3>5. \A l \in LabIds \ {t} : custody'[l] = custody[l]
      BY <2>2, <3>3, CustodyOf, CustodyOfNext, NoLabOutside DEF Reserved
    <3>6. Allowed(t)
      BY <3>2, <3>3, <3>4, CustodyOf, CustodyOfNext, NoLabOutside DEF Allowed
    <3> QED
      BY <2>2, <3>5, <3>6, CustodyMoves
  <2> QED
    BY <2>1, <2>2, <2>3, CustodyUntouched
<1>Claim. ASSUME NEW p \in Procs, Claim(p) PROVE CustodyStep
  <2>1. job[p].lab \in LabIds /\ UNCHANGED <<workspace, post, vm>>
    BY <1>Claim, <1>inv DEF Claim, At, HeldOK, labsVars, rowVars
  <2>2. \/ Reserved(job[p].lab) /\ provision' = Claimed(job[p].lab)
        \/ UNCHANGED provision
    BY <1>Claim DEF Claim
  <2> QED
    BY <1>inv, <2>1, <2>2, CustodyOfClaim, CustodyUntouched DEF ExistenceStays, Exists
<1>SweepProvision. ASSUME NEW p \in Procs, NEW l \in LabIds, SweepProvision(p, l)
      PROVE CustodyStep
  BY <1>SweepProvision, <1>inv, CustodyOfClaim DEF SweepProvision, labsVars, rowVars
<1>CleanDelete. ASSUME NEW p \in Procs, CleanDelete(p) PROVE CustodyStep
  BY <1>CleanDelete, CustodyUntouched
  DEF CleanDelete, ExistenceStays, Exists, rowVars, labsVars
<1>CleanConfirmed. ASSUME NEW p \in Procs, CleanConfirmed(p) PROVE CustodyStep
  BY <1>CleanConfirmed, CustodyUntouched
  DEF CleanConfirmed, ExistenceStays, Exists, rowVars, labsVars
<1>CleanFails. ASSUME NEW p \in Procs, CleanFails(p) PROVE CustodyStep
  BY <1>CleanFails, CustodyUntouched
  DEF CleanFails, ExistenceStays, Exists, rowVars, labsVars
<1>CleanWrite. ASSUME NEW p \in Procs, CleanWrite(p) PROVE CustodyStep
  <2>1. UNCHANGED <<workspace, post, vm>>
    BY <1>CleanWrite DEF CleanWrite, labsVars, rowVars
  <2>2. ExistenceStays /\ \A l : Welcome(l)' <=> Welcome(l)
    BY <2>1 DEF ExistenceStays, Exists, Welcome
  <2>3. CASE /\ job[p].settled /\ provision[job[p].lab].status = "CLEANUP"
             /\ provision' = [provision EXCEPT ![job[p].lab] = NoProvision]
    <3>1. PICK t \in LabIds : t = job[p].lab
      BY <1>CleanWrite, <1>inv DEF CleanWrite, At, HeldOK
    <3>2. post[t] = "created" /\ ~Exists(t)
      BY <1>CleanWrite, <1>inv, <2>3, <3>1 DEF CleanWrite, At, PostsAgree, CallAgrees
    <3>3. /\ Reserved(t) /\ provision[t].status # "PENDING" /\ provision'[t].status = "NONE"
          /\ \A l \in LabIds \ {t} : provision'[l] = provision[l]
      BY <1>inv, <2>3, <3>1, NoProvisionStatus DEF Reserved, TypeOK
    <3>4. \A l \in LabIds \ {t} : custody'[l] = custody[l]
      BY <2>1, <2>2, <3>3, CustodyOf, CustodyOfNext DEF Reserved
    <3>5. Allowed(t)
      BY <2>1, <2>2, <3>2, <3>3, CustodyOf, CustodyOfNext DEF Allowed, Reserved
    <3> QED
      BY <2>2, <3>4, <3>5, CustodyMoves
  <2> QED
    BY <1>CleanWrite, <2>1, <2>2, <2>3, CustodyUntouched DEF CleanWrite
<1>Restart. ASSUME NEW p \in Procs, Restart(p) PROVE CustodyStep
  <2>1. UNCHANGED <<provision, post, vm>>
    BY <1>Restart DEF Restart, labsVars
  <2>2. CASE UNCHANGED workspace
    BY <2>1, <2>2, CustodyUntouched DEF ExistenceStays, Exists
  <2>3. CASE workspace.status # "NONE" /\ workspace' = [workspace EXCEPT !.status = "RESETTING"]
    BY <1>inv, <2>1, <2>3, CustodyOfGivenUp
  <2> QED
    BY <1>Restart, <2>2, <2>3 DEF Restart
<1>SweepReset. ASSUME NEW p \in Procs, SweepReset(p) PROVE CustodyStep
  BY <1>SweepReset, CustodyUntouched
  DEF SweepReset, ExistenceStays, Exists, rowVars, labsVars
<1>ResetDeferred. ASSUME NEW p \in Procs, ResetDeferred(p) PROVE CustodyStep
  BY <1>ResetDeferred, CustodyUntouched
  DEF ResetDeferred, ExistenceStays, Exists, rowVars, labsVars
<1>ResetDelete. ASSUME NEW p \in Procs, ResetDelete(p) PROVE CustodyStep
  BY <1>ResetDelete, CustodyUntouched
  DEF ResetDelete, ExistenceStays, Exists, rowVars, labsVars
<1>ResetConfirmed. ASSUME NEW p \in Procs, ResetConfirmed(p) PROVE CustodyStep
  BY <1>ResetConfirmed, CustodyUntouched
  DEF ResetConfirmed, ExistenceStays, Exists, rowVars, labsVars
<1>ResetFails. ASSUME NEW p \in Procs, ResetFails(p) PROVE CustodyStep
  BY <1>ResetFails, CustodyUntouched
  DEF ResetFails, ExistenceStays, Exists, rowVars, labsVars
<1>ResetWrite. ASSUME NEW p \in Procs, ResetWrite(p) PROVE CustodyStep
  <2>1. UNCHANGED <<provision, post, vm>>
    BY <1>ResetWrite DEF ResetWrite, labsVars
  <2>2. ExistenceStays /\ \A l : Reserved(l)' <=> Reserved(l)
    BY <2>1 DEF ExistenceStays, Exists, Reserved
  <2>3. CASE workspace' = NoRow /\ Still(p, "RESETTING")
    <3>1. \A l : ~Welcome(l) /\ ~Welcome(l)'
      BY <2>3, NoRowValues DEF Welcome, Still
    <3>2. workspace'.lab = NoLab /\ workspace.status = "RESETTING"
      BY <2>3, NoRowValues DEF Still
    <3>3. \A l \in LabIds : l # workspace.lab => custody'[l] = custody[l]
      BY <2>1, <2>2, <3>1, <3>2, CustodyOf, CustodyOfNext, NoLabOutside
    <3>4. CASE workspace.lab = NoLab
      BY <2>2, <3>3, <3>4, NoLabOutside, CustodyStutter
    <3>5. CASE workspace.lab # NoLab
      <4>1. PICK t \in LabIds : t = workspace.lab
        BY <1>inv, <3>5, RowLab
      <4>2. ~Exists(t) /\ post[t] = "created"
        BY <1>ResetWrite, <1>inv, <2>3, <3>5, <4>1
        DEF ResetWrite, Still, HeldRowsAgree, HeldRowAgrees, RowKeepsItsMachine
      <4>3. Allowed(t)
        BY <2>1, <2>2, <3>1, <3>2, <4>1, <4>2, CustodyOf, CustodyOfNext, NoLabOutside
        DEF Allowed
      <4> QED
        BY <2>2, <3>3, <4>1, <4>3, CustodyMoves
    <3> QED
      BY <3>4, <3>5
  <2> QED
    BY <1>ResetWrite, <2>1, <2>2, <2>3, CustodyUntouched DEF ResetWrite
<1>Stop. ASSUME NEW p \in Procs, Stop(p) PROVE CustodyStep
  BY <1>Stop, CustodyUntouched
  DEF Stop, ExistenceStays, Exists, rowVars, labsVars
<1>StopVmAnswers. ASSUME NEW p \in Procs, StopVmAnswers(p) PROVE CustodyStep
  <2>1. UNCHANGED <<workspace, provision, post>> /\ ExistenceStays
    BY <1>StopVmAnswers, <1>inv DEF StopVmAnswers, ExistenceStays, Exists, TypeOK,
       rowVars
  <2> QED
    BY <2>1, CustodyUntouched
<1>StopVmFails. ASSUME NEW p \in Procs, StopVmFails(p) PROVE CustodyStep
  <2>1. UNCHANGED <<workspace, provision, post>> /\ ExistenceStays
    BY <1>StopVmFails, <1>inv DEF StopVmFails, ExistenceStays, Exists, TypeOK, rowVars
  <2> QED
    BY <2>1, CustodyUntouched
<1>StopWrite. ASSUME NEW p \in Procs, StopWrite(p) PROVE CustodyStep
  <2>1. UNCHANGED <<provision, post, vm>>
    BY <1>StopWrite DEF StopWrite, labsVars
  <2>2. CASE UNCHANGED workspace
    BY <2>1, <2>2, CustodyUntouched DEF ExistenceStays, Exists
  <2>3. CASE workspace.status = "RUNNING" /\ workspace' = [workspace EXCEPT !.status = "STOPPED"]
    BY <1>inv, <2>1, <2>3, RowEdit, CustodyFrame DEF ExistenceStays, Exists, Welcome
  <2> QED
    BY <1>StopWrite, <2>2, <2>3 DEF StopWrite, Still
<1>MarkVmMissing. ASSUME NEW p \in Procs, MarkVmMissing(p) PROVE CustodyStep
  <2>1. UNCHANGED workspace
    BY <1>MarkVmMissing, <1>inv DEF MarkVmMissing, Still, At, HeldRowsAgree,
       HeldRowAgrees
  <2> QED
    BY <1>MarkVmMissing, <2>1, CustodyUntouched
    DEF MarkVmMissing, labsVars, ExistenceStays, Exists
<1>Start. ASSUME NEW p \in Procs, Start(p) PROVE CustodyStep
  BY <1>Start, CustodyUntouched
  DEF Start, ExistenceStays, Exists, rowVars, labsVars
<1>StartRead. ASSUME NEW p \in Procs, StartRead(p) PROVE CustodyStep
  BY <1>StartRead, CustodyUntouched
  DEF StartRead, ExistenceStays, Exists, rowVars, labsVars
<1>StartVmAnswers. ASSUME NEW p \in Procs, StartVmAnswers(p) PROVE CustodyStep
  <2>1. UNCHANGED <<workspace, provision, post>> /\ ExistenceStays
    BY <1>StartVmAnswers, <1>inv DEF StartVmAnswers, ExistenceStays, Exists, TypeOK,
       rowVars
  <2> QED
    BY <2>1, CustodyUntouched
<1>StartVmFails. ASSUME NEW p \in Procs, StartVmFails(p) PROVE CustodyStep
  <2>1. UNCHANGED <<workspace, provision, post>> /\ ExistenceStays
    BY <1>StartVmFails, <1>inv DEF StartVmFails, ExistenceStays, Exists, TypeOK, rowVars
  <2> QED
    BY <2>1, CustodyUntouched
<1>StartWrite. ASSUME NEW p \in Procs, StartWrite(p) PROVE CustodyStep
  <2>1. UNCHANGED <<provision, post, vm>>
    BY <1>StartWrite DEF StartWrite, labsVars
  <2>2. CASE UNCHANGED workspace
    BY <2>1, <2>2, CustodyUntouched DEF ExistenceStays, Exists
  <2>3. CASE workspace.status = "STOPPED" /\ workspace' = [workspace EXCEPT !.status = "RUNNING"]
    BY <1>inv, <2>1, <2>3, RowEdit, CustodyFrame DEF ExistenceStays, Exists, Welcome
  <2> QED
    BY <1>StartWrite, <2>2, <2>3 DEF StartWrite, Still
<1>RebuildMissingVm. ASSUME NEW p \in Procs, RebuildMissingVm(p) PROVE CustodyStep
  <2>1. Reprovisioned(p, "STOPPED") \/ UNCHANGED workspace
    BY <1>RebuildMissingVm, <1>inv, ReprovisionEffect DEF RebuildMissingVm, Statuses
  <2>2. workspace.row = job[p].row => workspace.status = "RESETTING"
    BY <1>RebuildMissingVm, <1>inv DEF RebuildMissingVm, At, HeldRowsAgree,
       HeldRowAgrees
  <2>3. UNCHANGED workspace
    BY <1>RebuildMissingVm, <2>1, <2>2 DEF RebuildMissingVm, Reprovisioned
  <2> QED
    BY <1>RebuildMissingVm, <2>3, CustodyUntouched
    DEF RebuildMissingVm, labsVars, ExistenceStays, Exists
<1>Crash. ASSUME NEW p \in Procs, Crash(p) PROVE CustodyStep
  BY <1>Crash, CustodyUntouched
  DEF Crash, ExistenceStays, Exists, rowVars, labsVars
<1>ExpireCreating. CASE ExpireCreating
  BY <1>ExpireCreating, <1>inv, CustodyOfGivenUp DEF ExpireCreating, labsVars
<1>Enroll. CASE Enroll
  BY <1>Enroll, CustodyUntouched
  DEF Enroll, ExistenceStays, Exists, rowVars, labsVars
<1>LabsCreates. ASSUME NEW l \in LabIds, LabsCreates(l) PROVE CustodyStep
  <2>1. /\ UNCHANGED <<workspace, provision>> /\ post[l] = "inflight" /\ post'[l] # "none"
        /\ \A k \in LabIds \ {l} : post'[k] = post[k]
        /\ \A k \in LabIds \ {l} : Exists(k)' <=> Exists(k)
        /\ vm' = [vm EXCEPT ![l] = "on"]
    BY <1>LabsCreates, <1>inv DEF LabsCreates, rowVars, TypeOK, Exists
  <2>2. Reserved(l) /\ ~Exists(l) /\ workspace.lab # l
    BY <1>inv, <2>1, NoLabOutside DEF PostsAgree, PostIsAccountedFor, RowKeepsItsMachine
  <2>3. \A k \in LabIds : custody'[k] = custody[k]
    BY <2>1, <2>2, CustodyOf, CustodyOfNext DEF Welcome, Reserved
  <2>4. custody' = custody /\ custody[l] \in {"pending", "condemned"}
    BY <2>2, <2>3, CustodyOf, CustodyIsFunction
  <2>5. [k \in LabIds |-> Exists(k)]' = [[k \in LabIds |-> Exists(k)] EXCEPT ![l] = TRUE]
    BY <2>1, <1>inv DEF Exists, TypeOK
  <2>6. Custody!Appear(l)
    BY <2>2, <2>4, <2>5 DEF Custody!Appear
  <2> QED
    BY <2>6 DEF CustodyStep, Custody!Next
<1>LabsRefuses. ASSUME NEW l \in LabIds, LabsRefuses(l) PROVE CustodyStep
  <2>1. /\ UNCHANGED <<workspace, provision, vm>> /\ post[l] = "inflight"
        /\ \A k \in LabIds \ {l} : post'[k] = post[k]
    BY <1>LabsRefuses, <1>inv DEF LabsRefuses, rowVars, TypeOK
  <2>2. Reserved(l)
    BY <1>inv, <2>1 DEF PostsAgree, PostIsAccountedFor
  <2> QED
    BY <2>1, <2>2, CustodyFrame DEF ExistenceStays, Exists, Welcome
<1>LabsDeletes. ASSUME NEW l \in LabIds, LabsDeletes(l) PROVE CustodyStep
  <2>1. /\ UNCHANGED <<workspace, provision, post>> /\ l \in deletes
        /\ \A k \in LabIds \ {l} : Exists(k)' <=> Exists(k)
        /\ vm' = [vm EXCEPT ![l] = "missing"]
    BY <1>LabsDeletes, <1>inv DEF LabsDeletes, rowVars, TypeOK, Exists
  <2>2. \A k \in LabIds : custody'[k] = custody[k]
    BY <2>1, CustodyOf, CustodyOfNext DEF Welcome, Reserved
  <2>3. CASE ~Exists(l)
    BY <1>inv, <2>1, <2>2, <2>3, CustodyStutter DEF ExistenceStays, Exists, TypeOK
  <2>4. CASE Exists(l)
    <3>1. ~Attached(l) /\ ~Attachable(l)
      BY <1>inv, <2>1 DEF AttachedIsExclusive
    <3>2. workspace.lab = l => workspace.status = "RESETTING"
      BY <1>inv, <3>1, NoLabOutside, NoRowValues
      DEF Attached, RowKeepsItsMachine, TypeOK, Rows, Statuses
    <3>3. custody[l] = "condemned"
      BY <1>inv, <2>4, <3>1, <3>2, CustodyOf DEF NoOrphanVm, Attachable
    <3>4. custody' = custody
      BY <2>2, CustodyIsFunction
    <3>5. [k \in LabIds |-> Exists(k)]' = [[k \in LabIds |-> Exists(k)] EXCEPT ![l] = FALSE]
      BY <2>1, <1>inv DEF Exists, TypeOK
    <3>6. Custody!Destroy(l)
      BY <3>3, <3>4, <3>5 DEF Custody!Destroy
    <3> QED
      BY <3>6 DEF CustodyStep, Custody!Next
  <2> QED
    BY <2>3, <2>4
<1>GuestPowersOff. ASSUME NEW l \in LabIds, GuestPowersOff(l) PROVE CustodyStep
  <2>1. UNCHANGED <<workspace, provision, post>> /\ ExistenceStays
    BY <1>GuestPowersOff, <1>inv DEF GuestPowersOff, ExistenceStays, Exists, TypeOK,
       rowVars
  <2> QED
    BY <2>1, CustodyUntouched
<1>HostLosesVm. ASSUME NEW l \in LabIds, HostLosesVm(l) PROVE CustodyStep
  BY <1>HostLosesVm DEF HostLosesVm
<1>unchanged. CASE UNCHANGED vars
  BY <1>unchanged, CustodyUntouched DEF vars, ExistenceStays, Exists
<1> QED
  BY <1>Create, <1>CreateRetry, <1>CreateInsert, <1>ScheduleRefused,
     <1>ScheduleProvision, <1>PostVm, <1>CreateVmFails, <1>CreateVmAnswers,
     <1>Attach, <1>Claim, <1>SweepProvision, <1>CleanDelete, <1>CleanConfirmed,
     <1>CleanFails, <1>CleanWrite, <1>Restart, <1>SweepReset, <1>ResetDeferred,
     <1>ResetDelete, <1>ResetConfirmed, <1>ResetFails, <1>ResetWrite, <1>Stop,
     <1>StopVmAnswers, <1>StopVmFails, <1>StopWrite, <1>MarkVmMissing,
     <1>Start, <1>StartRead, <1>StartVmAnswers, <1>StartVmFails, <1>StartWrite,
     <1>RebuildMissingVm, <1>Crash, <1>ExpireCreating, <1>Enroll,
     <1>LabsCreates, <1>LabsRefuses, <1>LabsDeletes, <1>GuestPowersOff,
     <1>HostLosesVm, <1>unchanged
  DEF Next, Step, CreateSteps, ProvisionSteps, CleanupSteps, ResetSteps,
      StopSteps, StartSteps, Labs

LEMMA ImplementsInit == Init => Custody!Init
<1> SUFFICES ASSUME Init PROVE Custody!Init
  OBVIOUS
<1>1. \A l \in LabIds : custody[l] = "unborn"
  <2>1. workspace.lab = NoLab /\ \A l \in LabIds : ~Reserved(l) /\ post[l] = "none"
    BY NoRowValues, NoProvisionStatus DEF Init, Reserved
  <2>2. \A l \in LabIds : provision[l].status # "PENDING"
    BY <2>1 DEF Init, NoProvision
  <2> QED
    BY <2>1, <2>2, CustodyOf, NoLabOutside
<1>2. custody = [l \in LabIds |-> "unborn"]
  BY <1>1, CustodyIsFunction
<1>3. [l \in LabIds |-> Exists(l)] = [l \in LabIds |-> FALSE]
  BY DEF Init, Exists
<1> QED
  BY <1>2, <1>3 DEF Custody!Init

\* Where the host loses no machine, the service implements VmCustody: every
\* machine is asked for once, serves the workspace that won it, is condemned
\* for good, destroyed only when condemned, and let go of only when it does
\* not exist and cannot come to.
THEOREM Implements == ASSUME ~HostMayLoseVms PROVE Spec => KeepsCustody
<1>1. Init => Custody!Init
  BY ImplementsInit
<1>2. CustodyInv /\ [Next]_vars => [Custody!Next]_(Custody!vars)
  BY ImplementsStep DEF CustodyStep
<1> QED
  BY <1>1, <1>2, CustodyHolds, PTL DEF Spec, KeepsCustody, Custody!Spec

=============================================================================
