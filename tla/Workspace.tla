------------------------------ MODULE Workspace ------------------------------
(***************************************************************************)
(* The learner's workspace (one virtual machine per enrollment): the row   *)
(* Workspace, the clean-up records WorkspaceProvision, the Labs service    *)
(* that owns the machines, and the requests, background jobs and sweeps of *)
(* apps/api/src/workspace/workspace.service.ts that race over them.        *)
(*                                                                         *)
(* One enrollment is modelled.  Every statement of the service is keyed by *)
(* an enrollment id, by the id of a workspace row (which names one         *)
(* enrollment) or by a lab id (which names one row), so two enrollments    *)
(* share no state here.                                                    *)
(*                                                                         *)
(* A process is one request, background job or sweep step.  Each database  *)
(* statement (or transaction, serialised by the row locks it takes) and    *)
(* each answer of Labs is one action.  Two statements share an action only *)
(* where the second repeats, in its WHERE clause or unique key, what the   *)
(* first one read, so that nothing can come between them that matters.     *)
(*                                                                         *)
(* There is no clock.  A deadline (cleanupAt, resetRetryAt, the 210-second *)
(* window, the five-minute staleness, the idle timeout) may have passed or *)
(* not whenever the code looks at it: both branches are taken.             *)
(***************************************************************************)
EXTENDS Integers, FiniteSets

CONSTANTS
    Procs,             \* concurrent requests, background jobs and sweeps
    MaxRows,           \* bound: workspace rows ever inserted
    MaxProvision,      \* bound: Workspace.provisionGeneration
    MaxGeneration,     \* bound: Enrollment.generation
    HostMayLoseVms     \* whether a machine may vanish without the API's asking

ASSUME BoundsAssumption ==
    /\ MaxRows \in Nat
    /\ MaxProvision \in Nat
    /\ MaxGeneration \in Nat
    /\ HostMayLoseVms \in BOOLEAN

VARIABLES
    enrollment,   \* [generation, active]
    workspace,    \* the enrollment's Workspace row, or NoRow
    nextRow,      \* the next fresh workspace id
    provision,    \* WorkspaceProvision, by lab id
    post,         \* Labs: what became of POST /v1/vms, by lab id
    vm,           \* Labs: the machine of each lab id
    deletes,      \* Labs: the DELETE requests it has not yet applied
    pc,           \* where each process is
    job           \* what each process read and still holds

rowVars  == <<workspace, nextRow>>
labsVars == <<post, vm, deletes>>
procVars == <<pc, job>>
vars == <<enrollment, workspace, nextRow, provision, post, vm, deletes, pc, job>>

-----------------------------------------------------------------------------
(* Data *)

RowIds == 1 .. MaxRows
Provisions == 0 .. MaxProvision
Generations == 0 .. MaxGeneration

\* labId is workspace.id for provision generation 0 and `id-generation` after
\* that: the pair.
LabIds == RowIds \X Provisions
NoLab == <<0, 0>>
\* Mutant of LabOf: a rebuild asks for the id of the machine it replaces.
LabOfRow(row, generation) == <<row, 0>>
LabOf(row, generation) == <<row, generation>>

Statuses == {"CREATING", "RUNNING", "STOPPED", "ERROR", "RESETTING"}

\* starting: provisionStartedAt is not null.
Rows == [row: RowIds, status: Statuses, generation: Provisions,
         lab: LabIds \cup {NoLab}, starting: BOOLEAN]
NoRow == [row |-> 0, status |-> "NONE", generation |-> 0, lab |-> NoLab,
          starting |-> FALSE]

ProvisionRows == [status: {"PENDING", "CLEANUP"}, settled: BOOLEAN]
NoProvision == [status |-> "NONE", settled |-> FALSE]

\* row, generation, lab: the Workspace snapshot a process works from;
\* egen: the enrollment generation it read; settled: createSettled as read.
Jobs == [row: RowIds \cup {0}, generation: Provisions, egen: Generations,
         lab: LabIds \cup {NoLab}, settled: BOOLEAN]
NoJob == [row |-> 0, generation |-> 0, egen |-> 0, lab |-> NoLab, settled |-> FALSE]

Labels == {"idle", "create", "schedule", "post", "posted", "attach",
           "claim", "cleanDelete", "cleanCheck", "cleanWrite",
           "reset", "resetCheck", "resetWrite",
           "stop", "stopWrite", "stopMissing",
           "startRead", "start", "startWrite", "rebuild"}

Reserved(l) == provision[l].status # "NONE"
Exists(l) == vm[l] # "missing"
\* The machine the row names and that the learner may still use.
Attached(l) == workspace.lab = l /\ workspace.status \in {"RUNNING", "STOPPED"}

-----------------------------------------------------------------------------
(* Process steps *)

At(p, label) == pc[p] = label
Goto(p, label) == pc' = [pc EXCEPT ![p] = label]
Hold(p, j) == job' = [job EXCEPT ![p] = j]
Done(p) == Goto(p, "idle") /\ Hold(p, NoJob)
Become(p, label) == Goto(p, label) /\ UNCHANGED job

\* Mutant of Still: an update keyed by id alone.
StillThere(p, status) == workspace.row = job[p].row
\* The row the process read, still in the status its WHERE clause asks for.
Still(p, status) == workspace.row = job[p].row /\ workspace.status = status
\* It owns an attempt to create a machine.
Creator(p) == pc[p] \in {"schedule", "post", "posted", "attach", "claim"}
StillThisProvision(p) ==
    Still(p, "CREATING") /\ workspace.generation = job[p].generation

Init ==
    /\ enrollment = [generation |-> 0, active |-> TRUE]
    /\ workspace = NoRow
    /\ nextRow = 1
    /\ provision = [l \in LabIds |-> NoProvision]
    /\ post = [l \in LabIds |-> "none"]
    /\ vm = [l \in LabIds |-> "missing"]
    /\ deletes = {}
    /\ pc = [p \in Procs |-> "idle"]
    /\ job = [p \in Procs |-> NoJob]

-----------------------------------------------------------------------------
(* create(): the request half, up to the reserved provision record *)

Create(p) ==
    /\ At(p, "idle")
    /\ enrollment.active
    /\ Goto(p, "create")
    /\ Hold(p, [NoJob EXCEPT !.egen = enrollment.generation])
    /\ UNCHANGED <<enrollment, rowVars, provision, labsVars>>

\* A new provision generation; the old labId stays until a machine is attached.
\* Bound: a request that would exceed MaxProvision ends without effect.  The
\* findUnique that follows the update reads this generation back: a row cannot
\* go CREATING -> ERROR -> CREATING in between, which takes five minutes.
Reprovision(p, status) ==
    \/ /\ workspace.status = status /\ workspace.generation < MaxProvision
       /\ workspace' = [workspace EXCEPT !.status = "CREATING", !.starting = TRUE,
                                         !.generation = @ + 1]
       /\ Goto(p, "schedule")
       /\ Hold(p, [job[p] EXCEPT !.row = workspace.row, !.lab = NoLab,
                                 !.generation = workspace.generation + 1])
    \/ /\ ~(workspace.status = status /\ workspace.generation < MaxProvision)
       /\ UNCHANGED workspace
       /\ Done(p)

CreateRetry(p) ==
    /\ At(p, "create")
    /\ workspace.status # "NONE"
    /\ Reprovision(p, "ERROR")
    /\ UNCHANGED <<enrollment, nextRow, provision, labsVars>>

\* enrollmentId is unique, so at most one of two concurrent inserts succeeds.
CreateInsert(p) ==
    /\ At(p, "create")
    /\ workspace.status = "NONE"
    /\ nextRow <= MaxRows
    /\ workspace' = [NoRow EXCEPT !.row = nextRow, !.status = "CREATING",
                                  !.starting = TRUE]
    /\ nextRow' = nextRow + 1
    /\ Goto(p, "schedule")
    /\ Hold(p, [job[p] EXCEPT !.row = nextRow, !.generation = 0])
    /\ UNCHANGED <<enrollment, provision, labsVars>>

-----------------------------------------------------------------------------
(* scheduleProvision(): one transaction, the Enrollment row locked first *)

\* Mutant of EnrollmentMoved: the lock asks for an active enrollment only.
EnrollmentInactive(p) == ~enrollment.active
EnrollmentMoved(p) ==
    enrollment.generation # job[p].egen \/ ~enrollment.active

ScheduleRefused(p) ==
    /\ At(p, "schedule")
    /\ EnrollmentMoved(p)
    /\ workspace' = IF StillThisProvision(p)
                    THEN [workspace EXCEPT !.status = "RESETTING",
                                           !.starting = FALSE]
                    ELSE workspace
    /\ Done(p)
    /\ UNCHANGED <<enrollment, nextRow, provision, labsVars>>

ScheduleProvision(p) ==
    LET l == LabOf(job[p].row, job[p].generation) IN
    /\ At(p, "schedule")
    /\ ~EnrollmentMoved(p)
    /\ \/ /\ StillThisProvision(p) /\ ~Reserved(l)
          /\ provision' = [provision EXCEPT ![l] = [NoProvision EXCEPT !.status = "PENDING"]]
          /\ Goto(p, "post")
          /\ Hold(p, [job[p] EXCEPT !.lab = l])
       \* the row moved on, or labId's unique key aborts the transaction
       \/ ~(StillThisProvision(p) /\ ~Reserved(l)) /\ Done(p) /\ UNCHANGED provision
    /\ UNCHANGED <<enrollment, rowVars, labsVars>>

-----------------------------------------------------------------------------
(* provisionInBackground() *)

PostVm(p) ==
    /\ At(p, "post")
    /\ post' = [post EXCEPT ![job[p].lab] = "inflight"]
    /\ Become(p, "posted")
    /\ UNCHANGED <<enrollment, rowVars, provision, vm, deletes>>

\* The HTTP call may fail whatever Labs is still doing, its timeout included.
CreateVmFails(p) ==
    /\ At(p, "posted")
    /\ workspace' = IF StillThisProvision(p)
                    THEN [workspace EXCEPT !.status = "ERROR"] ELSE workspace
    /\ Done(p)
    /\ UNCHANGED <<enrollment, nextRow, provision, labsVars>>

CreateVmAnswers(p) ==
    LET l == job[p].lab IN
    /\ At(p, "posted")
    /\ post[l] = "created"
    /\ provision' = IF Reserved(l) THEN [provision EXCEPT ![l].settled = TRUE]
                                   ELSE provision
    /\ Become(p, "attach")
    /\ UNCHANGED <<enrollment, rowVars, labsVars>>

\* One transaction: claim the PENDING record, then the CREATING row; if either
\* is gone the transaction has no effect and the machine is cleaned up.
Attach(p) ==
    LET l == job[p].lab
        wins == provision[l].status = "PENDING" /\ StillThisProvision(p)
    IN
    /\ At(p, "attach")
    /\ \/ /\ wins
          /\ provision' = [provision EXCEPT ![l] = NoProvision]
          /\ workspace' = [workspace EXCEPT !.status = "RUNNING", !.starting = FALSE,
                                            !.lab = l]
          /\ Done(p)
       \/ ~wins /\ Become(p, "claim") /\ UNCHANGED <<workspace, provision>>
    /\ UNCHANGED <<enrollment, nextRow, labsVars>>

-----------------------------------------------------------------------------
(* cleanupProvision(), entered by a job that lost and by the sweep *)

\* Mutant of Claimed: the record stays as it is, only cleanupAt moves.
Postponed(l) == provision
Claimed(l) == [provision EXCEPT ![l].status = "CLEANUP"]

\* A CLEANUP record is claimed only when cleanupAt has passed.
Claim(p) ==
    LET l == job[p].lab IN
    /\ At(p, "claim")
    /\ \/ Reserved(l) /\ provision' = Claimed(l) /\ Become(p, "cleanDelete")
       \/ provision[l].status # "PENDING" /\ UNCHANGED provision /\ Done(p)
    /\ UNCHANGED <<enrollment, rowVars, labsVars>>

\* Mutant of SweepProvision: a sweep that takes CLEANUP records only.
SweepClaimedOnly(p, l) ==
    /\ At(p, "idle")
    /\ provision[l].status = "CLEANUP"
    /\ Goto(p, "cleanDelete")
    /\ Hold(p, [NoJob EXCEPT !.lab = l])
    /\ UNCHANGED <<enrollment, rowVars, provision, labsVars>>

\* sweepResets(), second loop.  The claim checks again what the sweep's query
\* checked, so query and claim are one step.
SweepProvision(p, l) ==
    /\ At(p, "idle")
    /\ Reserved(l)
    /\ provision' = Claimed(l)
    /\ Goto(p, "cleanDelete")
    /\ Hold(p, [NoJob EXCEPT !.lab = l])
    /\ UNCHANGED <<enrollment, rowVars, labsVars>>

\* createSettled is read before the DELETE is sent, never after.
CleanDelete(p) ==
    /\ At(p, "cleanDelete")
    /\ deletes' = deletes \cup {job[p].lab}
    /\ Goto(p, "cleanCheck")
    /\ Hold(p, [job[p] EXCEPT !.settled = provision[job[p].lab].settled])
    /\ UNCHANGED <<enrollment, rowVars, provision, post, vm>>

\* deleteVm() resolves only when the status query says the machine is missing.
CleanConfirmed(p) ==
    /\ At(p, "cleanCheck")
    /\ ~Exists(job[p].lab)
    /\ Become(p, "cleanWrite")
    /\ UNCHANGED <<enrollment, rowVars, provision, labsVars>>

\* Only cleanupAt moves, the record stays.
CleanFails(p) ==
    /\ At(p, "cleanCheck")
    /\ Done(p)
    /\ UNCHANGED <<enrollment, rowVars, provision, labsVars>>

\* Mutants of CleanWrite: the record goes with any confirmed DELETE, or with a
\* settled flag read again after it.
CleanWriteAlways(p) ==
    LET l == job[p].lab IN
    /\ At(p, "cleanWrite")
    /\ provision' = IF Reserved(l) THEN [provision EXCEPT ![l] = NoProvision]
                                   ELSE provision
    /\ Done(p)
    /\ UNCHANGED <<enrollment, rowVars, labsVars>>
CleanWriteReread(p) ==
    LET l == job[p].lab IN
    /\ At(p, "cleanWrite")
    /\ provision' = IF provision[l].settled /\ provision[l].status = "CLEANUP"
                    THEN [provision EXCEPT ![l] = NoProvision]
                    ELSE provision
    /\ Done(p)
    /\ UNCHANGED <<enrollment, rowVars, labsVars>>

\* Only a settled creation lets the record go; otherwise it is a tombstone.
CleanWrite(p) ==
    LET l == job[p].lab IN
    /\ At(p, "cleanWrite")
    /\ provision' = IF job[p].settled /\ provision[l].status = "CLEANUP"
                    THEN [provision EXCEPT ![l] = NoProvision]
                    ELSE provision
    /\ Done(p)
    /\ UNCHANGED <<enrollment, rowVars, labsVars>>

-----------------------------------------------------------------------------
(* restart(), finishReset() and the first loop of sweepResets() *)

\* EnrollmentsService.restart: the generation, the enrollment and the row move
\* in one transaction; the machine is removed after it.
Restart(p) ==
    /\ At(p, "idle")
    /\ enrollment.generation < MaxGeneration
    /\ enrollment' = [generation |-> enrollment.generation + 1, active |-> FALSE]
    /\ \/ /\ workspace.status # "NONE"
          /\ workspace' = [workspace EXCEPT !.status = "RESETTING"]
          /\ Become(p, "reset")
       \/ workspace.status = "NONE" /\ UNCHANGED <<workspace, procVars>>
    /\ UNCHANGED <<nextRow, provision, labsVars>>

\* Mutant of SweepReset: rows whose creation was never seen to end are left out.
SweepResetSettled(p) ==
    /\ At(p, "idle")
    /\ workspace.status = "RESETTING" /\ ~workspace.starting
    /\ Become(p, "reset")
    /\ UNCHANGED <<enrollment, rowVars, provision, labsVars>>

SweepReset(p) ==
    /\ At(p, "idle")
    /\ workspace.status = "RESETTING"
    /\ Become(p, "reset")
    /\ UNCHANGED <<enrollment, rowVars, provision, labsVars>>

\* While the creation request may still be on its way the reset is put off.
ResetDeferred(p) ==
    /\ At(p, "reset")
    /\ workspace.status # "RESETTING" \/ workspace.starting
    /\ Done(p)
    /\ UNCHANGED <<enrollment, rowVars, provision, labsVars>>

ResetDelete(p) ==
    LET l == IF workspace.lab # NoLab THEN workspace.lab
             ELSE LabOf(workspace.row, 0)
    IN
    /\ At(p, "reset")
    /\ workspace.status = "RESETTING"
    /\ deletes' = deletes \cup {l}
    /\ Goto(p, "resetCheck")
    /\ Hold(p, [NoJob EXCEPT !.row = workspace.row, !.lab = l])
    /\ UNCHANGED <<enrollment, rowVars, provision, post, vm>>

ResetConfirmed(p) ==
    /\ At(p, "resetCheck")
    /\ ~Exists(job[p].lab)
    /\ Become(p, "resetWrite")
    /\ UNCHANGED <<enrollment, rowVars, provision, labsVars>>

\* Only resetRetryAt moves.
ResetFails(p) ==
    /\ At(p, "resetCheck")
    /\ Done(p)
    /\ UNCHANGED <<enrollment, rowVars, provision, labsVars>>

ResetWrite(p) ==
    /\ At(p, "resetWrite")
    /\ workspace' = IF Still(p, "RESETTING") THEN NoRow ELSE workspace
    /\ Done(p)
    /\ UNCHANGED <<enrollment, nextRow, provision, labsVars>>

-----------------------------------------------------------------------------
(* stop(), sweepIdle() and stopWorkspace() *)

HoldRow(p) ==
    Hold(p, [job[p] EXCEPT !.row = workspace.row, !.lab = workspace.lab])

\* A request, or the idle sweep for a row it listed as idle.
Stop(p) ==
    /\ At(p, "idle")
    /\ workspace.status = "RUNNING"
    /\ Goto(p, "stop") /\ HoldRow(p)
    /\ UNCHANGED <<enrollment, rowVars, provision, labsVars>>

StopVmAnswers(p) ==
    /\ At(p, "stop")
    /\ Exists(job[p].lab)
    /\ vm' = [vm EXCEPT ![job[p].lab] = "off"]
    /\ Become(p, "stopWrite")
    /\ UNCHANGED <<enrollment, rowVars, provision, post, deletes>>

\* An error or a lost answer, whether or not Labs acted, and then
\* observeVmState(): only "missing" and "shut off" go on to change the row.
StopVmFails(p) ==
    LET l == job[p].lab IN
    /\ At(p, "stop")
    /\ \/ UNCHANGED vm
       \/ Exists(l) /\ vm' = [vm EXCEPT ![l] = "off"]
    /\ \/ vm'[l] = "missing" /\ Become(p, "stopMissing")
       \/ vm'[l] = "off" /\ Become(p, "stopWrite")
       \/ Done(p)
    /\ UNCHANGED <<enrollment, rowVars, provision, post, deletes>>

StopWrite(p) ==
    /\ At(p, "stopWrite")
    /\ workspace' = IF Still(p, "RUNNING")
                    THEN [workspace EXCEPT !.status = "STOPPED"] ELSE workspace
    /\ Done(p)
    /\ UNCHANGED <<enrollment, nextRow, provision, labsVars>>

MarkVmMissing(p) ==
    /\ At(p, "stopMissing")
    /\ workspace' = IF Still(p, "RUNNING")
                    THEN [workspace EXCEPT !.status = "ERROR"] ELSE workspace
    /\ Done(p)
    /\ UNCHANGED <<enrollment, nextRow, provision, labsVars>>

-----------------------------------------------------------------------------
(* start() and rebuildMissingVm() *)

Start(p) ==
    /\ At(p, "idle")
    /\ workspace.status # "NONE"
    /\ Goto(p, "startRead")
    /\ Hold(p, [NoJob EXCEPT !.egen = enrollment.generation])
    /\ UNCHANGED <<enrollment, rowVars, provision, labsVars>>

StartRead(p) ==
    /\ At(p, "startRead")
    /\ \/ workspace.status = "STOPPED" /\ Goto(p, "start") /\ HoldRow(p)
       \/ workspace.status # "STOPPED" /\ Done(p)
    /\ UNCHANGED <<enrollment, rowVars, provision, labsVars>>

StartVmAnswers(p) ==
    /\ At(p, "start")
    /\ Exists(job[p].lab)
    /\ vm' = [vm EXCEPT ![job[p].lab] = "on"]
    /\ Become(p, "startWrite")
    /\ UNCHANGED <<enrollment, rowVars, provision, post, deletes>>

\* As above; only "missing" goes on, to a rebuild.
StartVmFails(p) ==
    LET l == job[p].lab IN
    /\ At(p, "start")
    /\ \/ UNCHANGED vm
       \/ Exists(l) /\ vm' = [vm EXCEPT ![l] = "on"]
    /\ \/ vm'[l] = "missing" /\ Become(p, "rebuild")
       \/ Done(p)
    /\ UNCHANGED <<enrollment, rowVars, provision, post, deletes>>

StartWrite(p) ==
    /\ At(p, "startWrite")
    /\ workspace' = IF Still(p, "STOPPED")
                    THEN [workspace EXCEPT !.status = "RUNNING"] ELSE workspace
    /\ Done(p)
    /\ UNCHANGED <<enrollment, nextRow, provision, labsVars>>

RebuildMissingVm(p) ==
    /\ At(p, "rebuild")
    /\ \/ workspace.row = job[p].row /\ Reprovision(p, "STOPPED")
       \/ workspace.row # job[p].row /\ UNCHANGED workspace /\ Done(p)
    /\ UNCHANGED <<enrollment, nextRow, provision, labsVars>>

-----------------------------------------------------------------------------
(* Handlers of one statement, and crashes *)

\* getForEnrollment(): its update repeats, on the same generation, what it read.
ExpireCreating ==
    /\ workspace.status = "CREATING"
    /\ workspace' = [workspace EXCEPT !.status = "ERROR"]
    /\ UNCHANGED <<enrollment, nextRow, provision, labsVars, procVars>>

\* EnrollmentsService.enroll() in this course, and in another one.
Enroll ==
    /\ enrollment' = [enrollment EXCEPT !.active = ~@]
    /\ UNCHANGED <<rowVars, provision, labsVars, procVars>>

\* A function instance is reclaimed, or a database statement throws.
Crash(p) ==
    /\ ~At(p, "idle")
    /\ Done(p)
    /\ UNCHANGED <<enrollment, rowVars, provision, labsVars>>

-----------------------------------------------------------------------------
(* Labs, as the client code sees it *)

LabsCreates(l) ==
    /\ post[l] = "inflight"
    /\ post' = [post EXCEPT ![l] = "created"]
    /\ vm' = [vm EXCEPT ![l] = "on"]
    /\ UNCHANGED <<enrollment, rowVars, provision, deletes, procVars>>

LabsRefuses(l) ==
    /\ post[l] = "inflight"
    /\ post' = [post EXCEPT ![l] = "refused"]
    /\ UNCHANGED <<enrollment, rowVars, provision, vm, deletes, procVars>>

\* Applied once, whether or not there is a machine to delete.
LabsDeletes(l) ==
    /\ l \in deletes
    /\ deletes' = deletes \ {l}
    /\ vm' = [vm EXCEPT ![l] = "missing"]
    /\ UNCHANGED <<enrollment, rowVars, provision, post, procVars>>

GuestPowersOff(l) ==
    /\ vm[l] = "on"
    /\ vm' = [vm EXCEPT ![l] = "off"]
    /\ UNCHANGED <<enrollment, rowVars, provision, post, deletes, procVars>>

HostLosesVm(l) ==
    /\ HostMayLoseVms
    /\ Exists(l)
    /\ vm' = [vm EXCEPT ![l] = "missing"]
    /\ UNCHANGED <<enrollment, rowVars, provision, post, deletes, procVars>>

-----------------------------------------------------------------------------

CreateSteps(p) ==
    \/ Create(p) \/ CreateRetry(p) \/ CreateInsert(p)
    \/ ScheduleRefused(p) \/ ScheduleProvision(p)
ProvisionSteps(p) ==
    PostVm(p) \/ CreateVmFails(p) \/ CreateVmAnswers(p) \/ Attach(p)
CleanupSteps(p) ==
    \/ Claim(p) \/ \E l \in LabIds : SweepProvision(p, l)
    \/ CleanDelete(p) \/ CleanConfirmed(p) \/ CleanFails(p) \/ CleanWrite(p)
ResetSteps(p) ==
    \/ Restart(p) \/ SweepReset(p) \/ ResetDeferred(p) \/ ResetDelete(p)
    \/ ResetConfirmed(p) \/ ResetFails(p) \/ ResetWrite(p)
StopSteps(p) ==
    \/ Stop(p) \/ StopVmAnswers(p) \/ StopVmFails(p)
    \/ StopWrite(p) \/ MarkVmMissing(p)
StartSteps(p) ==
    \/ Start(p) \/ StartRead(p) \/ StartVmAnswers(p) \/ StartVmFails(p)
    \/ StartWrite(p) \/ RebuildMissingVm(p)
Step(p) ==
    \/ CreateSteps(p) \/ ProvisionSteps(p) \/ CleanupSteps(p)
    \/ ResetSteps(p) \/ StopSteps(p) \/ StartSteps(p) \/ Crash(p)
Labs(l) ==
    \/ LabsCreates(l) \/ LabsRefuses(l) \/ LabsDeletes(l)
    \/ GuestPowersOff(l) \/ HostLosesVm(l)

Next ==
    \/ \E p \in Procs : Step(p)
    \/ ExpireCreating \/ Enroll
    \/ \E l \in LabIds : Labs(l)

Spec == Init /\ [][Next]_vars

-----------------------------------------------------------------------------
(* Safety *)

TypeOK ==
    /\ enrollment \in [generation: Generations, active: BOOLEAN]
    /\ workspace \in Rows \cup {NoRow}
    /\ nextRow \in 1 .. MaxRows + 1
    /\ provision \in [LabIds -> ProvisionRows \cup {NoProvision}]
    /\ post \in [LabIds -> {"none", "inflight", "created", "refused"}]
    /\ vm \in [LabIds -> {"missing", "on", "off"}]
    /\ deletes \in SUBSET LabIds
    /\ pc \in [Procs -> Labels]
    /\ job \in [Procs -> Jobs]

\* What a process has read by the time it uses it.
HeldOK ==
    /\ \A p \in Procs : pc[p] \notin {"idle", "create", "schedule", "reset", "startRead"}
                          => job[p].lab \in LabIds
    /\ \A p \in Procs : Creator(p) => job[p].row \in RowIds
    /\ workspace.status \in {"RUNNING", "STOPPED"} => workspace.lab \in LabIds

\* Every machine Labs has, or may still make from a POST whose caller is gone,
\* can be found again: the workspace row names it or a clean-up record does.
NoOrphanVm ==
    \A l \in LabIds :
        (Exists(l) \/ post[l] = "inflight") => (Reserved(l) \/ workspace.lab = l)

\* No clean-up, reset or DELETE still at Labs is aimed at the machine of a
\* RUNNING or STOPPED workspace.
AttachedVmIsSafe ==
    \A l \in LabIds : Attached(l) =>
        /\ ~Reserved(l)
        /\ l \notin deletes
        /\ \A p \in Procs : job[p].lab = l =>
               pc[p] \notin {"claim", "cleanDelete", "cleanCheck", "cleanWrite",
                             "resetCheck", "resetWrite"}

\* A row the restart marked RESETTING is only ever removed: no create, job,
\* stop or start that is still under way revives it.
ResettingIsFinal ==
    [][workspace.status = "RESETTING" =>
         \/ workspace' = NoRow
         \/ workspace'.row = workspace.row /\ workspace'.status = "RESETTING"]_workspace

\* A job that attaches its machine was asked for in the enrollment generation
\* that is current when it does: a restart fences off every creation before it.
RestartFencesProvisions ==
    [][\A p \in Procs :
         (At(p, "attach") /\ pc'[p] = "idle" /\ workspace'.lab # workspace.lab)
            => job[p].egen = enrollment.generation]_vars

\* The comment in stopWorkspace(): a machine still running is never marked
\* STOPPED.
OnlyStoppedVmIsMarkedStopped ==
    [][(workspace.status = "RUNNING" /\ workspace'.status = "STOPPED")
         => vm[workspace.lab] # "on"]_vars

\* README: an old request cannot overwrite a newer creation.  A stop or start
\* that changes the row still holds the machine the row names.
OldRequestsDoNotOverwrite ==
    [][\A p \in Procs :
         (/\ pc[p] \in {"stopWrite", "stopMissing", "startWrite", "rebuild"}
          /\ pc'[p] # pc[p]
          /\ workspace' # workspace)
            => job[p].lab = workspace.lab]_vars

-----------------------------------------------------------------------------
(* The inductive invariant behind AttachedVmIsSafe *)

\* Lab ids this enrollment has handed out so far.
Issued(l) ==
    /\ l[1] < nextRow
    /\ l[1] = workspace.row => l[2] <= workspace.generation

\* The machine a creator asks for.
Target(p) == LabOf(job[p].row, job[p].generation)

Deleting(p) ==
    pc[p] \in {"cleanDelete", "cleanCheck", "cleanWrite", "resetCheck", "resetWrite"}

\* The machine a creation that is still welcome would attach.
Welcome(l) ==
    workspace.status = "CREATING" /\ l = LabOf(workspace.row, workspace.generation)
Attachable(l) ==
    /\ Welcome(l)
    /\ \/ provision[l].status = "PENDING"
       \/ \E p \in Procs : At(p, "schedule") /\ Target(p) = l

NothingUnissued ==
    /\ workspace.row < nextRow
    /\ workspace.lab # NoLab => Issued(workspace.lab)
    /\ \A l \in LabIds : (Reserved(l) \/ l \in deletes \/ post[l] # "none") => Issued(l)
    /\ \A p \in Procs : job[p].lab # NoLab => Issued(job[p].lab)
    /\ \A p \in Procs : Creator(p) => Issued(Target(p))

OneCreatorEach ==
    /\ \A p, q \in Procs : (Creator(p) /\ Creator(q) /\ Target(p) = Target(q)) => p = q
    /\ \A p \in Procs : At(p, "schedule") => ~Reserved(Target(p))
    /\ \A p \in Procs : (Creator(p) /\ ~At(p, "schedule")) => job[p].lab = Target(p)

AttachedIsExclusive ==
    /\ \A l \in LabIds : Attached(l) =>
          ~Reserved(l) /\ \A p \in Procs : Creator(p) => Target(p) # l
    /\ \A l \in LabIds : (Attached(l) \/ Attachable(l)) =>
          l \notin deletes /\ \A p \in Procs : Deleting(p) => job[p].lab # l

\* Together they are inductive, whether or not the host loses machines.
SafetyInv == TypeOK /\ HeldOK /\ NothingUnissued /\ OneCreatorEach /\ AttachedIsExclusive

-----------------------------------------------------------------------------
(* The inductive invariants behind RestartFencesProvisions, NoOrphanVm and  *)
(* KeepsCustody.  Each holds together with SafetyInv; the last only where   *)
(* the host loses no machine.                                               *)

\* A creation that the row still waits for belongs to the present enrollment
\* generation, from its reservation on.
WaitedForIsCurrent ==
    \A p \in Procs : (pc[p] \in {"post", "posted", "attach"} /\ StillThisProvision(p))
                      => job[p].egen = enrollment.generation

\* A POST is sent for a reserved id, once, and its end is what settles it; a
\* machine that was made is there as long as it may still be attached.
PostIsAccountedFor(l) ==
    /\ post[l] = "inflight" => Reserved(l) /\ ~provision[l].settled
    /\ Exists(l) \/ provision[l].settled => post[l] = "created"
    /\ Attachable(l) /\ post[l] = "created" => Exists(l)

\* What a process may conclude about its machine from where it is.
CallAgrees(p) ==
    /\ At(p, "schedule") => post[Target(p)] = "none"
    /\ At(p, "post") => /\ post[job[p].lab] = "none"
                        /\ Reserved(job[p].lab) /\ ~provision[job[p].lab].settled
    /\ At(p, "attach") => post[job[p].lab] = "created"
    /\ pc[p] \in {"cleanCheck", "cleanWrite"} /\ job[p].settled =>
          post[job[p].lab] = "created"
    /\ At(p, "cleanWrite") /\ job[p].settled => ~Exists(job[p].lab)

PostsAgree ==
    (\A l \in LabIds : PostIsAccountedFor(l)) /\ (\A p \in Procs : CallAgrees(p))

\* The machine the row names was made, and is there while it may be used.
RowKeepsItsMachine ==
    /\ workspace.lab # NoLab => post[workspace.lab] = "created"
    /\ workspace.status \in {"CREATING", "ERROR"} => workspace.lab = NoLab
    /\ workspace.status \in {"RUNNING", "STOPPED"} => Exists(workspace.lab)

\* A stop, start or reset that finds its row again finds the same machine; the
\* machine can have gone only if the row was meanwhile given up.
HeldRowAgrees(p) ==
    /\ job[p].row < nextRow
    /\ pc[p] \in {"resetCheck", "resetWrite"} =>
          /\ job[p].row # 0
          /\ job[p].row = workspace.row => workspace.status = "RESETTING"
          /\ job[p].row = workspace.row /\ workspace.lab # NoLab =>
                job[p].lab = workspace.lab
    /\ At(p, "resetWrite") /\ job[p].row = workspace.row /\ workspace.lab # NoLab =>
          ~Exists(workspace.lab)
    /\ pc[p] \in {"stop", "stopWrite", "stopMissing", "start", "startWrite", "rebuild"} =>
          /\ job[p].row # 0
          /\ job[p].row = workspace.row => job[p].lab = workspace.lab
          /\ job[p].row = workspace.row =>
                workspace.status \in {"RUNNING", "STOPPED", "RESETTING"}
    /\ pc[p] \in {"stopMissing", "rebuild"} /\ job[p].row = workspace.row =>
          workspace.status = "RESETTING"

HeldRowsAgree == \A p \in Procs : HeldRowAgrees(p)

CustodyInv ==
    SafetyInv /\ NoOrphanVm /\ PostsAgree /\ RowKeepsItsMachine /\ HeldRowsAgree

-----------------------------------------------------------------------------
(* Custody of the machines: the abstract promise *)

custody == [l \in LabIds |->
    IF workspace.lab = l /\ workspace.status # "RESETTING" THEN "attached"
    ELSE IF provision[l].status = "PENDING" /\ Welcome(l) THEN "pending"
    ELSE IF Reserved(l) \/ workspace.lab = l THEN "condemned"
    ELSE IF post[l] = "none" THEN "unborn" ELSE "gone"]

Custody == INSTANCE VmCustody
    WITH Machines <- LabIds, exists <- [l \in LabIds |-> Exists(l)]

\* Without losses at the host, the service keeps that promise.
KeepsCustody == Custody!Spec

-----------------------------------------------------------------------------
(* Progress *)

\* Fairness is asked of one process only; the others may stop anywhere.  It
\* moves or is reclaimed.  Every request sweeps, and the daily cron does; a
\* sweep is not reclaimed at the same point each time, and Labs does not fail
\* each time, so each of its steps is taken if it is possible again and again.
Sweeper == CHOOSE p \in Procs : TRUE

Fairness ==
    /\ WF_vars(~At(Sweeper, "idle") /\ Step(Sweeper))
    /\ SF_vars(SweepReset(Sweeper)) /\ SF_vars(ResetDelete(Sweeper))
    /\ SF_vars(ResetConfirmed(Sweeper)) /\ SF_vars(ResetWrite(Sweeper))
    /\ \A l \in LabIds :
         /\ SF_vars(SweepProvision(Sweeper, l))
         /\ SF_vars(job[Sweeper].lab = l /\ CleanDelete(Sweeper))
         /\ WF_vars(LabsDeletes(l))

FairSpec == Spec /\ Fairness

\* A restarted workspace is eventually gone, so the learner can create anew.
ResetCompletes == (workspace.status = "RESETTING") ~> (workspace.status = "NONE")

\* A machine no workspace names is eventually attached or destroyed.
MachinesAreReclaimed ==
    \A l \in LabIds :
        (Exists(l) /\ workspace.lab # l) ~> (~Exists(l) \/ workspace.lab = l)
=============================================================================
