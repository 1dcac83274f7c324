----------------------------- MODULE WorkerRuns -----------------------------
(***************************************************************************)
(* The data-plane worker's side of one sandbox instance: the provider's    *)
(* compute, the usage interval, and the workflow runs that act on them.    *)
(* A run is a sequence of durable steps. A step that throws is attempted   *)
(* again from its start, and one whose worker dies before its result is    *)
(* stored is run again too; what it had done by then stays done. Steps of  *)
(* different runs interleave with each other and with the gateway at every *)
(* call they await.                                                        *)
(*                                                                         *)
(* StartWorkflow, StopWorkflow, ReconcileWorkflow, ResumeWorkflow and      *)
(* DeleteWorkflow give the steps of each workflow; InstanceRead those of a *)
(* request that inspects the provider as they do.                          *)
(***************************************************************************)
EXTENDS SandboxRow

CONSTANTS
  Workers,      \* how many runs for the instance are under way at once
  MaxTries,     \* bound: how often a durable step is attempted again
  MaxDeaths,    \* bound: how many workers die in the middle of a run
  StopLeaves,   \* what a compute that was asked to stop may be afterwards
  Losses,       \* what may become of an active compute that nobody stopped
  DestroyFails  \* whether the provider may fail to destroy a compute

Computes == {"active", "stopping", "resumable_stopped", "terminal_stopped",
             "missing"}

ASSUME WorkerAssumption ==
  /\ MaxTries \in Nat /\ MaxDeaths \in Nat
  /\ StopLeaves # {} /\ StopLeaves \subseteq Computes
  /\ Losses \subseteq Computes \ {"active"}
  /\ DestroyFails \in BOOLEAN

VARIABLES
  provider,   \* provider_sandbox_id IS NOT NULL
  compute,    \* what the provider reports of that compute
  billing,    \* the latest usage interval is open
  run,        \* run[w]: the workflow run that w is executing
  engine      \* the deadline runs that were taken up, and those that failed; the
              \* usage events that reads have recorded; how many workers may
              \* still die

workerVars == <<provider, compute, billing, run, engine>>

\* "stop" is a user's stop; "idle" and "disconnect" are deadline runs; "read"
\* is no run but a request the API is answering.
Flows == {"none", "stop", "reconcile", "idle", "disconnect", "start", "resume",
          "delete", "read"}

\* The first step of each workflow.
FirstStep ==
  [none |-> "free", stop |-> "fence_load", reconcile |-> "snapshot",
   idle |-> "check", disconnect |-> "check", start |-> "prepare",
   resume |-> "resolve", delete |-> "load", read |-> "read_load"]

\* Steps of the workflow that are durable steps of their own: a retry starts
\* there. Those of a stop or reconciliation before them are one durable step.
OwnSteps == {"mark_starting", "preflight", "resume", "accept", "resumed_usage",
             "mark_initializing", "initialize", "await_ready", "mark_running",
             "undo", "undo_mark", "usage", "terminate", "prepare", "allocate",
             "persist", "allocated_usage", "await_attached", "terminal_usage",
             "setup_request", "setup_halt", "setup_mark"}

Steps == OwnSteps \cup
  {"free", "failed", "check", "snapshot", "fence_load", "load", "fence_stop",
   "fence_inspect", "inspect", "fence_mark", "request", "halt",
   "inspect_again", "mark_stopped", "mark_failed", "commit_stopped",
   "commit_failed", "resolve", "destroy", "mark_destroyed", "read_load",
   "read_inspect", "read_mark"}

\* lease: the owner lease the run expects; seen: the status it loaded; found:
\* what it saw at the provider; saw: the attachment it read, or the one it will
\* have terminated.
Free == [flow |-> "none", pc |-> "free", lease |-> NoLease, seen |-> "pending",
         found |-> "missing", saw |-> NoLease, generation |-> 0, tries |-> 0]

WorkerTypeOK ==
  /\ provider \in BOOLEAN
  /\ compute \in Computes
  /\ billing \in BOOLEAN
  /\ run \in [Workers -> [flow : Flows, pc : Steps, lease : LeaseOrNone,
                          seen : Statuses, found : Computes,
                          saw : LeaseOrNone, generation : Nat,
                          tries : 0 .. MaxTries]]
  /\ engine \in [taken : SUBSET Jobs, failed : SUBSET Jobs,
                 inspected : SUBSET {"stopped", "failed"},
                 deaths : 0 .. MaxDeaths]

\* The run of a flow that a worker has just taken up.
Begun(flow, lease, generation) ==
  [Free EXCEPT !.flow = flow, !.pc = FirstStep[flow], !.lease = lease,
               !.generation = generation, !.tries = MaxTries]

\* A sandbox that is up, or one whose start run was just taken up.
WorkerInit(up) ==
  /\ provider = up
  /\ compute = IF up THEN "active" ELSE "missing"
  /\ billing = up
  /\ \E w \in Workers :
       run = IF up THEN [v \in Workers |-> Free]
             ELSE [v \in Workers |-> IF v = w THEN Begun("start", NoLease, 0)
                                    ELSE Free]
  /\ engine = [taken |-> {}, failed |-> {}, inspected |-> {},
               deaths |-> MaxDeaths]

-----------------------------------------------------------------------------

In(w, flows, pc) == run[w].flow \in flows /\ run[w].pc = pc
Finish(w) == run' = [run EXCEPT ![w] = Free]

\* The attempts are counted for each durable step.
Goto(w, pc) ==
  run' = [run EXCEPT ![w].pc = pc,
                     ![w].tries = IF pc \in OwnSteps THEN MaxTries ELSE @]
\* A worker takes a run up.
Begin(w, flow, lease, generation) ==
  /\ run[w] = Free
  /\ run' = [run EXCEPT ![w] = Begun(flow, lease, generation)]

\* Where the run goes on when its durable step starts over.
StepStart(r) == IF r.pc \in OwnSteps THEN r.pc ELSE FirstStep[r.flow]

\* Mutant: one attempt too many.
ThrowOnceMore(w) ==
  LET r == run[w] IN
  run' = [run EXCEPT ![w] = [r EXCEPT !.tries = @ - 1, !.pc = StepStart(r)]]

\* The durable step is attempted again from its start, or the attempts are
\* used up and the run has failed.
Throw(w) ==
  LET r == run[w] IN
  run' = [run EXCEPT ![w] =
            IF r.tries = 0 THEN [r EXCEPT !.pc = "failed"]
            ELSE [r EXCEPT !.tries = @ - 1, !.pc = StepStart(r)]]

\* The engine records the failure of the run.
RunFails(w) ==
  LET r == run[w] IN
  /\ r.pc = "failed"
  /\ engine' = IF r.flow \notin DeadlineKinds THEN engine
               ELSE [engine EXCEPT !.failed = @ \cup
                       {[kind |-> r.flow, lease |-> r.lease,
                         generation |-> r.generation]}]
  /\ Finish(w)
  /\ UNCHANGED <<rowVars, provider, compute, billing>>

\* A worker dies in the middle of a durable step, or, with the usage event next,
\* before the result of the step that calls for it was stored. Another worker
\* takes the run up once the first one's claim expires.
WorkerDies(w) ==
  LET r == run[w]
      lost == IF r.pc = "usage" THEN {FirstStep[r.flow]} ELSE {} IN
  /\ r.pc \notin {"free", "failed"} /\ r.flow # "read" /\ engine.deaths > 0
  /\ \E pc \in {StepStart(r)} \cup lost :
       run' = [run EXCEPT ![w].pc = pc]
  /\ engine' = [engine EXCEPT !.deaths = @ - 1]
  /\ UNCHANGED <<rowVars, provider, compute, billing>>

\* SELECT ... FOR UPDATE: a transaction that marks the instance stopped or
\* failed holds the row's lock from its checks to its commit, while it reads
\* the attachment from Valkey. Whoever else writes the row waits.
Committing(w) == run[w].pc \in {"commit_stopped", "commit_failed"}
\* Mutant: the row is read without FOR UPDATE.
LockIgnored(w) == TRUE

LockFree(w) == \A v \in Workers \ {w} : ~Committing(v)

\* applySandboxLifecycleEvent, as ApplyLifecycleEvent shows: one instant.
Applicable(e) == ~deleted /\ ~Invalid(status, e)

\* isSandboxRuntimeReady: the attached lease said that the runtime is ready.
RuntimeReady == attachment # NoLease /\ ready = attachment

-----------------------------------------------------------------------------
(* The provider, external to the repository. *)

\* stopSandbox: the runtime is shut down and the compute stopped. Stopping a
\* compute that is not active changes nothing.
StopCompute ==
  IF compute = "active" THEN compute' \in StopLeaves ELSE UNCHANGED compute

\* A stop that was under way completes.
ComputeStops ==
  /\ compute = "stopping"
  /\ compute' = "resumable_stopped"
  /\ UNCHANGED <<rowVars, provider, billing, run, engine>>

\* The compute is gone or stopped without anyone here having asked for it.
ComputeLost ==
  /\ compute = "active"
  /\ compute' \in Losses
  /\ UNCHANGED <<rowVars, provider, billing, run, engine>>
=============================================================================
