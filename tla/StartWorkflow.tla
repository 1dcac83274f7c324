---------------------------- MODULE StartWorkflow ----------------------------
(***************************************************************************)
(* StartSandboxInstanceWorkflow: allocate a compute for a pending          *)
(* instance, record it, activate its runtime and wait until that is ready. *)
(* Every step is durable on its own. A step that keeps failing has the     *)
(* compute destroyed, once there is one, and the instance marked failed.   *)
(* A setup check is stopped again as soon as it has come up.               *)
(***************************************************************************)
EXTENDS WorkerRuns

Starting(w, pc) == In(w, {"start"}, pc)

\* A step fails: it is attempted again, or handleFailedStartup follows at the
\* given step.
StartStepFails(w, cleanup) ==
  (run[w].tries > 0 /\ Throw(w)) \/ Goto(w, cleanup)

\* ensureSandboxInstance finds the row of the API; the provider is resolved and
\* prepares the image, or does not.
StartPrepare(w) ==
  /\ Starting(w, "prepare")
  /\ Goto(w, "mark_starting") \/ StartStepFails(w, "undo_mark")
  /\ UNCHANGED <<rowVars, provider, compute, billing, engine>>

StartEvent(w, from, event, to, cleanup) ==
  /\ Starting(w, from)
  /\ IF Applicable(event)
     THEN status' = After(status, event) /\ Goto(w, to)
     ELSE StartStepFails(w, cleanup) /\ UNCHANGED status
  /\ UNCHANGED <<deleted, attachment, ready, deadline, jobs, provider, compute,
                 billing, engine>>

\* startSandbox: the provider creates the compute, whatever has become of the
\* row; or it does not, and there is nothing to destroy.
StartAllocate(w) ==
  /\ Starting(w, "allocate")
  /\ \/ compute' = "active" /\ Goto(w, "persist")
     \/ StartStepFails(w, "undo_mark") /\ UNCHANGED compute
  /\ UNCHANGED <<rowVars, provider, billing, engine>>

\* Mutant: the row of a deleted instance is updated too.
PersistableDeleted ==
  \/ status = "starting"
  \/ status = "started" /\ provider

\* persistSandboxInstanceProvisioning: UPDATE ... WHERE status = 'starting' AND
\* deleted_at IS NULL, or the same was persisted before.
Persistable ==
  /\ ~deleted
  /\ status = "starting" \/ (status = "started" /\ provider)

\* Mutant: the compute whose id could not be recorded is left behind.
StartPersistOrForget(w) ==
  /\ Starting(w, "persist")
  /\ IF Persistable
     THEN provider' = TRUE /\ status' = "started" /\ Goto(w, "allocated_usage")
     ELSE StartStepFails(w, "undo_mark") /\ UNCHANGED <<provider, status>>
  /\ UNCHANGED <<deleted, attachment, ready, deadline, jobs, compute, billing,
                 engine>>

StartPersist(w) ==
  /\ Starting(w, "persist")
  /\ IF Persistable
     THEN provider' = TRUE /\ status' = "started" /\ Goto(w, "allocated_usage")
     ELSE StartStepFails(w, "undo") /\ UNCHANGED <<provider, status>>
  /\ UNCHANGED <<deleted, attachment, ready, deadline, jobs, compute, billing,
                 engine>>

StartUsage(w) ==
  /\ Starting(w, "allocated_usage")
  /\ billing' = TRUE
  /\ Goto(w, "mark_initializing")
  /\ UNCHANGED <<rowVars, provider, compute, engine>>

\* activateSandboxRuntime runs commands in the compute.
StartInitialize(w) ==
  /\ Starting(w, "initialize")
  /\ IF compute = "active" THEN Goto(w, "await_attached")
                           ELSE StartStepFails(w, "undo")
  /\ UNCHANGED <<rowVars, provider, compute, billing, engine>>

\* No tunnel connects before the runtime was activated.
NotActivated ==
  \E w \in Workers :
    /\ run[w].flow = "start"
    /\ run[w].pc \in {"prepare", "mark_starting", "allocate", "persist",
                      "allocated_usage", "mark_initializing"}

\* Mutant: a wait that polls for ever.
StartPollsOn(w, from, happened, to) ==
  /\ Starting(w, from) /\ happened
  /\ Goto(w, to)
  /\ UNCHANGED <<rowVars, provider, compute, billing, engine>>

\* waitForSandboxBootstrapAttachment, then waitForSandboxRuntimeReadiness: what
\* is waited for has happened, or the wait times out.
StartAwait(w, from, happened, to) ==
  /\ Starting(w, from)
  /\ Goto(w, IF happened THEN to ELSE "undo")
  /\ UNCHANGED <<rowVars, provider, compute, billing, engine>>

\* markSandboxInstanceRunning; the usage event that follows opens no interval.
\* A session's sandbox is left running, a setup check's is not.
StartMarkRunning(w) ==
  /\ Starting(w, "mark_running")
  /\ IF Applicable("runtime_ready")
     THEN /\ status' = "running"
          /\ Finish(w) \/ Goto(w, "setup_request")
     ELSE StartStepFails(w, "undo") /\ UNCHANGED status
  /\ UNCHANGED <<deleted, attachment, ready, deadline, jobs, provider, compute,
                 billing, engine>>

-----------------------------------------------------------------------------
(* handleFailedStartup. *)

\* The compute is destroyed, at the one attempt there is. Destroying one that is
\* gone throws, as does a provider that fails; the instance is marked failed all
\* the same.
StartUndo(w) ==
  /\ Starting(w, "undo")
  /\ \/ /\ compute' = "missing"
        /\ run' = [run EXCEPT ![w].pc = "undo_mark", ![w].found = compute]
     \/ DestroyFails /\ Goto(w, "undo_mark") /\ UNCHANGED compute
  /\ UNCHANGED <<rowVars, provider, billing, engine>>

\* Mutant: the statuses a failed start is marked failed from lack the last one.
StartUndoMarkEarly(w) ==
  /\ Starting(w, "undo_mark")
  /\ IF status \in {"pending", "starting", "started", "stopped"}
     THEN /\ status' = "failed" /\ deadline' = DeadlinesCleared
          /\ IF run[w].found = "missing" THEN Finish(w)
                                         ELSE Goto(w, "terminal_usage")
     ELSE Finish(w) /\ UNCHANGED <<status, deadline>>
  /\ UNCHANGED <<deleted, attachment, ready, jobs, provider, compute, billing,
                 engine>>

\* markSandboxInstanceFailed with allowStoppedCurrentStatus; a usage event is
\* recorded when nothing threw and a compute had been allocated.
StartUndoMark(w) ==
  /\ Starting(w, "undo_mark")
  /\ IF status \in {"pending", "starting", "started", "initializing", "stopped"}
     THEN /\ status' = "failed" /\ deadline' = DeadlinesCleared
          /\ IF run[w].found = "missing" THEN Finish(w)
                                         ELSE Goto(w, "terminal_usage")
     ELSE Finish(w) /\ UNCHANGED <<status, deadline>>
  /\ UNCHANGED <<deleted, attachment, ready, jobs, provider, compute, billing,
                 engine>>

\* The terminal usage event of a failed startup or of a stopped setup check.
StartTerminalUsage(w) ==
  /\ Starting(w, "terminal_usage")
  /\ billing' = FALSE
  /\ Finish(w)
  /\ UNCHANGED <<rowVars, provider, compute, engine>>

-----------------------------------------------------------------------------
(* cleanupSetupCheckSandbox: whatever throws is logged and ends it. *)

SetupRequest(w) ==
  /\ Starting(w, "setup_request")
  /\ IF Applicable("stop_requested")
     THEN status' = "stopping" /\ Goto(w, "setup_halt")
     ELSE Finish(w) /\ UNCHANGED status
  /\ UNCHANGED <<deleted, attachment, ready, deadline, jobs, provider, compute,
                 billing, engine>>

SetupHalt(w) ==
  /\ Starting(w, "setup_halt")
  /\ \/ StopCompute /\ Goto(w, "setup_mark")
     \/ UNCHANGED compute /\ Finish(w)
  /\ UNCHANGED <<rowVars, provider, billing, engine>>

\* markSandboxInstanceStopped without a fence: one transaction.
SetupMark(w) ==
  /\ Starting(w, "setup_mark")
  /\ status' = IF status = "stopping" THEN "stopped" ELSE status
  /\ deadline' = IF status \in {"stopping", "stopped"} THEN DeadlinesCleared
                                                       ELSE deadline
  /\ IF status = "stopping" THEN Goto(w, "terminal_usage") ELSE Finish(w)
  /\ UNCHANGED <<deleted, attachment, ready, jobs, provider, compute, billing,
                 engine>>

StartStep(w) ==
  \/ StartPrepare(w)
  \/ StartEvent(w, "mark_starting", "provider_start_requested", "allocate",
                "undo_mark")
  \/ StartAllocate(w) \/ StartPersist(w) \/ StartUsage(w)
  \/ StartEvent(w, "mark_initializing",
                "provider_runtime_initialization_started", "initialize",
                "undo")
  \/ StartInitialize(w)
  \/ StartAwait(w, "await_attached", attachment # NoLease, "await_ready")
  \/ StartAwait(w, "await_ready", RuntimeReady, "mark_running")
  \/ StartMarkRunning(w)
  \/ StartUndo(w) \/ StartUndoMark(w) \/ StartTerminalUsage(w)
  \/ SetupRequest(w) \/ SetupHalt(w) \/ SetupMark(w)
=============================================================================
