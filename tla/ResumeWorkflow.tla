--------------------------- MODULE ResumeWorkflow ---------------------------
(***************************************************************************)
(* ResumeSandboxInstanceWorkflow: bring a stopped or failed sandbox back.  *)
(* Every step is durable on its own. A step inside one of the workflow's   *)
(* try blocks that keeps failing has the compute stopped again and the     *)
(* instance marked failed; a step outside them ends the run as it is.      *)
(***************************************************************************)
EXTENDS WorkerRuns

Resuming(w, pc) == In(w, {"resume"}, pc)

\* A step inside a try block fails: it is attempted again, or the error is not
\* retryable or the attempts are used up and handleResumeFailure follows.
ResumeStepFails(w) == (run[w].tries > 0 /\ Throw(w)) \/ Goto(w, "undo")

\* resolveResumableSandboxInstanceState
ResumeResolve(w) ==
  /\ Resuming(w, "resolve")
  /\ \/ /\ status \in {"running", "starting", "started", "initializing"}
        /\ Finish(w)
     \/ /\ status \in {"stopped", "failed"} /\ provider
        /\ Goto(w, "mark_starting")
     \/ /\ \/ status \in {"pending", "degraded", "reconnecting", "stopping"}
           \/ status \in {"stopped", "failed"} /\ ~provider
        /\ Throw(w)
  /\ UNCHANGED <<rowVars, provider, compute, billing, engine>>

\* A lifecycle event outside the try blocks. Armed deadlines stay armed.
ResumeEvent(w, from, event, to) ==
  /\ Resuming(w, from)
  /\ IF Applicable(event)
     THEN status' = After(status, event) /\ Goto(w, to)
     ELSE Throw(w) /\ UNCHANGED status
  /\ UNCHANGED <<deleted, attachment, ready, deadline, jobs, provider, compute,
                 billing, engine>>

\* determineExistingProviderResumeAction. A compute that cannot be resumed is
\* not stopped, only recorded.
ResumePreflight(w) ==
  /\ Resuming(w, "preflight")
  /\ \/ compute = "active" /\ Goto(w, "accept")
     \/ compute = "resumable_stopped" /\ Goto(w, "resume")
     \/ /\ compute \in {"missing", "terminal_stopped", "stopping"}
        /\ Goto(w, "undo_mark")
  /\ UNCHANGED <<rowVars, provider, compute, billing, engine>>

ResumeCompute(w) ==
  /\ Resuming(w, "resume")
  /\ IF compute \in {"resumable_stopped", "active"}
     THEN compute' = "active" /\ Goto(w, "accept")
     ELSE ResumeStepFails(w) /\ UNCHANGED compute
  /\ UNCHANGED <<rowVars, provider, billing, engine>>

\* The SANDBOX_RESUMED usage event opens a usage interval.
ResumeUsage(w) ==
  /\ Resuming(w, "resumed_usage")
  /\ billing' = TRUE
  /\ Goto(w, "mark_initializing")
  /\ UNCHANGED <<rowVars, provider, compute, engine>>

\* A lifecycle event inside a try block.
ResumeGuardedEvent(w, from, event, to) ==
  /\ Resuming(w, from)
  /\ IF Applicable(event)
     THEN /\ status' = After(status, event)
          /\ IF to = "free" THEN Finish(w) ELSE Goto(w, to)
     ELSE ResumeStepFails(w) /\ UNCHANGED status
  /\ UNCHANGED <<deleted, attachment, ready, deadline, jobs, provider, compute,
                 billing, engine>>

\* resumeSandboxRuntime runs commands in the compute.
ResumeInitialize(w) ==
  /\ Resuming(w, "initialize")
  /\ IF compute = "active" THEN Goto(w, "await_ready") ELSE ResumeStepFails(w)
  /\ UNCHANGED <<rowVars, provider, compute, billing, engine>>

\* waitForSandboxRuntimeReadiness: the runtime is ready, or the wait times out.
ResumeAwaitReady(w) ==
  /\ Resuming(w, "await_ready")
  /\ RuntimeReady
  /\ Goto(w, "mark_running")
  /\ UNCHANGED <<rowVars, provider, compute, billing, engine>>

ResumeTimesOut(w) ==
  /\ Resuming(w, "await_ready")
  /\ ~RuntimeReady
  /\ Goto(w, "undo")
  /\ UNCHANGED <<rowVars, provider, compute, billing, engine>>

\* handleResumeFailure: stop the compute (one that is gone is fine), then mark
\* the instance failed. No usage event is recorded.
ResumeUndo(w) ==
  /\ Resuming(w, "undo")
  /\ StopCompute
  /\ Goto(w, "undo_mark")
  /\ UNCHANGED <<rowVars, provider, billing, engine>>

\* markSandboxInstanceFailed of the start workflow's directory. Its error is
\* wrapped in an AggregateError, which the engine may not take for a step's:
\* the step is attempted again, or the run has failed.
ResumeUndoMark(w) ==
  /\ Resuming(w, "undo_mark")
  /\ IF status \in {"pending", "starting", "started", "initializing"}
     THEN status' = "failed" /\ deadline' = DeadlinesCleared /\ Finish(w)
     ELSE /\ Throw(w) \/ Goto(w, "failed")
          /\ UNCHANGED <<status, deadline>>
  /\ UNCHANGED <<deleted, attachment, ready, jobs, provider, compute, billing,
                 engine>>

ResumeStep(w) ==
  \/ ResumeResolve(w)
  \/ ResumeEvent(w, "mark_starting", "provider_start_requested", "preflight")
  \/ ResumePreflight(w) \/ ResumeCompute(w)
  \/ ResumeEvent(w, "accept", "provider_start_accepted", "resumed_usage")
  \/ ResumeUsage(w)
  \/ ResumeGuardedEvent(w, "mark_initializing",
                        "provider_runtime_initialization_started",
                        "initialize")
  \/ ResumeInitialize(w) \/ ResumeAwaitReady(w) \/ ResumeTimesOut(w)
  \/ ResumeGuardedEvent(w, "mark_running", "runtime_ready", "free")
  \/ ResumeUndo(w) \/ ResumeUndoMark(w)
=============================================================================
