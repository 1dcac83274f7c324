---------------------------- MODULE StopWorkflow ----------------------------
(***************************************************************************)
(* stopSandboxInstance: stopping the compute for a user, or because the    *)
(* idle deadline of an owner lease passed. An idle stop is fenced: it goes *)
(* on only while that lease is still attached. The user's stop is not.     *)
(* The stop workflow then records the usage event and has the bootstrap    *)
(* attachment terminated; the deadline workflow does neither.              *)
(***************************************************************************)
EXTENDS WorkerRuns

StopFlows == {"stop", "idle"}

\* shouldExecuteSandboxStop
StopPermitted(w) == run[w].flow = "stop" \/ attachment = run[w].lease

\* After the durable step: the stop workflow terminates the attachment it saw.
StopOver(w) ==
  IF run[w].flow = "stop" /\ run[w].saw # NoLease THEN Goto(w, "terminate")
                                                  ELSE Finish(w)

StopFence(w, from, to) ==
  /\ In(w, StopFlows, from)
  /\ IF StopPermitted(w)
     THEN run' = [run EXCEPT ![w].pc = to,
                             ![w].saw = IF from = "fence_mark" THEN @
                                        ELSE attachment]
     ELSE Finish(w)
  /\ UNCHANGED <<rowVars, provider, compute, billing, engine>>

\* Mutant: a stop that the API claimed is taken for somebody else's.
StoppableUnclaimed == {"running", "reconnecting"}

\* The statuses that can be stopped, one that the API has claimed included.
Stoppable == {"running", "reconnecting", "stopping"}

\* resolveStoppableSandboxInstanceStopState
StopLoad(w) ==
  /\ In(w, StopFlows, "load")
  /\ \/ status = "stopped" /\ StopOver(w)
     \/ /\ status \in Stoppable /\ provider
        /\ run' = [run EXCEPT ![w].pc = "fence_stop", ![w].seen = status]
     \/ /\ status # "stopped"
        /\ status \notin Stoppable \/ ~provider
        /\ Throw(w)
  /\ UNCHANGED <<rowVars, provider, compute, billing, engine>>

\* determineStopProviderAction on what the provider reports before the stop.
StopInspect(w) ==
  /\ In(w, StopFlows, "inspect")
  /\ \/ compute \in {"missing", "terminal_stopped"} /\ Goto(w, "mark_failed")
     \/ compute = "stopping" /\ Throw(w)
     \/ /\ compute \in {"resumable_stopped", "active"}
        /\ run' = [run EXCEPT ![w].pc = "fence_mark", ![w].found = compute]
  /\ UNCHANGED <<rowVars, provider, compute, billing, engine>>

\* Mutant: the instance is marked stopped whatever the provider reported.
StopRequestOnly(w) ==
  /\ In(w, StopFlows, "request")
  /\ Applicable("stop_requested")
  /\ status' = "stopping"
  /\ run' = [run EXCEPT ![w].seen = "stopping", ![w].pc = "mark_stopped"]
  /\ UNCHANGED <<deleted, attachment, ready, deadline, jobs, provider, compute,
                 billing, engine>>

StopRequest(w) ==
  /\ In(w, StopFlows, "request")
  /\ IF Applicable("stop_requested")
     THEN /\ status' = "stopping"
          /\ run' = [run EXCEPT ![w].seen = "stopping",
               ![w].pc = IF run[w].found = "active" THEN "halt"
                                                    ELSE "mark_stopped"]
     ELSE Throw(w) /\ UNCHANGED status
  /\ UNCHANGED <<deleted, attachment, ready, deadline, jobs, provider, compute,
                 billing, engine>>

StopHalt(w) ==
  /\ In(w, StopFlows, "halt")
  /\ StopCompute
  /\ Goto(w, IF compute = "missing" THEN "mark_failed" ELSE "inspect_again")
  /\ UNCHANGED <<rowVars, provider, billing, engine>>

StopInspectAgain(w) ==
  /\ In(w, StopFlows, "inspect_again")
  /\ \/ compute \in {"missing", "terminal_stopped"} /\ Goto(w, "mark_failed")
     \/ compute \in {"stopping", "active"} /\ Throw(w)
     \/ compute = "resumable_stopped" /\ Goto(w, "mark_stopped")
  /\ UNCHANGED <<rowVars, provider, compute, billing, engine>>

\* markSandboxInstanceStopped, up to its last look at the attachment.
StopMark(w) ==
  /\ In(w, StopFlows, "mark_stopped") /\ LockFree(w)
  /\ \/ /\ status = "stopped"
        /\ deadline' = DeadlinesCleared
        /\ StopOver(w)
     \/ /\ status \notin {"stopped", "stopping"}
        /\ Throw(w)
        /\ UNCHANGED deadline
     \/ /\ status = "stopping"
        /\ IF StopPermitted(w) THEN Goto(w, "commit_stopped") ELSE Finish(w)
        /\ UNCHANGED deadline
  /\ UNCHANGED <<status, deleted, attachment, ready, jobs, provider, compute,
                 billing, engine>>

\* markStopProviderFailureOrThrow, with markSandboxInstanceFailed.
StopMarkFailed(w) ==
  /\ In(w, StopFlows, "mark_failed") /\ LockFree(w)
  /\ \/ /\ status = "failed"
        /\ deadline' = DeadlinesCleared
        /\ Finish(w)
     \/ /\ status \notin {"failed", run[w].seen}
        /\ Throw(w)
        /\ UNCHANGED deadline
     \/ /\ status = run[w].seen
        /\ IF StopPermitted(w) THEN Goto(w, "commit_failed") ELSE Finish(w)
        /\ UNCHANGED deadline
  /\ UNCHANGED <<status, deleted, attachment, ready, jobs, provider, compute,
                 billing, engine>>

\* The transaction commits. A failed stop has no attachment terminated.
StopCommit(w, pc, target) ==
  /\ In(w, StopFlows, pc)
  /\ status' = target
  /\ deadline' = DeadlinesCleared
  /\ IF run[w].flow = "stop"
     THEN run' = [run EXCEPT ![w].pc = "usage",
                             ![w].saw = IF target = "failed" THEN NoLease
                                                             ELSE @]
     ELSE Finish(w)
  /\ UNCHANGED <<deleted, attachment, ready, jobs, provider, compute, billing,
                 engine>>

\* The terminal usage event of the stop workflow; its key holds the run's id.
StopUsage(w) ==
  /\ In(w, {"stop"}, "usage")
  /\ billing' = FALSE
  /\ StopOver(w)
  /\ UNCHANGED <<rowVars, provider, compute, engine>>

StopStep(w) ==
  \/ StopFence(w, "fence_load", "load") \/ StopLoad(w)
  \/ StopFence(w, "fence_stop", "inspect") \/ StopInspect(w)
  \/ StopFence(w, "fence_mark", "request") \/ StopRequest(w)
  \/ StopHalt(w) \/ StopInspectAgain(w)
  \/ StopMark(w) \/ StopCommit(w, "commit_stopped", "stopped")
  \/ StopMarkFailed(w) \/ StopCommit(w, "commit_failed", "failed")
  \/ StopUsage(w)
=============================================================================
