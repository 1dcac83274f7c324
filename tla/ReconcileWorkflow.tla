-------------------------- MODULE ReconcileWorkflow --------------------------
(***************************************************************************)
(* reconcileSandboxInstance: when the grace after a tunnel's disconnect is *)
(* over, make the durable row agree with what the provider reports, and    *)
(* stop a compute nobody can reach. The run goes on only while no          *)
(* bootstrap attachment is recorded. The reconcile workflow then records   *)
(* the usage event and has the attachment terminated; the deadline         *)
(* workflow does neither.                                                  *)
(***************************************************************************)
EXTENDS WorkerRuns

ReconcileFlows == {"reconcile", "disconnect"}

\* shouldExecuteSandboxDisconnectReconciliation. The snapshot's owner lease is
\* that of its attachment, so an absent attachment has no owner either.
ReconcilePermitted == attachment = NoLease

\* The reconcile workflow terminates the expected lease's attachment.
ReconcileOver(w) ==
  IF run[w].flow = "reconcile"
  THEN run' = [run EXCEPT ![w].pc = "terminate", ![w].saw = run[w].lease]
  ELSE Finish(w)

ReconcileSnapshot(w) ==
  /\ In(w, ReconcileFlows, "snapshot")
  /\ run' = [run EXCEPT ![w].pc = "load", ![w].saw = attachment]
  /\ UNCHANGED <<rowVars, provider, compute, billing, engine>>

\* resolveActiveSandboxInstance, then the fences on the snapshot read before:
\* isTerminalCleanupFenceMatched for an instance that is terminal already.
ReconcileLoad(w) ==
  LET saw == run[w].saw IN
  /\ In(w, ReconcileFlows, "load")
  /\ \/ /\ status \in {"stopped", "failed"}
        /\ IF saw \in {NoLease, run[w].lease} THEN ReconcileOver(w)
                                               ELSE Finish(w)
     \/ /\ \/ status = "pending"
           \/ ReconciliationCandidate(status) /\ ~provider
        /\ Throw(w)
     \/ /\ ReconciliationCandidate(status) /\ provider
        /\ IF saw = NoLease
           THEN run' = [run EXCEPT ![w].pc = "fence_inspect",
                                   ![w].seen = status]
           ELSE Finish(w)
  /\ UNCHANGED <<rowVars, provider, compute, billing, engine>>

ReconcileFence(w, from, to) ==
  /\ In(w, ReconcileFlows, from)
  /\ IF ReconcilePermitted THEN Goto(w, to) ELSE Finish(w)
  /\ UNCHANGED <<rowVars, provider, compute, billing, engine>>

\* Mutant: an unreachable compute is taken for a stopped one.
ReconcileActionsTrusting(seen, c) ==
  CASE c \in {"resumable_stopped", "active"} -> {"mark_stopped"}
    [] c \in {"missing", "terminal_stopped"} -> {"mark_failed"}
    [] c = "stopping" -> {}

\* determineDisconnectReconciliationAction: the steps a reconciliation may go
\* on with. Whether startup failure evidence was recorded is not state of this
\* model: both answers are possible.
ReconcileActions(seen, c) ==
  CASE c = "resumable_stopped" -> {"mark_stopped"}
    [] c \in {"missing", "terminal_stopped"} -> {"mark_failed"}
    [] c = "active" -> IF ReconciliationPhase(seen) = "startup"
                       THEN {"mark_failed", "fence_stop"}
                       ELSE {"fence_stop"}
    [] c = "stopping" -> {}

ReconcileInspect(w) ==
  /\ In(w, ReconcileFlows, "inspect")
  /\ \/ compute = "stopping" /\ Throw(w)
     \/ \E next \in ReconcileActions(run[w].seen, compute) :
          run' = [run EXCEPT ![w].pc = next, ![w].found = compute]
  /\ UNCHANGED <<rowVars, provider, compute, billing, engine>>

\* stopActiveProviderSandboxDuringDisconnect
ReconcileRequest(w) ==
  /\ In(w, ReconcileFlows, "request")
  /\ IF Applicable("stop_requested")
     THEN /\ status' = "stopping"
          /\ run' = [run EXCEPT ![w].seen = "stopping", ![w].pc = "halt"]
     ELSE Throw(w) /\ UNCHANGED status
  /\ UNCHANGED <<deleted, attachment, ready, deadline, jobs, provider, compute,
                 billing, engine>>

\* stopProviderSandboxOrMarkMissing: no second look at the provider.
ReconcileHalt(w) ==
  /\ In(w, ReconcileFlows, "halt")
  /\ StopCompute
  /\ Goto(w, IF compute = "missing" THEN "mark_failed" ELSE "mark_stopped")
  /\ UNCHANGED <<rowVars, provider, billing, engine>>

\* markSandboxInstanceStopped and markSandboxInstanceFailed of the
\* reconciliation, up to their last look at the attachment.
ReconcileMark(w, pc, target, commit) ==
  /\ In(w, ReconcileFlows, pc) /\ LockFree(w)
  /\ \/ /\ status = target
        /\ deadline' = DeadlinesCleared
        /\ IF target = "failed" /\ run[w].seen = "stopping"
                /\ run[w].found = "active"
           THEN Finish(w)
           ELSE ReconcileOver(w)
     \/ /\ status \notin {target, run[w].seen}
        /\ Throw(w)
        /\ UNCHANGED deadline
     \/ /\ status # target /\ status = run[w].seen
        /\ IF ReconcilePermitted THEN Goto(w, commit) ELSE Finish(w)
        /\ UNCHANGED deadline
  /\ UNCHANGED <<status, deleted, attachment, ready, jobs, provider, compute,
                 billing, engine>>

\* The transaction commits.
ReconcileCommit(w, pc, target) ==
  /\ In(w, ReconcileFlows, pc)
  /\ status' = target
  /\ deadline' = DeadlinesCleared
  /\ IF run[w].flow = "reconcile"
     THEN run' = [run EXCEPT ![w].pc = "usage", ![w].saw = run[w].lease]
     ELSE Finish(w)
  /\ UNCHANGED <<deleted, attachment, ready, jobs, provider, compute, billing,
                 engine>>

ReconcileUsage(w) ==
  /\ In(w, {"reconcile"}, "usage")
  /\ billing' = FALSE
  /\ Goto(w, "terminate")
  /\ UNCHANGED <<rowVars, provider, compute, engine>>

ReconcileStep(w) ==
  \/ ReconcileSnapshot(w) \/ ReconcileLoad(w)
  \/ ReconcileFence(w, "fence_inspect", "inspect") \/ ReconcileInspect(w)
  \/ ReconcileFence(w, "fence_stop", "fence_mark")
  \/ ReconcileFence(w, "fence_mark", "request")
  \/ ReconcileRequest(w) \/ ReconcileHalt(w)
  \/ ReconcileMark(w, "mark_stopped", "stopped", "commit_stopped")
  \/ ReconcileMark(w, "mark_failed", "failed", "commit_failed")
  \/ ReconcileCommit(w, "commit_stopped", "stopped")
  \/ ReconcileCommit(w, "commit_failed", "failed")
  \/ ReconcileUsage(w)
=============================================================================
