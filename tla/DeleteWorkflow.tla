--------------------------- MODULE DeleteWorkflow ---------------------------
(***************************************************************************)
(* deleteSandboxInstance of the worker: destroy the compute of a deleted   *)
(* instance, forget its provider id, and close the usage interval of one   *)
(* that was running.                                                       *)
(***************************************************************************)
EXTENDS WorkerRuns

StartupStatuses == {"pending", "starting", "started", "initializing"}

\* While the instance starts up and no provider id is recorded the step throws.
\* The API stamps the row right after it enqueued the run: the attempts, which
\* back off, do not run out before that.
DeleteLoad(w) ==
  /\ In(w, {"delete"}, "load")
  /\ \/ provider /\ Goto(w, "destroy") /\ UNCHANGED deadline
     \/ /\ ~provider /\ status \in StartupStatuses
        /\ deleted \/ run[w].tries > 0
        /\ Throw(w)
        /\ UNCHANGED deadline
     \/ /\ ~provider /\ status \notin StartupStatuses
        /\ deadline' = DeadlinesCleared
        /\ Finish(w)
  /\ UNCHANGED <<status, deleted, attachment, ready, jobs, provider, compute,
                 billing, engine>>

DeleteDestroy(w) ==
  /\ In(w, {"delete"}, "destroy")
  /\ compute' = "missing"
  /\ Goto(w, "mark_destroyed")
  /\ UNCHANGED <<rowVars, provider, billing, engine>>

\* markDeletedSandboxProviderComputeDestroyed: one transaction under the row's
\* lock, which does nothing when the provider id changed meanwhile.
DeleteMark(w) ==
  /\ In(w, {"delete"}, "mark_destroyed")
  /\ provider' = FALSE
  /\ IF provider
     THEN /\ status' = IF status \in StartupStatuses \cup {"running"}
                       THEN "stopped" ELSE status
          /\ deadline' = DeadlinesCleared
     ELSE UNCHANGED <<status, deadline>>
  /\ IF provider /\ status = "running" THEN Goto(w, "usage") ELSE Finish(w)
  /\ UNCHANGED <<deleted, attachment, ready, jobs, compute, billing, engine>>

DeleteUsage(w) ==
  /\ In(w, {"delete"}, "usage")
  /\ billing' = FALSE
  /\ Finish(w)
  /\ UNCHANGED <<rowVars, provider, compute, engine>>

DeleteStep(w) ==
  DeleteLoad(w) \/ DeleteDestroy(w) \/ DeleteMark(w) \/ DeleteUsage(w)
=============================================================================
