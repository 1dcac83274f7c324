---------------------------- MODULE InstanceRead ----------------------------
(***************************************************************************)
(* getSandboxInstance of the data-plane API: reading an instance inspects  *)
(* the provider and repairs a row that disagrees with what it saw. Nothing *)
(* is locked between the read of the row, the inspection and the write;    *)
(* the write is conditional on the status only. Deadlines stay armed, and  *)
(* the read that lost its race throws.                                     *)
(***************************************************************************)
EXTENDS WorkerRuns

Reading(w, pc) == In(w, {"read"}, pc)

\* StartupInspectionStatuses, RuntimeInspectionStatuses, and the stopped row.
InspectionGroups ==
  {{"starting", "started", "initializing"},
   {"running", "degraded", "reconnecting"},
   {"stopped"}}

\* The instance is answered from the row, or the provider is asked.
ReadLoad(w) ==
  /\ Reading(w, "read_load")
  /\ IF ~deleted /\ provider /\ status \in UNION InspectionGroups
     THEN run' = [run EXCEPT ![w].pc = "read_inspect", ![w].seen = status]
     ELSE Finish(w)
  /\ UNCHANGED <<rowVars, provider, compute, billing, engine>>

\* determineStartingSandboxInspectionOutcome, inspectRunningSandboxInstance and
\* isStoppedSandboxProviderDispositionRecoverable: the status to write. Every
\* provider that knows a compute to be stopping gives its state as RUNNING, which is
\* what counts for a running instance.
Verdict(seen, c) ==
  CASE seen \in {"running", "degraded", "reconnecting"} ->
         (CASE c \in {"active", "stopping"} -> seen
            [] c = "missing" -> "failed"
            [] OTHER -> "stopped")
    [] OTHER -> IF c \in {"missing", "terminal_stopped"} THEN "failed" ELSE seen

ReadInspect(w) ==
  /\ Reading(w, "read_inspect")
  /\ IF Verdict(run[w].seen, compute) = run[w].seen
     THEN Finish(w)
     ELSE run' = [run EXCEPT ![w].pc = "read_mark", ![w].found = compute]
  /\ UNCHANGED <<rowVars, provider, compute, billing, engine>>

\* UPDATE ... WHERE status IN the group the row was read in, with the usage
\* event in the same transaction. The event's key names no run: the second one
\* of its kind in a compute generation is dropped. A stopped row that becomes
\* failed records that it stopped.
ReadMark(w) ==
  LET seen == run[w].seen
      verdict == Verdict(seen, run[w].found)
      event == IF seen = "stopped" THEN "stopped" ELSE verdict IN
  /\ Reading(w, "read_mark")
  /\ IF \E group \in InspectionGroups : {seen, status} \subseteq group
     THEN /\ status' = verdict
          /\ billing' = (billing /\ event \in engine.inspected)
          /\ engine' = [engine EXCEPT !.inspected = @ \cup {event}]
     ELSE UNCHANGED <<status, billing, engine>>
  /\ Finish(w)
  /\ UNCHANGED <<deleted, attachment, ready, deadline, jobs, provider, compute>>

ReadStep(w) == ReadLoad(w) \/ ReadInspect(w) \/ ReadMark(w)
=============================================================================
