-------------------------- MODULE DeadlineWorkflow --------------------------
(***************************************************************************)
(* handleSandboxInstanceDeadline: when a deadline's run comes due, check   *)
(* that the stored deadline is still the one it was enqueued for, and then *)
(* stop the sandbox (idle) or reconcile it (disconnect). Everything is one *)
(* durable step.                                                           *)
(***************************************************************************)
EXTENDS StopWorkflow, ReconcileWorkflow

\* A worker picks a due run up. A run is enqueued once per generation.
TakeDeadline(w, j) ==
  /\ j \in jobs \ engine.taken
  /\ Begin(w, j.kind, j.lease, j.generation)
  /\ engine' = [engine EXCEPT !.taken = @ \cup {j}]
  /\ UNCHANGED <<rowVars, provider, compute, billing>>

\* Mutant: an off-by-one in the comparison of the generations.
DeadlineNewer(w) ==
  LET d == deadline[run[w].flow] IN
  /\ d.armed
  /\ d.generation > run[w].generation
  /\ d.lease = run[w].lease

\* The checks on the stored deadline; a generation stands for a due time.
DeadlineCurrent(w) ==
  LET d == deadline[run[w].flow] IN
  /\ d.armed
  /\ d.generation = run[w].generation
  /\ d.lease = run[w].lease

CheckDeadline(w) ==
  /\ In(w, DeadlineKinds, "check")
  /\ IF DeadlineCurrent(w)
     THEN Goto(w, IF run[w].flow = "idle" THEN "fence_load" ELSE "snapshot")
     ELSE Finish(w)
  /\ UNCHANGED <<rowVars, provider, compute, billing, engine>>
=============================================================================
