-------------------------- MODULE SandboxLifecycle --------------------------
(***************************************************************************)
(* The pure rules of @mistle/sandbox-lifecycle: the durable statuses of a  *)
(* sandbox instance, the lifecycle events that move it from one status to  *)
(* another, and the policies the services read off a status.               *)
(***************************************************************************)

\* statuses.ts
Statuses ==
  {"pending", "starting", "started", "initializing", "running", "degraded",
   "reconnecting", "stopping", "stopped", "failed"}

\* transition.ts, SandboxLifecycleEvents
Events ==
  {"provider_start_requested", "provider_start_accepted",
   "provider_runtime_initialization_started", "runtime_ready",
   "bootstrap_degraded", "bootstrap_recovered", "bootstrap_detached",
   "bootstrap_reattached_not_ready", "bootstrap_reattached_ready",
   "stop_requested", "provider_stopped", "failure_recorded"}

\* The rule table of transitionSandboxLifecycle: where an event may come from
\* and where it leads. The status an event leads to is also its only
\* idempotent status.
Rule ==
  [provider_start_requested |->
     [from |-> {"pending", "stopped", "failed"}, to |-> "starting"],
   provider_start_accepted |->
     [from |-> {"starting"}, to |-> "started"],
   provider_runtime_initialization_started |->
     [from |-> {"started"}, to |-> "initializing"],
   runtime_ready |->
     [from |-> {"initializing"}, to |-> "running"],
   bootstrap_degraded |->
     [from |-> {"running"}, to |-> "degraded"],
   bootstrap_recovered |->
     [from |-> {"degraded"}, to |-> "running"],
   bootstrap_detached |->
     [from |-> {"running", "degraded"}, to |-> "reconnecting"],
   bootstrap_reattached_not_ready |->
     [from |-> {"reconnecting"}, to |-> "initializing"],
   bootstrap_reattached_ready |->
     [from |-> {"reconnecting"}, to |-> "running"],
   stop_requested |->
     [from |-> {"starting", "started", "running", "degraded", "reconnecting",
                "initializing"},
      to |-> "stopping"],
   provider_stopped |->
     [from |-> {"stopping"}, to |-> "stopped"],
   failure_recorded |->
     [from |-> Statuses \ {"failed"}, to |-> "failed"]]

\* transitionFrom, by the kind of its result
Transitions(status, event) == status \in Rule[event].from
Unchanged(status, event) == status = Rule[event].to
Invalid(status, event) ==
  ~Transitions(status, event) /\ ~Unchanged(status, event)

\* The status after an event that is not invalid.
After(status, event) == Rule[event].to

-----------------------------------------------------------------------------
\* apply-sandbox-runtime-lifecycle-event.ts: what the gateway reports, with
\* runtime_readiness_reported split by its runtimeReady flag, and the event a
\* report becomes for a row in a given status ("none" is undefined).
Reports ==
  {"detached", "degraded", "recovered", "ready", "not_ready"}

ResolveLifecycleEvent(s, r) ==
  CASE r = "detached" /\ s \in {"running", "degraded"} -> "bootstrap_detached"
    [] r = "degraded" /\ s = "running" -> "bootstrap_degraded"
    [] r = "recovered" /\ s = "degraded" -> "bootstrap_recovered"
    [] r = "ready" /\ s = "reconnecting" -> "bootstrap_reattached_ready"
    [] r = "not_ready" /\ s = "reconnecting" ->
         "bootstrap_reattached_not_ready"
    [] r = "ready" /\ s \in {"initializing", "running"} -> "runtime_ready"
    [] OTHER -> "none"

-----------------------------------------------------------------------------
\* policy.ts

UserStopEligible == {"running", "degraded", "reconnecting"}

\* getSandboxDisconnectReconciliationPhase; "none" is the code's null.
ReconciliationPhase(status) ==
  CASE status \in {"starting", "started", "initializing"} -> "startup"
    [] status \in {"running", "degraded", "reconnecting"} -> "runtime"
    [] status = "stopping" -> "stopping"
    [] OTHER -> "none"

ReconciliationCandidate(status) == ReconciliationPhase(status) # "none"
=============================================================================
