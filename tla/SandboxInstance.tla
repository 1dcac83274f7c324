--------------------------- MODULE SandboxInstance ---------------------------
(***************************************************************************)
(* One sandbox instance with everything that acts on it at once: the       *)
(* sandbox and its tunnels, the gateway nodes, the deadline runs, the      *)
(* worker's start, stop, reconcile, resume and delete runs, and the        *)
(* requests of its user. It begins with a running sandbox whose tunnel is  *)
(* up, or with a pending one whose start run was enqueued.                 *)
(***************************************************************************)
EXTENDS GatewayTunnel, DeadlineWorkflow, StartWorkflow, ResumeWorkflow,
        DeleteWorkflow, InstanceRead

CONSTANTS
  Beginnings,     \* the statuses an instance begins with: running or pending
  Requests,       \* the kinds of requests the user makes
  MaxRequests,    \* bound: how many
  MaxConnects     \* bound: how many tunnels connect, a first one that is up
                  \* at the beginning not counted

ASSUME RequestAssumption ==
  /\ Beginnings # {} /\ Beginnings \subseteq {"running", "pending"}
  /\ Requests \subseteq {"stop", "resume", "delete", "reconcile", "read"}
  /\ MaxRequests \in Nat /\ MaxConnects \in Nat

VARIABLES
  left,         \* what is left of the last two bounds
  deleting      \* the delete run was enqueued

vars == <<rowVars, gatewayVars, workerVars, left, deleting>>

\* The first tunnel is attached and ready, its idle deadline armed.
InitRunning ==
  /\ status = "running" /\ deleted = FALSE
  /\ attachment = 1 /\ ready = 1
  /\ deadline = [k \in DeadlineKinds |->
       IF k = "idle" THEN [lease |-> 1, generation |-> 1, armed |-> TRUE]
       ELSE [lease |-> NoLease, generation |-> 0, armed |-> FALSE]]
  /\ jobs = {[kind |-> "idle", lease |-> 1, generation |-> 1]}
  /\ LET first == CHOOSE n \in Nodes : TRUE IN
     /\ session = [l \in Leases |->
          [socket |-> IF l = 1 THEN "open" ELSE "unused", node |-> first,
           activation |-> IF l = 1 THEN "renewing" ELSE "off",
           writing |-> FALSE]]
     /\ peer = [n \in Nodes |-> IF n = first THEN 1 ELSE NoLease]
  /\ line = [n \in Nodes |-> <<>>]
  /\ budget = [touches |-> MaxTouches, faults |-> MaxFaults,
               crashes |-> MaxCrashes]
  /\ WorkerInit(TRUE)

\* startSandboxInstance of the API enqueued the start run and inserted the row.
InitPending == RowInit("pending") /\ GatewayInit /\ WorkerInit(FALSE)

Init ==
  /\ \/ "running" \in Beginnings /\ InitRunning
     \/ "pending" \in Beginnings /\ InitPending
  /\ left = [requests |-> MaxRequests, connects |-> MaxConnects]
  /\ deleting = FALSE

-----------------------------------------------------------------------------
(* Requests to the data-plane API. *)

Request(kind) ==
  /\ kind \in Requests /\ left.requests > 0
  /\ left' = [left EXCEPT !.requests = @ - 1]

\* stopSandboxInstance of the API: claim the stop, then enqueue the run.
RequestStop(w) ==
  /\ Request("stop")
  /\ ~deleted /\ status \in UserStopEligible \cup {"stopping"}
  /\ status' = "stopping"
  /\ Begin(w, "stop", NoLease, 0)
  /\ UNCHANGED <<deleted, attachment, ready, deadline, jobs, gatewayVars,
                 provider, compute, billing, engine, deleting>>

\* The stop is claimed and enqueueing its run fails: the call throws.
RequestStopUnqueued ==
  /\ Request("stop") /\ budget.faults > 0
  /\ ~deleted /\ status \in UserStopEligible \cup {"stopping"}
  /\ status' = "stopping"
  /\ budget' = [budget EXCEPT !.faults = @ - 1]
  /\ UNCHANGED <<deleted, attachment, ready, deadline, jobs, session, peer,
                 line, workerVars, deleting>>

RequestResume(w) ==
  /\ Request("resume")
  /\ Begin(w, "resume", NoLease, 0)
  /\ UNCHANGED <<rowVars, gatewayVars, provider, compute, billing, engine,
                 deleting>>

\* The reconcile route names the lease whose disconnect it is about.
RequestReconcile(w, l) ==
  /\ Request("reconcile")
  /\ session[l].socket \in {"closed", "lost"}
  /\ Begin(w, "reconcile", l, 0)
  /\ UNCHANGED <<rowVars, gatewayVars, provider, compute, billing, engine,
                 deleting>>

\* deleteSandboxInstance of the API enqueues the run first, once per instance,
\* and stamps the row afterwards.
RequestDelete(w) ==
  /\ Request("delete")
  /\ ~deleted /\ ~deleting
  /\ deleting' = TRUE
  /\ Begin(w, "delete", NoLease, 0)
  /\ UNCHANGED <<rowVars, gatewayVars, provider, compute, billing, engine>>

RequestRead(w) ==
  /\ Request("read")
  /\ Begin(w, "read", NoLease, 0)
  /\ UNCHANGED <<rowVars, gatewayVars, provider, compute, billing, engine,
                 deleting>>

StampDeleted ==
  /\ deleting /\ ~deleted
  /\ deleted' = TRUE
  /\ UNCHANGED <<status, attachment, ready, deadline, jobs, gatewayVars,
                 workerVars, left, deleting>>

-----------------------------------------------------------------------------

\* The gateway's terminate route: when the expected lease is still attached,
\* close its socket and clear its attachment.
Terminate(w) ==
  LET l == run[w].saw IN
  /\ In(w, {"stop", "reconcile"}, "terminate")
  /\ IF attachment = l
     THEN /\ attachment' = NoLease
          /\ IF Open(l)
             THEN /\ session' = [session EXCEPT ![l].socket = "closed"]
                  /\ IF Current(l) THEN Enqueue(session[l].node, "detach", l)
                                   ELSE UNCHANGED line
             ELSE UNCHANGED <<session, line>>
     ELSE UNCHANGED <<attachment, session, line>>
  /\ Finish(w)
  /\ UNCHANGED <<status, deleted, ready, deadline, jobs, peer, budget,
                 provider, compute, billing, engine, left, deleting>>

\* A write of the row waits for the transaction that holds its lock.
RowLocked == \E w \in Workers : Committing(w)
RespectsLock == RowLocked => UNCHANGED <<status, deleted, provider>>

WorkflowStep(w) ==
  /\ \/ Terminate(w)
     \/ /\ \/ CheckDeadline(w) \/ StopStep(w) \/ ReconcileStep(w)
           \/ StartStep(w) \/ ResumeStep(w) \/ DeleteStep(w) \/ RunFails(w)
           \/ ReadStep(w)
        /\ UNCHANGED <<gatewayVars, left, deleting>>
  /\ LockFree(w) \/ RespectsLock

\* The disconnect grace (60 s) and the idle timeout (300 s) are longer than the
\* attachment's TTL (30 s) and than it takes to close a socket that a newer one
\* replaced. When a run for lease l comes due, the sessions that l's replaced on
\* its node are closed, no write of theirs is in flight, and what they left
\* behind has expired. For a disconnect run the same holds of l's own session.
Gone(k, node) ==
  /\ ~session[k].writing
  /\ session[k].node = node => ~Open(k)
  /\ attachment = k => Open(k)

DeadlineDue(w) ==
  /\ \E j \in jobs \ engine.taken :
       /\ \A k \in 1 .. j.lease :
            k < j.lease \/ j.kind = "disconnect" =>
              Gone(k, session[j.lease].node)
       /\ TakeDeadline(w, j)
  /\ UNCHANGED <<gatewayVars, left, deleting>>

\* A step of the gateway or of the sandbox.
Tunnel(step) ==
  step /\ RespectsLock /\ UNCHANGED <<workerVars, left, deleting>>

\* A tunnel needs a running compute and an activated runtime at its other end.
TunnelConnects ==
  /\ left.connects > 0 /\ left' = [left EXCEPT !.connects = @ - 1]
  /\ \E l \in Leases, n \in Nodes : Connect(l, n)
  /\ UNCHANGED <<workerVars, deleting>>

TunnelStep ==
  \/ Tunnel(GatewayNext)
  \/ /\ compute = "active" /\ ~NotActivated
     /\ TunnelConnects \/ Tunnel(\E l \in Leases : SandboxSignal(l))

\* A step of the API.
ApiStep ==
  /\ \/ \E w \in Workers :
          \/ RequestStop(w) \/ RequestResume(w) \/ RequestDelete(w)
          \/ RequestRead(w)
          \/ \E l \in Leases : RequestReconcile(w, l)
     \/ RequestStopUnqueued \/ StampDeleted
  /\ RespectsLock

\* A step of the provider, or the death of a worker.
Elsewhere ==
  /\ \/ ComputeStops \/ ComputeLost
     \/ \E w \in Workers : WorkerDies(w)
  /\ UNCHANGED <<gatewayVars, left, deleting>>

Next ==
  \/ TunnelStep \/ ApiStep \/ Elsewhere
  \/ \E w \in Workers : WorkflowStep(w) \/ DeadlineDue(w)

Spec == Init /\ [][Next]_vars

\* The event loops and the workers get to everything that is waiting for them,
\* a lease nobody renews runs out, and a stopping compute stops. The socket of
\* a compute that is gone, and one that a newer connection replaced, are closed.
\* An API call that enqueued a delete run goes on to stamp the row.
Fairness ==
  /\ \A n \in Nodes : WF_vars(Tunnel(CoordinatorStep(n)))
  /\ \A l \in Leases :
       /\ WF_vars(Tunnel(SessionStep(l)))
       /\ WF_vars(Tunnel(/\ compute # "active" \/ ~Current(l)
                         /\ CloseSocket(l)))
  /\ WF_vars(Tunnel(AttachmentExpires))
  /\ \A w \in Workers : WF_vars(WorkflowStep(w)) /\ WF_vars(DeadlineDue(w))
  /\ WF_vars(StampDeleted /\ RespectsLock)
  /\ WF_vars(ComputeStops /\ UNCHANGED <<gatewayVars, left, deleting>>)

FairSpec == Spec /\ Fairness

-----------------------------------------------------------------------------
(* Properties. *)

TypeOK ==
  /\ RowTypeOK /\ GatewayTypeOK /\ WorkerTypeOK
  /\ left \in [requests : 0 .. MaxRequests, connects : 0 .. MaxConnects]
  /\ deleting \in BOOLEAN

\* No run is under way.
NoRuns == \A w \in Workers : run[w] = Free

\* A stop that was begun ends: no race of the stop with the tunnel's collapse,
\* with the disconnect deadline or with a lease that is still recorded leaves
\* the instance in stopping for good.
StoppingEnds == status = "stopping" ~> status # "stopping"

\* A compute that is gone or stopped is noticed: the row does not go on saying
\* that the sandbox is up. The path leads from the closed tunnel through the
\* disconnect deadline to the reconciliation.
LostComputeIsNoticed ==
  compute # "active" ~> status \in {"stopped", "failed"} \/ compute = "active"

\* A start or a resume run is at work.
StartingUp == \E w \in Workers : run[w].flow \in {"start", "resume"}

\* No such run is, and the tunnel is up, but the sandbox has not said on it that its
\* runtime is ready: what a reattachment leaves behind.
AwaitsReadiness ==
  /\ status = "initializing" /\ ~StartingUp
  /\ attachment # NoLease /\ Open(attachment) /\ ready # attachment

\* A startup that was begun ends, though the tunnel closes while the start or resume
\* run waits for it or for the runtime, deadlines come due, the compute stops by
\* itself, a failed startup is undone or a deletion comes in between. Only a sandbox
\* whose tunnel was attached again after its startup may stay initializing, while
\* that tunnel is up and it does not say that its runtime is ready: an idle run
\* throws on it.
StartupEnds == []<>(status \notin StartupStatuses \/ AwaitsReadiness)

\* "A pending or starting Deleted session must not complete startup into a
\* hidden running sandbox": the compute of a deleted instance is destroyed, for good.
DeletedIsDestroyed == <>[](deleted => compute = "missing" /\ ~provider)

\* No startup, however it ends, leaves a compute behind that nothing knows of:
\* one that runs has its provider id in the row.
ActiveComputeIsKnown == NoRuns /\ compute = "active" => provider

\* An instance whose row says stopped has no compute running behind it.
StoppedComputeIsDown ==
  NoRuns /\ status = "stopped" => compute # "active"

\* Nothing of the gateway's is under way, and no session has still to find out
\* that it lost its attachment.
Quiet ==
  /\ \A n \in Nodes : line[n] = <<>>
  /\ \A l \in Leases : /\ session[l].activation \in {"renewing", "off"}
                       /\ ~session[l].writing
                       /\ Open(l) => attachment = l

\* A run that was enqueued for the deadline as it is stored now.
CurrentRun(j) ==
  deadline[j.kind] = [lease |-> j.lease, generation |-> j.generation,
                      armed |-> TRUE]

\* Once everything has settled, a sandbox that is up is watched: the run of an
\* armed deadline is still to come, or it was tried and is recorded as failed.
\* No race of tunnels, deadlines and runs loses a sandbox silently.
LiveSandboxIsWatched ==
  NoRuns /\ Quiet /\ compute = "active" /\ status \notin {"stopped", "failed"}
    => \E j \in (jobs \ engine.taken) \cup engine.failed : CurrentRun(j)

\* Once everything has settled, a row in a startup status is not left alone: the run
\* of an armed deadline is still to come, or the tunnel is up and waited for, as in
\* StartupEnds. Neither a tunnel that closes during the startup or is replaced after it,
\* nor a run that gives up or is overtaken, nor the undo of a failed start loses it.
StartupSettles ==
  NoRuns /\ Quiet /\ status \in StartupStatuses
    => \/ AwaitsReadiness
       \/ \E j \in jobs \ engine.taken : CurrentRun(j)

\* "The component that makes a terminal sandbox compute state authoritative
\* should also record the matching Terminal sandbox usage event".
TerminalClosesUsage ==
  NoRuns /\ status \in {"stopped", "failed"} => ~billing

\* Nothing but a resume takes an instance out of stopped or failed: no late
\* report of a tunnel, no retried run and no mark of a run that had loaded the
\* row before revives it or turns the one status into the other. What a stop
\* left behind may prove beyond resuming, and a startup that was stopped fails:
\* then stopped becomes failed.
TerminalOnlyResumes ==
  [][(status \in {"stopped", "failed"}) =>
       (\/ status' \in {status, "starting"}
        \/ /\ status = "stopped" /\ status' = "failed"
           /\ \/ compute \in {"missing", "terminal_stopped"}
              \/ \E w \in Workers : Starting(w, "undo_mark"))]_vars
=============================================================================
